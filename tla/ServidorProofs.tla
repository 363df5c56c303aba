--------------------------- MODULE ServidorProofs ---------------------------
(***************************************************************************)
(* Servidor for any number of clients, descriptors and slots, whoever is   *)
(* killed and whenever: a descriptor may be reused while the process of    *)
(* its former client runs, and still no two processes that run have the    *)
(* same PID, and no slot is lost or returned twice by PP's own threads.    *)
(*                                                                         *)
(* The argument: under each PID the table lists PCBs of which only the     *)
(* first may have been started, since messages go to the first one only.   *)
(***************************************************************************)
EXTENDS Servidor, SequenceTheorems, FiniteSetTheorems, WellFoundedInduction,
        TLAPS

EnTabla == {"admitido"} \cup EnSistema

\* Connections not yet accepted, and clients not yet connected.
Afuera ==
  /\ \A i, j \in DOMAIN backlog : backlog[i] = backlog[j] => i = j
  /\ \A i \in DOMAIN backlog :
       estado[backlog[i]] = "no" /\ cliente[backlog[i]] # "afuera"
  /\ \A c \in Clientes : cliente[c] = "afuera" => estado[c] = "no"

\* Whoever has a descriptor was given it as its PID.
Descriptores ==
  /\ \A f \in Fds : fd[f] # Nadie => pid[fd[f]] = f /\ estado[fd[f]] # "no"
  /\ \A p \in Clientes : estado[p] # "no" => pid[p] \in Fds

\* tabla_procesos lists what finalizados has not seen, once, under its PID, and
\* only the first of a PID has been started.
Listados ==
  /\ \A f \in Fds : \A i \in DOMAIN tabla_procesos[f] :
       /\ pid[tabla_procesos[f][i]] = f
       /\ estado[tabla_procesos[f][i]] \in EnTabla
       /\ i > 1 => estado[tabla_procesos[f][i]] = "admitido"
       /\ \A j \in DOMAIN tabla_procesos[f] :
            tabla_procesos[f][i] = tabla_procesos[f][j] => i = j
  /\ \A p \in Clientes : estado[p] \in EnSistema =>
       /\ codigo[p]
       /\ tabla_procesos[pid[p]] # <<>>
       /\ Head(tabla_procesos[pid[p]]) = p

\* tabla_suspendidos lists at most the process of the PID, while suspended.
Suspendidos ==
  \A f \in Fds :
    /\ Len(tabla_suspendidos[f]) <= 1
    /\ \A i \in DOMAIN tabla_suspendidos[f] :
         /\ pid[tabla_suspendidos[f][i]] = f
         /\ estado[tabla_suspendidos[f][i]] \in {"susp_envia", "suspendido"}

IInv == /\ TypeOK /\ Afuera /\ Descriptores /\ Listados /\ Suspendidos
        /\ CupoDeServidor

-----------------------------------------------------------------------------
\* The strings of the states are told apart.
LEMMA Conjuntos ==
  /\ EnTabla \subseteq ConCupo /\ EnSistema \subseteq EnTabla
  /\ "no" \notin ConCupo /\ "no" \notin EnTabla /\ "admitido" \notin EnSistema
  /\ ConCupo \subseteq Estados
BY DEF EnTabla, EnSistema, EnFinalizados, ConCupo, Estados

\* A set of descriptors has a lowest one, and accept() takes it.
LEMMA HayMinimo ==
  ASSUME NEW S \in SUBSET Fds, S # {}
  PROVE  MinFd(S) \in S
<1>0. S \in SUBSET Nat
  BY FdsAssumption
<1>1. PICK x \in S : \A y \in S : <<y, x>> \notin OpToRel(<, Nat)
  BY <1>0, NatLessThanWellFounded, WFMin, Zenon
<1>2. \A y \in S : <<y, x>> \in Nat \X Nat
  BY <1>0
<1>3. \A y \in S : ~(y < x)
  BY <1>1, <1>2, Zenon DEF OpToRel
<1>4. \A y \in S : x <= y
  BY <1>0, <1>3
<1> QED BY <1>4 DEF MinFd

\* There is a descriptor for whoever is waiting: those in use belong to others.
LEMMA HayDescriptor ==
  ASSUME IInv, NEW c \in Clientes, estado[c] = "no"
  PROVE  Libres # {} /\ MinFd(Libres) \in Libres /\ MinFd(Libres) \in Fds
<1>1. Libres # {}
  <2> SUFFICES ASSUME Libres = {} PROVE FALSE
    OBVIOUS
  <2> DEFINE Otros == Clientes \ {c}
             m == [f \in Fds |-> fd[f]]
  <2>1. \A f \in Fds : fd[f] \in Otros
    BY DEF Libres, IInv, TypeOK, Descriptores
  <2>2. \A f, g \in Fds : fd[f] = fd[g] => f = g
    BY <2>1, ServidorAssumption DEF IInv, Descriptores
  <2>3. m \in Injection(Fds, Otros)
    BY <2>1, <2>2 DEF Injection, IsInjective
  <2>4. /\ IsFiniteSet(Otros)
        /\ Cardinality(Otros) = Cardinality(Clientes) - 1
    BY FdsAssumption, FS_RemoveElement
  <2>5. Cardinality(Fds) <= Cardinality(Otros)
    BY <2>3, <2>4, FdsAssumption, FS_Injection DEF ExistsInjection
  <2>6. Cardinality(Fds) \in Nat /\ Cardinality(Clientes) \in Nat
    BY FdsAssumption, FS_CardinalityType
  <2> QED BY <2>4, <2>5, <2>6, FdsAssumption
<1>2. Libres \subseteq Fds
  BY DEF Libres
<1> QED BY <1>1, <1>2, HayMinimo

-----------------------------------------------------------------------------
(* Sequences, element by element.                                            *)

LEMMA Agregada ==
  ASSUME NEW S, NEW s \in Seq(S), NEW x \in S, NEW t, t = Append(s, x)
  PROVE  /\ t \in Seq(S) /\ t # <<>> /\ Len(t) = Len(s) + 1
         /\ \A i \in DOMAIN s : i \in DOMAIN t /\ t[i] = s[i]
         /\ Len(s) + 1 \in DOMAIN t /\ t[Len(s) + 1] = x
         /\ Len(s) + 1 \notin DOMAIN s
         /\ \A i \in DOMAIN t : i \in DOMAIN s \/ i = Len(s) + 1
<1>1. DOMAIN s = 1..Len(s) /\ Len(s) \in Nat
  BY LenProperties
<1>2. /\ t \in Seq(S) /\ t # <<>> /\ Len(t) = Len(s) + 1
      /\ \A i \in 1..Len(s) : t[i] = s[i]
      /\ t[Len(s) + 1] = x
  BY AppendProperties
<1>3. DOMAIN t = 1..Len(t)
  BY <1>2, LenProperties
<1> QED BY ONLY <1>1, <1>2, <1>3

LEMMA Quitada ==
  ASSUME NEW S, NEW s \in Seq(S), s # <<>>, NEW t, t = Tail(s)
  PROVE  /\ t \in Seq(S) /\ Head(s) \in S /\ 1 \in DOMAIN s /\ Head(s) = s[1]
         /\ Len(t) = Len(s) - 1 /\ Len(s) \in Nat
         /\ \A i \in DOMAIN t :
              i \in Nat /\ i + 1 \in DOMAIN s /\ i + 1 > 1 /\ t[i] = s[i + 1]
<1>1. DOMAIN s = 1..Len(s) /\ Len(s) \in Nat
  BY LenProperties
<1>2. /\ t \in Seq(S) /\ Head(s) \in S /\ Len(t) = Len(s) - 1
      /\ \A i \in 1..Len(t) : t[i] = s[i + 1]
  BY HeadTailProperties
<1>3. DOMAIN t = 1..Len(t)
  BY <1>2, LenProperties
<1>4. Head(s) = s[1] /\ Len(s) # 0
  OBVIOUS
<1> QED BY ONLY <1>1, <1>2, <1>3, <1>4

-----------------------------------------------------------------------------
(* Types.                                                                    *)

LEMMA EnviaTipo ==
  ASSUME TypeOK, NEW f \in Fds, NEW m \in Mensajes, Envia(f, m)
  PROVE  /\ haciaPI' \in [Clientes -> Seq(Mensajes)]
         /\ roto' \in [Clientes -> BOOLEAN]
         /\ caido' \in {"no", "nulo", "sigpipe", "programa"}
<1>1. CASE fd[f] = Nadie
  BY <1>1 DEF Envia, TypeOK
<1>2. CASE fd[f] # Nadie
  <2>1. fd[f] \in Clientes
    BY <1>2 DEF TypeOK
  <2>2. Append(haciaPI[fd[f]], m) \in Seq(Mensajes)
    BY <2>1 DEF TypeOK
  <2> QED BY <1>2, <2>1, <2>2 DEF Envia, TypeOK
<1> QED BY <1>1, <1>2

\* Types hold at the start.
LEMMA TipoInicial == Init => TypeOK
BY ServidorAssumption, <<>> \in Seq(Clientes), <<>> \in Seq(Mensajes),
   <<>> \in Seq({"prioridad", "codigo", "reanudar"})
   DEF Init, TypeOK, Estados

LEMMA TipoManda ==
  ASSUME TypeOK, NEW c \in Clientes, NEW a, NEW b \in Vivos,
         NEW m \in {"prioridad", "codigo", "reanudar"}, Manda(c, a, b, m)
  PROVE  TypeOK'
<1>1. Append(haciaPP[c], m) \in Seq({"prioridad", "codigo", "reanudar"})
  BY DEF TypeOK
<1> QED BY <1>1 DEF Manda, TypeOK, tablas, pcbs

\* What a process of the system sends is a message to some descriptor.
LEMMA TipoMensajes ==
  ASSUME IInv, NEW p \in Clientes, estado[p] # "no",
         NEW t \in {"pid", "error", "0", "1", "2"}
  PROVE  pid[p] \in Fds /\ Mensaje(t, p) \in Mensajes
BY DEF IInv, Descriptores, Mensaje, Mensajes

LEMMA TipoFin ==
  ASSUME IInv, NEW desde \in EnFinalizados, NEW hasta \in Estados,
         NEW t \in {"0", "2"}, FinEnvia(desde, hasta, t)
  PROVE  TypeOK'
<1>1. PICK p \in Clientes : /\ estado[p] = desde /\ Cambia(p, hasta)
                            /\ Envia(pid[p], Mensaje(t, p))
  BY DEF FinEnvia
<1>2. estado[p] # "no"
  BY <1>1 DEF EnFinalizados
<1>3. pid[p] \in Fds /\ Mensaje(t, p) \in Mensajes
  BY <1>2, TipoMensajes
<1>4. /\ haciaPI' \in [Clientes -> Seq(Mensajes)]
      /\ roto' \in [Clientes -> BOOLEAN]
      /\ caido' \in {"no", "nulo", "sigpipe", "programa"}
  BY <1>1, <1>3, EnviaTipo DEF IInv
<1> QED BY <1>1, <1>4 DEF FinEnvia, Cambia, IInv, TypeOK, tablas

\* Types are preserved.
LEMMA TipoPaso == ASSUME IInv, [Next]_vars PROVE TypeOK'
<1> USE DEF tablas, pcbs, conexiones
<1>0. TypeOK
  BY DEF IInv
<1>1. ASSUME NEW c \in Clientes, Conecta(c) PROVE TypeOK'
  <2>1. Append(backlog, c) \in Seq(Clientes)
    BY <1>0 DEF TypeOK
  <2> QED BY <1>0, <1>1, <2>1 DEF Conecta, TypeOK, Vivos
<1>2. ASSUME NEW c \in Clientes, Recibe(c) PROVE TypeOK'
  <2>1. haciaPI[c] \in Seq(Mensajes) /\ haciaPI[c] # <<>>
    BY <1>0, <1>2 DEF TypeOK, Recibe
  <2>2. Tail(haciaPI[c]) \in Seq(Mensajes) /\ Head(haciaPI[c]) \in Mensajes
    BY <2>1
  <2>3. Head(haciaPI[c]).tipo \in {"pid", "error", "0", "1", "2"}
    BY <2>2 DEF Mensajes
  <2>4. cliente' \in [Clientes -> {"afuera"} \cup Vivos \cup Idos]
    BY <1>0, <1>2, <2>3 DEF TypeOK, Recibe, Vivos, Idos
  <2> QED BY <1>0, <1>2, <2>2, <2>4 DEF Recibe, TypeOK
<1>3. ASSUME NEW c \in Clientes, RecibeFin(c) PROVE TypeOK'
  BY <1>0, <1>3 DEF RecibeFin, TypeOK, Idos
<1>4. ASSUME NEW c \in Clientes, MandaPrioridad(c) PROVE TypeOK'
  BY <1>0, <1>4, TipoManda DEF MandaPrioridad, Vivos
<1>5. ASSUME NEW c \in Clientes, MandaCodigo(c) PROVE TypeOK'
  BY <1>0, <1>5, TipoManda DEF MandaCodigo, Vivos
<1>6. ASSUME NEW c \in Clientes, MandaReanudar(c) PROVE TypeOK'
  BY <1>0, <1>6, TipoManda DEF MandaReanudar, Vivos
<1>7. ASSUME NEW c \in Clientes, Muere(c) PROVE TypeOK'
  <2>1. <<>> \in Seq(Mensajes)
        /\ <<>> \in Seq({"prioridad", "codigo", "reanudar"})
    OBVIOUS
  <2>2. haciaPI' \in [Clientes -> Seq(Mensajes)]
    BY <1>0, <1>7, <2>1 DEF Muere, TypeOK
  <2>3. haciaPP' \in [Clientes -> Seq({"prioridad", "codigo", "reanudar"})]
    BY <1>0, <1>7, <2>1 DEF Muere, TypeOK
  <2> QED BY <1>0, <1>7, <2>2, <2>3 DEF Muere, TypeOK, Idos
<1>8. CASE Acepta
  <2>1. backlog \in Seq(Clientes) /\ backlog # <<>>
    BY <1>0, <1>8 DEF TypeOK, Acepta
  <2>2. /\ Head(backlog) \in Clientes /\ Tail(backlog) \in Seq(Clientes)
        /\ estado[Head(backlog)] = "no"
    BY <2>1, Quitada DEF IInv, Afuera
  <2>3. MinFd(Libres) \in Fds
    BY <2>2, HayDescriptor
  <2>4. PICK c : c = Head(backlog)
    OBVIOUS
  <2>5. PICK f : f = MinFd(Libres)
    OBVIOUS
  <2>6. c \in Clientes /\ f \in Fds
    BY <2>2, <2>3, <2>4, <2>5
  <2>m. Mensaje("pid", c) \in Mensajes
    BY <2>6 DEF Mensaje, Mensajes
  <2>7. /\ Append(tabla_procesos[f], c) \in Seq(Clientes)
        /\ Append(haciaPI[c], Mensaje("pid", c)) \in Seq(Mensajes)
    BY <1>0, <2>6, <2>m DEF TypeOK
  <2>8. mps - 1 \in Nat
    BY <1>0, <1>8 DEF TypeOK, Acepta
  <2>9. haciaPI' \in [Clientes -> Seq(Mensajes)]
    BY <1>0, <1>8, <2>4, <2>6, <2>7 DEF TypeOK, Acepta
  <2>10. tabla_procesos' \in [Fds -> Seq(Clientes)]
    BY <1>0, <1>8, <2>4, <2>5, <2>6, <2>7 DEF TypeOK, Acepta
  <2>11. fd' \in [Fds -> Clientes \cup {Nadie}] /\ pid' \in [Clientes -> Fds \cup {0}]
         /\ estado' \in [Clientes -> Estados]
    BY <1>0, <1>8, <2>4, <2>5, <2>6 DEF TypeOK, Acepta, Estados
  <2> QED BY <1>0, <1>8, <2>2, <2>8, <2>9, <2>10, <2>11 DEF TypeOK, Acepta
<1>9. CASE Rechaza
  <2>1. backlog \in Seq(Clientes) /\ backlog # <<>>
    BY <1>0, <1>9 DEF TypeOK, Rechaza
  <2>2. Head(backlog) \in Clientes /\ Tail(backlog) \in Seq(Clientes)
    BY <2>1
  <2>3. PICK c : c = Head(backlog)
    OBVIOUS
  <2>m. Mensaje("error", c) \in Mensajes
    BY <2>2, <2>3 DEF Mensaje, Mensajes
  <2>4. Append(haciaPI[c], Mensaje("error", c)) \in Seq(Mensajes)
    BY <1>0, <2>2, <2>3, <2>m DEF TypeOK
  <2>5. haciaPI' \in [Clientes -> Seq(Mensajes)]
    BY <1>0, <1>9, <2>2, <2>3, <2>4 DEF TypeOK, Rechaza
  <2> QED BY <1>0, <1>9, <2>2, <2>5 DEF TypeOK, Rechaza
<1>10. ASSUME NEW f \in Fds, Mensajero(f)
       PROVE  haciaPP' \in [Clientes -> Seq({"prioridad", "codigo", "reanudar"})]
  <2>1. fd[f] \in Clientes /\ haciaPP[fd[f]] # <<>>
    BY <1>0, <1>10 DEF TypeOK, Mensajero
  <2>2. Tail(haciaPP[fd[f]]) \in Seq({"prioridad", "codigo", "reanudar"})
    BY <1>0, <2>1 DEF TypeOK
  <2> QED BY <1>0, <1>10, <2>1, <2>2 DEF TypeOK, Mensajero
<1>11. ASSUME NEW f \in Fds, LeePrioridad(f) PROVE TypeOK'
  <2>1. prioridad' \in [Clientes -> BOOLEAN]
    BY <1>0, <1>11 DEF TypeOK, LeePrioridad
  <2>2. Mensajero(f)
    BY <1>11 DEF LeePrioridad
  <2> QED BY <1>0, <1>10, <1>11, <2>1, <2>2 DEF TypeOK, LeePrioridad, Mensajero
<1>12. ASSUME NEW f \in Fds, LeeCodigo(f) PROVE TypeOK'
  <2>1. Mensajero(f)
    BY <1>12 DEF LeeCodigo
  <2> QED BY <1>0, <1>10, <1>12, <2>1
          DEF TypeOK, LeeCodigo, Mensajero, Estados, EnSistema
<1>13. ASSUME NEW f \in Fds, LeeReanudar(f) PROVE TypeOK'
  <2>1. Mensajero(f)
    BY <1>13 DEF LeeReanudar
  <2>2. tabla_suspendidos[f] # <<>> =>
          Tail(tabla_suspendidos[f]) \in Seq(Clientes)
    BY <1>0, <1>13 DEF TypeOK
  <2>3. tabla_suspendidos' \in [Fds -> Seq(Clientes)]
    BY <1>0, <1>13, <2>2 DEF TypeOK, LeeReanudar
  <2>4. estado' \in [Clientes -> Estados]
    BY <1>0, <1>13 DEF TypeOK, LeeReanudar, Estados, EnSistema
  <2> QED BY <1>0, <1>10, <1>13, <2>1, <2>3, <2>4
          DEF TypeOK, LeeReanudar, Mensajero
<1>14. ASSUME NEW f \in Fds, Cierra(f) PROVE TypeOK'
  BY <1>0, <1>14 DEF Cierra, TypeOK
<1>15. ASSUME NEW p \in Clientes, Imprime(p) PROVE TypeOK'
  <2>1. pid[p] \in Fds /\ Mensaje("0", p) \in Mensajes
    BY <1>15, TipoMensajes DEF Imprime
  <2> QED BY <1>0, <1>15, <2>1, EnviaTipo DEF Imprime, TypeOK
<1>16. ASSUME NEW p \in Clientes, Suspende(p) PROVE TypeOK'
  <2>1. pid[p] \in Fds
    BY <1>16, TipoMensajes DEF Suspende
  <2>2. Append(tabla_suspendidos[pid[p]], p) \in Seq(Clientes)
    BY <1>0, <2>1 DEF TypeOK
  <2> QED BY <1>0, <1>16, <2>1, <2>2
          DEF Suspende, Cambia, TypeOK, Estados, EnSistema
<1>17. ASSUME NEW p \in Clientes, SuspendeEnvia(p) PROVE TypeOK'
  <2>1. pid[p] \in Fds /\ Mensaje("1", p) \in Mensajes
    BY <1>17, TipoMensajes DEF SuspendeEnvia
  <2> QED BY <1>0, <1>17, <2>1, EnviaTipo
          DEF SuspendeEnvia, Cambia, TypeOK, Estados, EnSistema
<1>18. ASSUME NEW p \in Clientes, Termina(p) PROVE TypeOK'
  BY <1>0, <1>18 DEF Termina, Cambia, TypeOK, Estados, EnSistema
<1>19. CASE FinTabla
  <2>1. PICK p \in Clientes :
          /\ estado[p] = "en_fin" /\ Cambia(p, "fin_tabla")
          /\ tabla_procesos' = [tabla_procesos EXCEPT ![pid[p]] =
                                  IF @ = <<>> THEN @ ELSE Tail(@)]
    BY <1>19 DEF FinTabla
  <2>2. pid[p] \in Fds
    BY <2>1, TipoMensajes
  <2>3. tabla_procesos[pid[p]] # <<>> =>
          Tail(tabla_procesos[pid[p]]) \in Seq(Clientes)
    BY <1>0, <2>2 DEF TypeOK
  <2>4. tabla_procesos' \in [Fds -> Seq(Clientes)]
    BY <1>0, <2>1, <2>2, <2>3 DEF TypeOK
  <2> QED BY <1>0, <1>19, <2>1, <2>4
          DEF FinTabla, Cambia, TypeOK, Estados, EnFinalizados
<1>20. CASE FinMps
  BY <1>0, <1>20 DEF FinMps, Cambia, TypeOK, Estados, EnFinalizados
<1>21. CASE FinEstado
  BY <1>21, TipoFin DEF FinEstado, Estados, EnFinalizados
<1>22. CASE FinAviso
  BY <1>22, TipoFin DEF FinAviso, Estados, EnFinalizados
<1>23. CASE FinShutdown
  <2>1. PICK p \in Clientes :
          /\ estado[p] = "fin_aviso" /\ Cambia(p, "liberado")
          /\ LET c == fd[pid[p]] IN
               IF c = Nadie
                 THEN UNCHANGED <<finPI, cortes>>
                 ELSE /\ finPI' = [finPI EXCEPT ![c] = TRUE]
                      /\ cortes' = IF c = p THEN cortes ELSE cortes \cup {c}
    BY <1>23 DEF FinShutdown
  <2>2. pid[p] \in Fds
    BY <2>1, TipoMensajes
  <2>c. fd[pid[p]] \in Clientes \cup {Nadie}
    BY <1>0, <2>2 DEF TypeOK
  <2>d. CASE fd[pid[p]] = Nadie
    <3>1. UNCHANGED <<finPI, cortes>>
      BY <2>1, <2>d
    <3> QED BY <1>0, <1>23, <2>1, <3>1 DEF FinShutdown, Cambia, TypeOK, Estados
  <2>e. CASE fd[pid[p]] # Nadie
    <3>1. PICK c \in Clientes : c = fd[pid[p]]
      BY <2>c, <2>e
    <3>2. /\ finPI' = [finPI EXCEPT ![c] = TRUE]
          /\ cortes' = IF c = p THEN cortes ELSE cortes \cup {c}
      BY <2>1, <2>e, <3>1
    <3>3. finPI' \in [Clientes -> BOOLEAN] /\ cortes' \subseteq Clientes
      BY <1>0, <3>1, <3>2 DEF TypeOK
    <3> QED BY <1>0, <1>23, <2>1, <3>3 DEF FinShutdown, Cambia, TypeOK, Estados
  <2> QED BY <2>d, <2>e
<1>24. CASE UNCHANGED vars
  BY <1>0, <1>24 DEF TypeOK, vars
<1> QED BY <1>1, <1>2, <1>3, <1>4, <1>5, <1>6, <1>7, <1>8, <1>9, <1>11, <1>12,
           <1>13, <1>14, <1>15, <1>16, <1>17, <1>18, <1>19, <1>20, <1>21,
           <1>22, <1>23, <1>24
        DEF Next, Pi, Lts, Finalizados

\* What the two tables list are PCBs.
LEMMA Elementos ==
  ASSUME TypeOK, NEW f \in Fds
  PROVE  /\ \A i \in DOMAIN tabla_procesos[f] : tabla_procesos[f][i] \in Clientes
         /\ \A i \in DOMAIN tabla_suspendidos[f] :
              tabla_suspendidos[f][i] \in Clientes
<1>1. tabla_procesos[f] \in Seq(Clientes) /\ tabla_suspendidos[f] \in Seq(Clientes)
  BY DEF TypeOK
<1> QED BY <1>1

-----------------------------------------------------------------------------
(* What the steps do to the parts of IInv.                                   *)

\* A slot is counted where the PCB is, and PCBs are as many as clients.
LEMMA CupoIgual ==
  ASSUME CupoDeServidor, mps' = mps,
         \A q \in Clientes : estado'[q] \in ConCupo <=> estado[q] \in ConCupo
  PROVE  CupoDeServidor'
<1>1. {q \in Clientes : estado'[q] \in ConCupo}
        = {q \in Clientes : estado[q] \in ConCupo}
  OBVIOUS
<1> QED BY <1>1 DEF CupoDeServidor

LEMMA CupoMas ==
  ASSUME IInv, NEW p \in Clientes, estado[p] \notin ConCupo, NEW e \in ConCupo,
         estado' = [estado EXCEPT ![p] = e], mps' = mps - 1
  PROVE  CupoDeServidor'
<1> DEFINE A == {q \in Clientes : estado[q] \in ConCupo}
           B == {q \in Clientes : estado'[q] \in ConCupo}
<1>1. B = A \cup {p} /\ p \notin A
  BY DEF IInv, TypeOK
<1>2. IsFiniteSet(A)
  BY FdsAssumption, FS_Subset
<1> HIDE DEF A, B
<1>3. Cardinality(B) = Cardinality(A) + 1
  BY <1>1, <1>2, FS_AddElement
<1>4. Cardinality(A) \in Nat
  BY <1>2, FS_CardinalityType
<1>5. mps + Cardinality(A) = MPS /\ mps \in Nat
  BY DEF IInv, CupoDeServidor, A, TypeOK
<1>6. mps' + Cardinality(B) = MPS
  BY <1>3, <1>4, <1>5
<1> QED BY <1>6 DEF CupoDeServidor, B

LEMMA CupoMenos ==
  ASSUME IInv, NEW p \in Clientes, estado[p] \in ConCupo,
         NEW e, e \notin ConCupo,
         estado' = [estado EXCEPT ![p] = e], mps' = mps + 1
  PROVE  CupoDeServidor'
<1> DEFINE A == {q \in Clientes : estado[q] \in ConCupo}
           B == {q \in Clientes : estado'[q] \in ConCupo}
<1>1. B = A \ {p} /\ p \in A
  BY DEF IInv, TypeOK
<1>2. IsFiniteSet(A)
  BY FdsAssumption, FS_Subset
<1> HIDE DEF A, B
<1>3. Cardinality(B) = Cardinality(A) - 1
  BY <1>1, <1>2, FS_RemoveElement
<1>4. Cardinality(A) \in Nat
  BY <1>2, FS_CardinalityType
<1>5. mps + Cardinality(A) = MPS /\ mps \in Nat
  BY DEF IInv, CupoDeServidor, A, TypeOK
<1>6. mps' + Cardinality(B) = MPS
  BY <1>3, <1>4, <1>5
<1> QED BY <1>6 DEF CupoDeServidor, B

\* Steps of clients, prints and priorities move no PCB.
LEMMA Quieto ==
  ASSUME IInv, TypeOK',
         UNCHANGED <<backlog, fd, mps, tabla_procesos, tabla_suspendidos, pid,
                     estado>>,
         \A p \in Clientes : codigo[p] => codigo'[p],
         \A c \in Clientes : cliente'[c] = "afuera" => cliente[c] = "afuera"
  PROVE  IInv'
<1>1. Afuera'
  <2>1. \A i \in DOMAIN backlog : backlog[i] \in Clientes
    BY DEF IInv, TypeOK
  <2> QED BY <2>1 DEF IInv, Afuera
<1>2. Descriptores' /\ Suspendidos'
  BY DEF IInv, Descriptores, Suspendidos
<1>3. Listados'
  BY DEF IInv, Listados
<1>4. CupoDeServidor'
  BY DEF IInv, CupoDeServidor
<1> QED BY <1>1, <1>2, <1>3, <1>4 DEF IInv

\* A PCB that enters the system, or moves in it, is the first of its PID.
LEMMA EnElSistema ==
  ASSUME IInv, NEW p \in Clientes, NEW e \in EnSistema,
         estado' = [estado EXCEPT ![p] = e], estado[p] \in EnTabla,
         tabla_procesos[pid[p]] # <<>>, Head(tabla_procesos[pid[p]]) = p,
         codigo'[p], \A q \in Clientes : codigo[q] => codigo'[q],
         UNCHANGED <<backlog, cliente, fd, mps, tabla_procesos, pid>>
  PROVE  Afuera' /\ Descriptores' /\ Listados' /\ CupoDeServidor'
<1>1. /\ estado[p] # "no" /\ e # "no" /\ estado[p] \in ConCupo /\ e \in ConCupo
      /\ e \in EnTabla
  BY DEF EnTabla, EnSistema, ConCupo
<1>2. \A q \in Clientes : estado'[q] = IF q = p THEN e ELSE estado[q]
  BY DEF IInv, TypeOK
<1>3. Afuera'
  <2>1. \A i \in DOMAIN backlog : backlog[i] \in Clientes
    BY DEF IInv, TypeOK
  <2> QED BY <1>1, <1>2, <2>1 DEF IInv, Afuera
<1>4. Descriptores'
  <2>1. \A f \in Fds : fd[f] # Nadie => fd[f] \in Clientes
    BY DEF IInv, TypeOK
  <2> QED BY <1>1, <1>2, <2>1 DEF IInv, Descriptores
<1>5. CupoDeServidor'
  BY <1>1, <1>2, CupoIgual DEF IInv
<1>6. Listados'
  <2>1. \A f \in Fds : \A i \in DOMAIN tabla_procesos[f] :
          tabla_procesos[f][i] \in Clientes /\ i \in Nat /\ i >= 1
    <3> TAKE f \in Fds
    <3>1. tabla_procesos[f] \in Seq(Clientes)
      BY DEF IInv, TypeOK
    <3>2. DOMAIN tabla_procesos[f] = 1..Len(tabla_procesos[f])
          /\ Len(tabla_procesos[f]) \in Nat
      BY <3>1, LenProperties
    <3> QED BY <3>1, <3>2
  <2>2. pid[p] \in Fds /\ tabla_procesos[pid[p]] \in Seq(Clientes)
    BY <1>1 DEF IInv, Descriptores, TypeOK
  <2>3. 1 \in DOMAIN tabla_procesos[pid[p]] /\ tabla_procesos[pid[p]][1] = p
    BY <2>2, Quitada
  <2>4. \A f \in Fds : \A i \in DOMAIN tabla_procesos[f] :
          i > 1 => tabla_procesos[f][i] # p
    BY <2>1, <2>2, <2>3 DEF IInv, Listados
  <2>5. \A f \in Fds : \A i \in DOMAIN tabla_procesos[f] :
       /\ pid[tabla_procesos[f][i]] = f
       /\ estado'[tabla_procesos[f][i]] \in EnTabla
       /\ i > 1 => estado'[tabla_procesos[f][i]] = "admitido"
       /\ \A j \in DOMAIN tabla_procesos[f] :
            tabla_procesos[f][i] = tabla_procesos[f][j] => i = j
    BY <1>1, <1>2, <2>1, <2>4 DEF IInv, Listados
  <2>6. \A q \in Clientes : estado'[q] \in EnSistema =>
       /\ codigo'[q]
       /\ tabla_procesos[pid[q]] # <<>>
       /\ Head(tabla_procesos[pid[q]]) = q
    BY <1>2 DEF IInv, Listados
  <2> QED BY <2>5, <2>6 DEF Listados
<1> QED BY <1>3, <1>4, <1>5, <1>6

\* Nobody looks at a PCB that only finalizados has.
LEMMA EnFinalizadosYa ==
  ASSUME IInv, NEW p \in Clientes, estado[p] \in EnFinalizados,
         NEW e \in EnFinalizados \cup {"liberado"},
         estado' = [estado EXCEPT ![p] = e],
         UNCHANGED <<backlog, cliente, fd, tabla_procesos, tabla_suspendidos, pid,
                     codigo>>
  PROVE  Afuera' /\ Descriptores' /\ Listados' /\ Suspendidos'
<1>1. /\ estado[p] # "no" /\ e # "no" /\ estado[p] \notin EnTabla
      /\ estado[p] \notin EnSistema /\ e \notin EnSistema
      /\ estado[p] \notin {"susp_envia", "suspendido"}
  BY DEF EnTabla, EnSistema, EnFinalizados
<1>2. \A q \in Clientes : estado'[q] = IF q = p THEN e ELSE estado[q]
  BY DEF IInv, TypeOK
<1>3. Afuera'
  <2>1. \A i \in DOMAIN backlog : backlog[i] \in Clientes
    BY DEF IInv, TypeOK
  <2> QED BY <1>1, <1>2, <2>1 DEF IInv, Afuera
<1>4. Descriptores'
  <2>1. \A f \in Fds : fd[f] # Nadie => fd[f] \in Clientes
    BY DEF IInv, TypeOK
  <2> QED BY <1>1, <1>2, <2>1 DEF IInv, Descriptores
<1>5. Listados'
  <2>1. \A f \in Fds : \A i \in DOMAIN tabla_procesos[f] :
          tabla_procesos[f][i] \in Clientes
    BY DEF IInv, TypeOK
  <2> QED BY <1>1, <1>2, <2>1 DEF IInv, Listados
<1>6. Suspendidos'
  <2>1. \A f \in Fds : \A i \in DOMAIN tabla_suspendidos[f] :
          tabla_suspendidos[f][i] \in Clientes
    BY DEF IInv, TypeOK
  <2> QED BY <1>1, <1>2, <2>1 DEF IInv, Suspendidos
<1> QED BY <1>3, <1>4, <1>5, <1>6

-----------------------------------------------------------------------------
(* The steps that disturb it.                                                *)

LEMMA PasoConecta ==
  ASSUME IInv, TypeOK', NEW c \in Clientes, Conecta(c) PROVE IInv'
<1>1. backlog \in Seq(Clientes) /\ backlog' = Append(backlog, c)
  BY DEF Conecta, IInv, TypeOK
<1>2. estado[c] = "no" /\ \A i \in DOMAIN backlog : backlog[i] # c
  BY DEF Conecta, IInv, Afuera
<1>3. \A b \in Clientes : cliente'[b] = IF b = c THEN "conectado" ELSE cliente[b]
  BY DEF Conecta, IInv, TypeOK
<1>4. estado' = estado
  BY DEF Conecta, pcbs
<1>5. Afuera'
  <2>1. /\ \A i \in DOMAIN backlog : i \in DOMAIN backlog' /\ backlog'[i] = backlog[i]
        /\ backlog'[Len(backlog) + 1] = c
        /\ \A i \in DOMAIN backlog' : i \in DOMAIN backlog \/ i = Len(backlog) + 1
    BY <1>1, Agregada
  <2>2. \A i \in DOMAIN backlog : backlog[i] \in Clientes
    BY <1>1
  <2> QED BY <1>2, <1>3, <1>4, <2>1, <2>2 DEF IInv, Afuera
<1>6. Descriptores' /\ Suspendidos' /\ CupoDeServidor'
  BY DEF Conecta, tablas, pcbs, IInv, Descriptores, Suspendidos, CupoDeServidor
<1>7. Listados'
  BY DEF Conecta, tablas, pcbs, IInv, Listados
<1> QED BY <1>5, <1>6, <1>7 DEF IInv

\* What leaves the backlog leaves no other copy in it.
LEMMA SinCabeza ==
  ASSUME IInv, backlog # <<>>, backlog' = Tail(backlog)
  PROVE  /\ Head(backlog) \in Clientes /\ estado[Head(backlog)] = "no"
         /\ cliente[Head(backlog)] # "afuera"
         /\ \A i, j \in DOMAIN backlog' : backlog'[i] = backlog'[j] => i = j
         /\ \A i \in DOMAIN backlog' :
              /\ backlog'[i] \in Clientes /\ backlog'[i] # Head(backlog)
              /\ estado[backlog'[i]] = "no" /\ cliente[backlog'[i]] # "afuera"
<1>1. backlog \in Seq(Clientes)
  BY DEF IInv, TypeOK
<1>2. /\ Head(backlog) \in Clientes /\ 1 \in DOMAIN backlog
      /\ Head(backlog) = backlog[1]
      /\ \A i \in DOMAIN backlog' :
           /\ i \in Nat /\ i + 1 \in DOMAIN backlog /\ i + 1 > 1
           /\ backlog'[i] = backlog[i + 1]
  BY <1>1, Quitada
<1>3. \A i \in DOMAIN backlog : backlog[i] \in Clientes
  BY <1>1
<1>4. Afuera
  BY DEF IInv
<1>5. \A i, j \in DOMAIN backlog' : backlog'[i] = backlog'[j] => i = j
  <2> SUFFICES ASSUME NEW i \in DOMAIN backlog', NEW j \in DOMAIN backlog',
                      backlog'[i] = backlog'[j]
               PROVE  i = j
    OBVIOUS
  <2>1. i + 1 = j + 1
    BY <1>2, <1>4 DEF Afuera
  <2>2. i \in Nat /\ j \in Nat
    BY <1>2
  <2> QED BY <2>1, <2>2
<1>6. \A i \in DOMAIN backlog' : backlog'[i] # Head(backlog)
  <2> SUFFICES ASSUME NEW i \in DOMAIN backlog', backlog[i + 1] = backlog[1]
               PROVE  FALSE
    BY <1>2
  <2>1. i + 1 = 1
    BY <1>2, <1>4 DEF Afuera
  <2> QED BY <1>2, <2>1
<1> QED BY <1>2, <1>3, <1>4, <1>5, <1>6 DEF Afuera

LEMMA PasoRechaza == ASSUME IInv, TypeOK', Rechaza PROVE IInv'
<1>1. backlog # <<>> /\ backlog' = Tail(backlog)
  BY DEF Rechaza
<1>2. UNCHANGED <<cliente, tablas, pcbs>>
  BY DEF Rechaza
<1>3. Afuera'
  BY <1>1, <1>2, SinCabeza DEF pcbs, IInv, Afuera
<1>4. Descriptores' /\ Suspendidos' /\ CupoDeServidor'
  BY <1>2 DEF tablas, pcbs, IInv, Descriptores, Suspendidos, CupoDeServidor
<1>5. Listados'
  BY <1>2 DEF tablas, pcbs, IInv, Listados
<1> QED BY <1>3, <1>4, <1>5 DEF IInv

LEMMA PasoAcepta == ASSUME IInv, TypeOK', Acepta PROVE IInv'
<1>1. PICK c : c = Head(backlog)
  OBVIOUS
<1>2. PICK f : f = MinFd(Libres)
  OBVIOUS
<1>3. /\ backlog # <<>> /\ backlog' = Tail(backlog)
      /\ fd' = [fd EXCEPT ![f] = c]
      /\ mps' = mps - 1
      /\ pid' = [pid EXCEPT ![c] = f]
      /\ estado' = [estado EXCEPT ![c] = "admitido"]
      /\ tabla_procesos' = [tabla_procesos EXCEPT ![f] = Append(@, c)]
      /\ UNCHANGED <<cliente, tabla_suspendidos, codigo>>
  BY <1>1, <1>2 DEF Acepta
<1>4. c \in Clientes /\ estado[c] = "no" /\ cliente[c] # "afuera"
  BY <1>1, <1>3, SinCabeza
<1>5. f \in Fds /\ fd[f] = Nadie
  BY <1>2, <1>4, HayDescriptor DEF Libres
<1>6. /\ \A q \in Clientes : estado'[q] = IF q = c THEN "admitido" ELSE estado[q]
      /\ \A q \in Clientes : pid'[q] = IF q = c THEN f ELSE pid[q]
      /\ \A g \in Fds : fd'[g] = IF g = f THEN c ELSE fd[g]
      /\ \A g \in Fds : tabla_procesos'[g] = IF g = f
                          THEN Append(tabla_procesos[f], c) ELSE tabla_procesos[g]
  BY <1>3, <1>4, <1>5 DEF IInv, TypeOK
<1>7. Afuera'
  BY <1>1, <1>3, <1>4, <1>6, SinCabeza DEF IInv, Afuera
<1>8. Descriptores'
  <2>1. \A g \in Fds : fd[g] # Nadie => fd[g] \in Clientes /\ fd[g] # c
    BY <1>4 DEF IInv, TypeOK, Descriptores
  <2> QED BY <1>4, <1>5, <1>6, <2>1, ServidorAssumption DEF IInv, Descriptores
<1>9. Suspendidos'
  <2>1. \A g \in Fds : \A i \in DOMAIN tabla_suspendidos[g] :
          tabla_suspendidos[g][i] \in Clientes /\ tabla_suspendidos[g][i] # c
    BY <1>4, Elementos DEF IInv, Suspendidos
  <2> QED BY <1>3, <1>6, <2>1 DEF IInv, Suspendidos
<1>10. CupoDeServidor'
  BY <1>3, <1>4, CupoMas DEF ConCupo, EnSistema
<1>11. Listados'
  <2>1. \A g \in Fds : \A i \in DOMAIN tabla_procesos[g] :
          tabla_procesos[g][i] \in Clientes /\ tabla_procesos[g][i] # c
    BY <1>4, Conjuntos DEF IInv, TypeOK, Listados
  <2>2. PICK s \in Seq(Clientes) : s = tabla_procesos[f]
    BY <1>5 DEF IInv, TypeOK
  <2>3. PICK t : t = Append(s, c)
    OBVIOUS
  <2>4. /\ t # <<>> /\ Len(t) = Len(s) + 1
        /\ \A i \in DOMAIN s : i \in DOMAIN t /\ t[i] = s[i]
        /\ Len(s) + 1 \in DOMAIN t /\ t[Len(s) + 1] = c
        /\ Len(s) + 1 \notin DOMAIN s
        /\ \A i \in DOMAIN t : i \in DOMAIN s \/ i = Len(s) + 1
    BY <1>4, <2>3, Agregada
  <2>5. tabla_procesos'[f] = t
    BY <1>5, <1>6, <2>2, <2>3
  <2>6. \A i \in DOMAIN s :
          /\ s[i] \in Clientes /\ s[i] # c
          /\ pid[s[i]] = f /\ estado[s[i]] \in EnTabla
          /\ i > 1 => estado[s[i]] = "admitido"
          /\ \A j \in DOMAIN s : s[i] = s[j] => i = j
    BY <1>5, <2>1, <2>2 DEF IInv, Listados
  <2>7. ASSUME NEW g \in Fds
        PROVE  \A i \in DOMAIN tabla_procesos'[g] :
                 /\ pid'[tabla_procesos'[g][i]] = g
                 /\ estado'[tabla_procesos'[g][i]] \in EnTabla
                 /\ i > 1 => estado'[tabla_procesos'[g][i]] = "admitido"
                 /\ \A j \in DOMAIN tabla_procesos'[g] :
                      tabla_procesos'[g][i] = tabla_procesos'[g][j] => i = j
    <3>1. CASE g # f
      BY <1>6, <2>1, <3>1 DEF IInv, Listados
    <3>2. CASE g = f
      <4>1. \A i \in DOMAIN t :
              /\ pid'[t[i]] = f
              /\ estado'[t[i]] \in EnTabla
              /\ i > 1 => estado'[t[i]] = "admitido"
              /\ \A j \in DOMAIN t : t[i] = t[j] => i = j
        BY <1>4, <1>6, <2>4, <2>6 DEF EnTabla
      <4> QED BY <2>5, <3>2, <4>1
    <3> QED BY <3>1, <3>2
  <2>8. ASSUME NEW p \in Clientes, estado'[p] \in EnSistema
        PROVE  /\ codigo'[p]
               /\ tabla_procesos'[pid'[p]] # <<>>
               /\ Head(tabla_procesos'[pid'[p]]) = p
    <3>1. p # c /\ estado[p] \in EnSistema /\ pid'[p] = pid[p]
      BY <1>4, <1>6, <2>8, Conjuntos
    <3>2. /\ codigo[p] /\ tabla_procesos[pid[p]] # <<>>
          /\ Head(tabla_procesos[pid[p]]) = p /\ pid[p] \in Fds
      BY <3>1, Conjuntos DEF IInv, Listados, Descriptores
    <3>3. CASE pid[p] # f
      BY <1>3, <1>6, <3>1, <3>2, <3>3
    <3>4. CASE pid[p] = f
      <4>1. s # <<>> /\ Head(s) = p /\ 1 \in DOMAIN s /\ s[1] = p
        BY <2>2, <3>2, <3>4, Quitada
      <4>2. t[1] = p /\ t \in Seq(Clientes)
        BY <1>4, <2>3, <2>4, <4>1, Agregada
      <4>3. Head(t) = p
        BY <2>4, <4>2
      <4> QED BY <1>3, <2>4, <2>5, <3>1, <3>2, <3>4, <4>3
    <3> QED BY <3>3, <3>4
  <2> QED BY <2>7, <2>8 DEF Listados
<1> QED BY <1>7, <1>8, <1>9, <1>10, <1>11 DEF IInv

\* A process of the system is the first of its PID, and alone in the table of
\* the suspended.
LEMMA Primero ==
  ASSUME IInv, NEW p \in Clientes, estado[p] \in EnSistema
  PROVE  /\ pid[p] \in Fds /\ codigo[p] /\ estado[p] \in EnTabla
         /\ tabla_procesos[pid[p]] # <<>> /\ Head(tabla_procesos[pid[p]]) = p
         /\ \A q \in Clientes :
              estado[q] \in EnSistema /\ pid[q] = pid[p] => q = p
BY Conjuntos DEF IInv, Listados, Descriptores

LEMMA PasoLeeCodigo ==
  ASSUME IInv, TypeOK', NEW f \in Fds, LeeCodigo(f) PROVE IInv'
<1>1. PICK p : p = Head(tabla_procesos[f])
  OBVIOUS
<1>2. /\ tabla_procesos[f] # <<>> /\ ~codigo[p]
      /\ codigo' = [codigo EXCEPT ![p] = TRUE]
      /\ estado' = [estado EXCEPT ![p] = "sistema"]
      /\ UNCHANGED <<backlog, cliente, fd, mps, tabla_procesos, tabla_suspendidos,
                     pid>>
  BY <1>1 DEF LeeCodigo, Mensajero
<1>3. /\ p \in Clientes /\ 1 \in DOMAIN tabla_procesos[f]
      /\ p = tabla_procesos[f][1]
  BY <1>1, <1>2, Quitada DEF IInv, TypeOK
<1>4. pid[p] = f /\ estado[p] \in EnTabla
  BY <1>3 DEF IInv, Listados
<1>5. estado[p] \notin EnSistema
  BY <1>2, <1>3 DEF IInv, Listados
<1>6. codigo'[p] /\ \A q \in Clientes : codigo[q] => codigo'[q]
  BY <1>2, <1>3 DEF IInv, TypeOK
<1>7. Afuera' /\ Descriptores' /\ Listados' /\ CupoDeServidor'
  BY <1>1, <1>2, <1>3, <1>4, <1>6, EnElSistema DEF EnSistema
<1>8. Suspendidos'
  <2>1. \A g \in Fds : \A i \in DOMAIN tabla_suspendidos[g] :
          tabla_suspendidos[g][i] \in Clientes /\ tabla_suspendidos[g][i] # p
    BY <1>5 DEF IInv, TypeOK, Suspendidos, EnSistema
  <2> QED BY <1>2, <2>1 DEF IInv, TypeOK, Suspendidos
<1> QED BY <1>7, <1>8 DEF IInv

LEMMA PasoLeeReanudar ==
  ASSUME IInv, TypeOK', NEW f \in Fds, LeeReanudar(f) PROVE IInv'
<1>1. UNCHANGED <<backlog, cliente, fd, mps, tabla_procesos, pid, codigo>>
  BY DEF LeeReanudar, Mensajero
<1>2. CASE UNCHANGED <<estado, tabla_suspendidos>>
  BY <1>1, <1>2, Quieto
<1>3. CASE tabla_suspendidos[f] # <<>>
           /\ estado' = [estado EXCEPT ![Head(tabla_suspendidos[f])] = "sistema"]
           /\ tabla_suspendidos' = [tabla_suspendidos EXCEPT ![f] = Tail(@)]
  <2>1. PICK p : p = Head(tabla_suspendidos[f])
    OBVIOUS
  <2>2. tabla_suspendidos[f] \in Seq(Clientes)
    BY DEF IInv, TypeOK
  <2>3. /\ p \in Clientes /\ 1 \in DOMAIN tabla_suspendidos[f]
        /\ p = tabla_suspendidos[f][1]
        /\ Len(Tail(tabla_suspendidos[f])) = Len(tabla_suspendidos[f]) - 1
        /\ Len(tabla_suspendidos[f]) \in Nat
        /\ Tail(tabla_suspendidos[f]) \in Seq(Clientes)
    BY <1>3, <2>1, <2>2, Quitada
  <2>4. pid[p] = f /\ estado[p] \in EnSistema
    BY <2>3 DEF IInv, Suspendidos, EnSistema
  <2>5. Afuera' /\ Descriptores' /\ Listados' /\ CupoDeServidor'
    BY <1>1, <1>3, <2>1, <2>3, <2>4, Primero, EnElSistema DEF EnSistema
  <2>6. tabla_suspendidos'[f] = Tail(tabla_suspendidos[f])
        /\ \A g \in Fds \ {f} : tabla_suspendidos'[g] = tabla_suspendidos[g]
    BY <1>3 DEF IInv, TypeOK
  <2>7. Len(tabla_suspendidos'[f]) <= 1 /\ DOMAIN tabla_suspendidos'[f] = {}
    <3>1. Len(tabla_suspendidos[f]) <= 1
      BY DEF IInv, Suspendidos
    <3>2. Len(tabla_suspendidos'[f]) <= 0 /\ Len(tabla_suspendidos'[f]) \in Int
      BY <2>3, <2>6, <3>1
    <3>3. DOMAIN tabla_suspendidos'[f] = 1..Len(tabla_suspendidos'[f])
      BY <2>3, <2>6, LenProperties
    <3> QED BY <3>2, <3>3
  <2>8. ASSUME NEW g \in Fds, g # f
        PROVE  /\ Len(tabla_suspendidos'[g]) <= 1
               /\ \A i \in DOMAIN tabla_suspendidos'[g] :
                    /\ pid'[tabla_suspendidos'[g][i]] = g
                    /\ estado'[tabla_suspendidos'[g][i]]
                         \in {"susp_envia", "suspendido"}
    <3>1. \A i \in DOMAIN tabla_suspendidos[g] :
            tabla_suspendidos[g][i] \in Clientes /\ tabla_suspendidos[g][i] # p
      BY <2>4, <2>8 DEF IInv, TypeOK, Suspendidos
    <3> QED BY <1>1, <1>3, <2>1, <2>6, <2>8, <3>1 DEF IInv, TypeOK, Suspendidos
  <2>9. Suspendidos'
    BY <2>7, <2>8 DEF Suspendidos
  <2> QED BY <2>5, <2>9 DEF IInv
<1> QED BY <1>2, <1>3 DEF LeeReanudar

LEMMA PasoCierra ==
  ASSUME IInv, TypeOK', NEW f \in Fds, Cierra(f) PROVE IInv'
<1>1. /\ fd' = [fd EXCEPT ![f] = Nadie]
      /\ UNCHANGED <<cliente, backlog, mps, tabla_procesos, tabla_suspendidos, pid,
                     estado, codigo>>
  BY DEF Cierra, conexiones, pcbs
<1>2. Descriptores'
  BY <1>1 DEF IInv, TypeOK, Descriptores
<1>3. Afuera' /\ Suspendidos' /\ CupoDeServidor'
  BY <1>1 DEF IInv, Afuera, Suspendidos, CupoDeServidor
<1>4. Listados'
  BY <1>1 DEF IInv, Listados
<1> QED BY <1>2, <1>3, <1>4 DEF IInv

LEMMA PasoSuspende ==
  ASSUME IInv, TypeOK', NEW p \in Clientes, Suspende(p) PROVE IInv'
<1>1. /\ estado[p] = "sistema" /\ estado' = [estado EXCEPT ![p] = "susp_envia"]
      /\ tabla_suspendidos' = [tabla_suspendidos EXCEPT ![pid[p]] = Append(@, p)]
      /\ UNCHANGED <<backlog, cliente, fd, mps, tabla_procesos, pid, codigo>>
  BY DEF Suspende, Cambia, conexiones
<1>2. Afuera' /\ Descriptores' /\ Listados' /\ CupoDeServidor'
  BY <1>1, Primero, EnElSistema DEF EnSistema
<1>3. pid[p] \in Fds
  BY <1>1, Primero DEF EnSistema
<1>4. \A f \in Fds : \A i \in DOMAIN tabla_suspendidos[f] :
        /\ tabla_suspendidos[f][i] \in Clientes /\ tabla_suspendidos[f][i] # p
        /\ estado[tabla_suspendidos[f][i]] \in EnSistema
  BY <1>1 DEF IInv, TypeOK, Suspendidos, EnSistema
<1>5. PICK s \in Seq(Clientes) : s = tabla_suspendidos[pid[p]]
  BY <1>3 DEF IInv, TypeOK
<1>6. DOMAIN s = {}
  <2> SUFFICES ASSUME NEW i \in DOMAIN s PROVE FALSE
    OBVIOUS
  <2>1. pid[s[i]] = pid[p]
    BY <1>3, <1>5 DEF IInv, Suspendidos
  <2> QED BY <1>1, <1>3, <1>4, <1>5, <2>1, Primero DEF EnSistema
<1>7. Len(s) = 0
  <2>1. DOMAIN s = 1..Len(s) /\ Len(s) \in Nat
    BY LenProperties
  <2> QED BY <1>6, <2>1
<1>8. PICK t : t = Append(s, p)
  OBVIOUS
<1>9. /\ Len(t) = Len(s) + 1
      /\ \A i \in DOMAIN t : i \in DOMAIN s \/ i = Len(s) + 1
      /\ t[Len(s) + 1] = p
  BY <1>8, Agregada
<1>10. \A f \in Fds : tabla_suspendidos'[f] =
         IF f = pid[p] THEN t ELSE tabla_suspendidos[f]
  BY <1>1, <1>3, <1>5, <1>8 DEF IInv, TypeOK
<1>11. \A q \in Clientes : estado'[q] = IF q = p THEN "susp_envia" ELSE estado[q]
  BY <1>1 DEF IInv, TypeOK
<1>12. ASSUME NEW f \in Fds
       PROVE  /\ Len(tabla_suspendidos'[f]) <= 1
              /\ \A i \in DOMAIN tabla_suspendidos'[f] :
                   /\ pid'[tabla_suspendidos'[f][i]] = f
                   /\ estado'[tabla_suspendidos'[f][i]]
                        \in {"susp_envia", "suspendido"}
  <2>1. CASE f = pid[p]
    <3>1. /\ Len(t) <= 1
          /\ \A i \in DOMAIN t :
               t[i] = p
      BY <1>6, <1>7, <1>9
    <3>2. tabla_suspendidos'[f] = t
      BY <1>10, <2>1
    <3> QED BY <1>1, <1>11, <2>1, <3>1, <3>2
  <2>2. CASE f # pid[p]
    BY <1>1, <1>4, <1>10, <1>11, <2>2 DEF IInv, Suspendidos
  <2> QED BY <2>1, <2>2
<1>13. Suspendidos'
  BY <1>12 DEF Suspendidos
<1> QED BY <1>2, <1>13 DEF IInv

LEMMA PasoSuspendeEnvia ==
  ASSUME IInv, TypeOK', NEW p \in Clientes, SuspendeEnvia(p) PROVE IInv'
<1>1. /\ estado[p] = "susp_envia" /\ estado' = [estado EXCEPT ![p] = "suspendido"]
      /\ UNCHANGED <<backlog, cliente, fd, mps, tabla_procesos, tabla_suspendidos,
                     pid, codigo>>
  BY DEF SuspendeEnvia, Cambia, tablas
<1>2. Afuera' /\ Descriptores' /\ Listados' /\ CupoDeServidor'
  BY <1>1, Primero, EnElSistema DEF EnSistema
<1>3. \A q \in Clientes : estado'[q] = IF q = p THEN "suspendido" ELSE estado[q]
  BY <1>1 DEF IInv, TypeOK
<1>4. \A f \in Fds : \A i \in DOMAIN tabla_suspendidos[f] :
        tabla_suspendidos[f][i] \in Clientes
  BY DEF IInv, TypeOK
<1>5. Suspendidos'
  BY <1>1, <1>3, <1>4 DEF IInv, Suspendidos
<1> QED BY <1>2, <1>5 DEF IInv

LEMMA PasoTermina ==
  ASSUME IInv, TypeOK', NEW p \in Clientes, Termina(p) PROVE IInv'
<1>1. /\ estado[p] = "sistema" /\ estado' = [estado EXCEPT ![p] = "en_fin"]
      /\ UNCHANGED <<backlog, cliente, fd, mps, tabla_procesos, tabla_suspendidos,
                     pid, codigo>>
  BY DEF Termina, Cambia, tablas, conexiones
<1>2. Afuera' /\ Descriptores' /\ Listados' /\ CupoDeServidor'
  BY <1>1, Primero, EnElSistema DEF EnSistema
<1>3. \A q \in Clientes : estado'[q] = IF q = p THEN "en_fin" ELSE estado[q]
  BY <1>1 DEF IInv, TypeOK
<1>4. \A f \in Fds : \A i \in DOMAIN tabla_suspendidos[f] :
        tabla_suspendidos[f][i] \in Clientes /\ tabla_suspendidos[f][i] # p
  BY <1>1, Elementos DEF IInv, Suspendidos
<1>5. Suspendidos'
  BY <1>1, <1>3, <1>4 DEF IInv, Suspendidos
<1> QED BY <1>2, <1>5 DEF IInv

LEMMA PasoFinTabla == ASSUME IInv, TypeOK', FinTabla PROVE IInv'
<1>1. PICK p \in Clientes :
        /\ estado[p] = "en_fin" /\ estado' = [estado EXCEPT ![p] = "fin_tabla"]
        /\ tabla_procesos' = [tabla_procesos EXCEPT ![pid[p]] =
                                IF @ = <<>> THEN @ ELSE Tail(@)]
        /\ UNCHANGED <<backlog, cliente, fd, mps, tabla_suspendidos, pid, codigo>>
  BY DEF FinTabla, Cambia, conexiones
<1>2. /\ pid[p] \in Fds /\ tabla_procesos[pid[p]] # <<>>
      /\ Head(tabla_procesos[pid[p]]) = p
      /\ \A q \in Clientes :
           estado[q] \in EnSistema /\ pid[q] = pid[p] => q = p
  BY <1>1, Primero DEF EnSistema
<1>3. \A q \in Clientes : estado'[q] = IF q = p THEN "fin_tabla" ELSE estado[q]
  BY <1>1 DEF IInv, TypeOK
<1>4. \A f \in Fds : \A i \in DOMAIN tabla_suspendidos[f] :
        tabla_suspendidos[f][i] \in Clientes /\ tabla_suspendidos[f][i] # p
  BY <1>1, Elementos DEF IInv, Suspendidos
<1>5. Suspendidos'
  BY <1>1, <1>3, <1>4 DEF IInv, Suspendidos
<1>6. Afuera'
  <2>1. \A i \in DOMAIN backlog : backlog[i] \in Clientes
    BY DEF IInv, TypeOK
  <2> QED BY <1>1, <1>3, <2>1 DEF IInv, Afuera
<1>7. Descriptores'
  <2>1. \A f \in Fds : fd[f] # Nadie => fd[f] \in Clientes
    BY DEF IInv, TypeOK
  <2> QED BY <1>1, <1>3, <2>1 DEF IInv, Descriptores
<1>8. CupoDeServidor'
  <2>1. \A q \in Clientes : estado'[q] \in ConCupo <=> estado[q] \in ConCupo
    BY <1>1, <1>3 DEF ConCupo, EnSistema
  <2> QED BY <1>1, <2>1, CupoIgual DEF IInv
<1>9. Listados'
  <2>1. PICK s \in Seq(Clientes) : s = tabla_procesos[pid[p]]
    BY <1>2 DEF IInv, TypeOK
  <2>2. PICK t : t = Tail(s)
    OBVIOUS
  <2>3. /\ 1 \in DOMAIN s /\ s[1] = p
        /\ \A i \in DOMAIN t :
             i \in Nat /\ i + 1 \in DOMAIN s /\ i + 1 > 1 /\ t[i] = s[i + 1]
    BY <1>2, <2>1, <2>2, Quitada
  <2>4. \A f \in Fds : tabla_procesos'[f] =
          IF f = pid[p] THEN t ELSE tabla_procesos[f]
    BY <1>1, <1>2, <2>1, <2>2 DEF IInv, TypeOK
  <2>5. \A i \in DOMAIN s :
          /\ s[i] \in Clientes /\ pid[s[i]] = pid[p]
          /\ i > 1 => estado[s[i]] = "admitido"
          /\ \A j \in DOMAIN s : s[i] = s[j] => i = j
    BY <1>2, <2>1 DEF IInv, Listados
  <2>6. ASSUME NEW i \in DOMAIN t
        PROVE  /\ pid[t[i]] = pid[p] /\ estado'[t[i]] = "admitido"
               /\ \A j \in DOMAIN t : t[i] = t[j] => i = j
    <3>1. t[i] \in Clientes /\ pid[t[i]] = pid[p] /\ estado[t[i]] = "admitido"
      BY <2>3, <2>5
    <3>2. estado'[t[i]] = "admitido"
      BY <1>1, <1>3, <3>1
    <3>3. ASSUME NEW j \in DOMAIN t, t[i] = t[j] PROVE i = j
      <4>1. i + 1 = j + 1
        BY <2>3, <2>5, <3>3
      <4> QED BY <2>3, <4>1
    <3> QED BY <3>1, <3>2, <3>3
  <2>7. ASSUME NEW f \in Fds
        PROVE  \A i \in DOMAIN tabla_procesos'[f] :
                 /\ pid'[tabla_procesos'[f][i]] = f
                 /\ estado'[tabla_procesos'[f][i]] \in EnTabla
                 /\ i > 1 => estado'[tabla_procesos'[f][i]] = "admitido"
                 /\ \A j \in DOMAIN tabla_procesos'[f] :
                      tabla_procesos'[f][i] = tabla_procesos'[f][j] => i = j
    <3>1. CASE f = pid[p]
      <4>1. tabla_procesos'[f] = t
        BY <2>4, <3>1
      <4> QED BY <1>1, <2>6, <3>1, <4>1 DEF EnTabla
    <3>2. CASE f # pid[p]
      <4>1. \A i \in DOMAIN tabla_procesos[f] :
              /\ tabla_procesos[f][i] \in Clientes /\ tabla_procesos[f][i] # p
        BY <3>2, Elementos DEF IInv, Listados
      <4>2. tabla_procesos'[f] = tabla_procesos[f]
        BY <2>4, <3>2
      <4>3. \A i \in DOMAIN tabla_procesos[f] :
              estado'[tabla_procesos[f][i]] = estado[tabla_procesos[f][i]]
        BY <1>3, <4>1
      <4>4. \A i \in DOMAIN tabla_procesos[f] :
              /\ pid[tabla_procesos[f][i]] = f
              /\ estado[tabla_procesos[f][i]] \in EnTabla
              /\ i > 1 => estado[tabla_procesos[f][i]] = "admitido"
              /\ \A j \in DOMAIN tabla_procesos[f] :
                   tabla_procesos[f][i] = tabla_procesos[f][j] => i = j
        BY DEF IInv, Listados
      <4>5. pid' = pid
        BY <1>1
      <4> QED BY <4>2, <4>3, <4>4, <4>5, Zenon
    <3> QED BY <3>1, <3>2
  <2>8. ASSUME NEW q \in Clientes, estado'[q] \in EnSistema
        PROVE  /\ codigo'[q] /\ tabla_procesos'[pid'[q]] # <<>>
               /\ Head(tabla_procesos'[pid'[q]]) = q
    <3>1. q # p /\ estado[q] \in EnSistema
      BY <1>3, <2>8 DEF EnSistema
    <3>2. pid[q] # pid[p]
      BY <1>2, <3>1
    <3> QED BY <1>1, <2>4, <3>1, <3>2, Primero
  <2> QED BY <2>7, <2>8 DEF Listados
<1> QED BY <1>5, <1>6, <1>7, <1>8, <1>9 DEF IInv

LEMMA PasoFinMps == ASSUME IInv, TypeOK', FinMps PROVE IInv'
<1>1. PICK p \in Clientes :
        /\ estado[p] = "fin_tabla" /\ estado' = [estado EXCEPT ![p] = "fin_mps"]
        /\ mps' = mps + 1
        /\ UNCHANGED <<backlog, cliente, fd, tabla_procesos, tabla_suspendidos, pid,
                       codigo>>
  BY DEF FinMps, Cambia, conexiones
<1>2. CupoDeServidor'
  BY <1>1, CupoMenos DEF ConCupo, EnSistema
<1>3. Afuera' /\ Descriptores' /\ Listados' /\ Suspendidos'
  BY <1>1, EnFinalizadosYa DEF EnFinalizados
<1> QED BY <1>2, <1>3 DEF IInv

\* The messages and the shutdown.
LEMMA PasoFin ==
  ASSUME IInv, TypeOK', NEW p \in Clientes,
         estado[p] \in {"fin_mps", "fin_estado", "fin_aviso"},
         NEW e \in {"fin_estado", "fin_aviso", "liberado"},
         estado' = [estado EXCEPT ![p] = e],
         UNCHANGED <<backlog, cliente, tablas, pid, codigo>>
  PROVE  IInv'
<1>1. Afuera' /\ Descriptores' /\ Listados' /\ Suspendidos'
  BY EnFinalizadosYa DEF EnFinalizados, tablas
<1>2. \A q \in Clientes : estado'[q] \in ConCupo <=> estado[q] \in ConCupo
  BY DEF ConCupo, EnSistema, IInv, TypeOK
<1>3. CupoDeServidor'
  BY <1>2, CupoIgual DEF IInv, tablas
<1> QED BY <1>1, <1>3 DEF IInv

-----------------------------------------------------------------------------
LEMMA Inicial == Init => IInv
<1> SUFFICES ASSUME Init PROVE IInv
  OBVIOUS
<1>1. TypeOK
  BY TipoInicial
<1>2. Afuera /\ Descriptores /\ Listados /\ Suspendidos
  BY DEF Init, Afuera, Descriptores, Listados, Suspendidos, EnSistema
<1>3. CupoDeServidor
  <2>1. {p \in Clientes : estado[p] \in ConCupo} = {}
    BY DEF Init, ConCupo, EnSistema
  <2>2. Cardinality({p \in Clientes : estado[p] \in ConCupo}) = 0
    BY <2>1, FS_EmptySet, Zenon
  <2>3. mps = MPS /\ MPS \in Nat
    BY ServidorAssumption DEF Init
  <2> QED BY <2>2, <2>3 DEF CupoDeServidor
<1> QED BY <1>1, <1>2, <1>3 DEF IInv

LEMMA Paso == IInv /\ [Next]_vars => IInv'
<1> SUFFICES ASSUME IInv, [Next]_vars PROVE IInv'
  OBVIOUS
<1>0. TypeOK'
  BY TipoPaso
<1>t. TypeOK
  BY DEF IInv
<1>1. ASSUME NEW c \in Clientes, Conecta(c) PROVE IInv'
  BY <1>0, <1>1, PasoConecta
<1>2. ASSUME NEW c \in Clientes, Recibe(c) PROVE IInv'
  <2>1. haciaPI[c] \in Seq(Mensajes) /\ haciaPI[c] # <<>>
    BY <1>t, <1>2 DEF TypeOK, Recibe
  <2>2. Head(haciaPI[c]) \in Mensajes
    BY <2>1
  <2>3. Head(haciaPI[c]).tipo \in {"pid", "error", "0", "1", "2"}
    BY <2>2 DEF Mensajes
  <2>4. \A b \in Clientes : cliente'[b] = "afuera" => cliente[b] = "afuera"
    BY <1>t, <1>2, <2>3 DEF Recibe, TypeOK
  <2> QED BY <1>0, <1>2, <2>4, Quieto DEF Recibe, tablas, pcbs
<1>3. ASSUME NEW c \in Clientes, RecibeFin(c) PROVE IInv'
  <2>1. \A b \in Clientes : cliente'[b] = "afuera" => cliente[b] = "afuera"
    BY <1>t, <1>3 DEF RecibeFin, TypeOK
  <2> QED BY <1>0, <1>3, <2>1, Quieto DEF RecibeFin, conexiones, tablas, pcbs
<1>4. ASSUME NEW c \in Clientes, NEW a, NEW b \in Vivos, NEW m, Manda(c, a, b, m)
      PROVE  IInv'
  <2>1. \A d \in Clientes : cliente'[d] = "afuera" => cliente[d] = "afuera"
    BY <1>t, <1>4 DEF Manda, TypeOK, Vivos
  <2> QED BY <1>0, <1>4, <2>1, Quieto DEF Manda, tablas, pcbs
<1>5. ASSUME NEW c \in Clientes,
             MandaPrioridad(c) \/ MandaCodigo(c) \/ MandaReanudar(c)
      PROVE  IInv'
  BY <1>4, <1>5 DEF MandaPrioridad, MandaCodigo, MandaReanudar, Vivos
<1>7. ASSUME NEW c \in Clientes, Muere(c) PROVE IInv'
  <2>1. \A b \in Clientes : cliente'[b] = "afuera" => cliente[b] = "afuera"
    BY <1>t, <1>7 DEF Muere, TypeOK
  <2> QED BY <1>0, <1>7, <2>1, Quieto DEF Muere, tablas, pcbs
<1>8. CASE Acepta
  BY <1>0, <1>8, PasoAcepta
<1>9. CASE Rechaza
  BY <1>0, <1>9, PasoRechaza
<1>11. ASSUME NEW f \in Fds, LeePrioridad(f) PROVE IInv'
  BY <1>0, <1>11, Quieto DEF LeePrioridad, Mensajero
<1>12. ASSUME NEW f \in Fds, LeeCodigo(f) PROVE IInv'
  BY <1>0, <1>12, PasoLeeCodigo
<1>13. ASSUME NEW f \in Fds, LeeReanudar(f) PROVE IInv'
  BY <1>0, <1>13, PasoLeeReanudar
<1>14. ASSUME NEW f \in Fds, Cierra(f) PROVE IInv'
  BY <1>0, <1>14, PasoCierra
<1>15. ASSUME NEW p \in Clientes, Imprime(p) PROVE IInv'
  BY <1>0, <1>15, Quieto DEF Imprime, tablas, pcbs
<1>16. ASSUME NEW p \in Clientes, Suspende(p) PROVE IInv'
  BY <1>0, <1>16, PasoSuspende
<1>17. ASSUME NEW p \in Clientes, SuspendeEnvia(p) PROVE IInv'
  BY <1>0, <1>17, PasoSuspendeEnvia
<1>18. ASSUME NEW p \in Clientes, Termina(p) PROVE IInv'
  BY <1>0, <1>18, PasoTermina
<1>19. CASE FinTabla
  BY <1>0, <1>19, PasoFinTabla
<1>20. CASE FinMps
  BY <1>0, <1>20, PasoFinMps
<1>21. CASE FinEstado
  BY <1>0, <1>21, PasoFin DEF FinEstado, FinEnvia, Cambia
<1>22. CASE FinAviso
  BY <1>0, <1>22, PasoFin DEF FinAviso, FinEnvia, Cambia
<1>23. CASE FinShutdown
  BY <1>0, <1>23, PasoFin DEF FinShutdown, Cambia
<1>24. CASE UNCHANGED vars
  BY <1>0, <1>24, Quieto DEF vars, conexiones, tablas, pcbs
<1> QED BY <1>1, <1>2, <1>3, <1>5, <1>7, <1>8, <1>9, <1>11, <1>12, <1>13, <1>14,
           <1>15, <1>16, <1>17, <1>18, <1>19, <1>20, <1>21, <1>22, <1>23, <1>24
        DEF Next, Pi, Lts, Finalizados

\* The inductive invariant holds in every state of Servidor: descriptors, PIDs
\* and the two tables agree, whoever is killed and whenever.
THEOREM InvarianteServidor == Spec => []IInv
BY Inicial, Paso, PTL DEF Spec

\* Every variable of the LTS and its clients keeps its type; mps never goes
\* below 0.
THEOREM TipoServidor == Spec => []TypeOK
<1>1. IInv => TypeOK
  BY DEF IInv
<1> QED BY <1>1, InvarianteServidor, PTL

\* No slot of the system is lost by PP's threads nor returned twice.
THEOREM CupoServidor == Spec => []CupoDeServidor
<1>1. IInv => CupoDeServidor
  BY DEF IInv
<1> QED BY <1>1, InvarianteServidor, PTL

\* Two processes of the system never have the same PID, however descriptors
\* are reused, and messages for the PID find the one that runs.
THEOREM PidUnico == Spec => []UnActivoPorPid
<1>1. IInv => UnActivoPorPid
  BY Primero DEF UnActivoPorPid
<1> QED BY <1>1, InvarianteServidor, PTL

-----------------------------------------------------------------------------
(***************************************************************************)
(* What is on its way between the LTS and its clients, for any number of   *)
(* them.  A message never finds a connection without a PCB, whoever is     *)
(* killed; and as long as nobody is, what a client reads is about its own  *)
(* process, and PP does not die.                                           *)
(*                                                                         *)
(* The argument: a client sends its priority, its program and then one     *)
(* answer for each request to resume.  Until its program was read its PCB  *)
(* is "admitido" and therefore listed; a request stands for the first PCB  *)
(* of the PID, which is suspended until the answer is read.                *)
(***************************************************************************)


Palabras == {"prioridad", "codigo", "reanudar"}

\* The PID is the first message, and nobody has read it.
PidPrimero(c) ==
  \A i \in DOMAIN haciaPI[c] :
    haciaPI[c][i].tipo = "pid" => i = 1 /\ cliente[c] = "conectado"

\* Before accept() nothing was sent.
Saludo ==
  /\ \A c \in Clientes : cliente[c] = "afuera" => haciaPI[c] = <<>>
  /\ \A i \in DOMAIN backlog :
       /\ haciaPI[backlog[i]] = <<>>
       /\ cliente[backlog[i]] \in {"conectado"} \cup Idos
  /\ \A c \in Clientes : PidPrimero(c)

\* pi sends its priority, its program and then what it was asked for, in this
\* order, on a connection that nobody else writes to.
EnOrden(c) ==
  /\ cliente[c] \in {"afuera", "conectado", "con_pid"} => haciaPP[c] = <<>>
  /\ \A i \in DOMAIN haciaPP[c] :
       /\ cliente[c] = "mando_prioridad" => haciaPP[c][i] = "prioridad"
       /\ i > 1 => haciaPP[c][i] # "prioridad"
       /\ i > 1 /\ haciaPP[c][i] = "codigo" =>
            i = 2 /\ haciaPP[c][1] = "prioridad"

\* What a PCB has of its program.
Cargado(c) ==
  /\ estado[c] \notin {"no", "admitido"} => codigo[c]
  /\ estado[c] = "no" => ~prioridad[c] /\ ~codigo[c]
  /\ codigo[c] => prioridad[c]
  /\ estado[c] = "admitido" =>
       \E i \in DOMAIN tabla_procesos[pid[c]] : tabla_procesos[pid[c]][i] = c

\* A client has its descriptor.
Conectado(c) == estado[c] # "no" /\ fd[pid[c]] = c

\* A PCB whose client has its descriptor got what it has from it.
Propio(c) ==
  Conectado(c) =>
    /\ prioridad[c] =>
         /\ cliente[c] \notin {"conectado", "con_pid"}
         /\ \A i \in DOMAIN haciaPP[c] : haciaPP[c][i] # "prioridad"
    /\ codigo[c] =>
         /\ cliente[c] # "mando_prioridad"
         /\ \A i \in DOMAIN haciaPP[c] : haciaPP[c][i] = "reanudar"

\* The request to resume and its answer, wherever they are.
Unos(s) == {i \in DOMAIN s : s[i].tipo = "1"}
Vueltas(s) == {i \in DOMAIN s : s[i] = "reanudar"}
Pide(c) ==
  cliente[c] = "pausado" \/ Unos(haciaPI[c]) # {} \/ Vueltas(haciaPP[c]) # {}

\* There is one request at a time on a connection.
UnPedido(c) ==
  /\ \A i, j \in Unos(haciaPI[c]) : i = j
  /\ \A i, j \in Vueltas(haciaPP[c]) : i = j
  /\ Unos(haciaPI[c]) # {} => cliente[c] # "pausado" /\ Vueltas(haciaPP[c]) = {}
  /\ cliente[c] = "pausado" => Vueltas(haciaPP[c]) = {}
  /\ Pide(c) => estado[c] # "no"

\* While there is one, the first process of the PID is suspended.
Vigente(c) ==
  Pide(c) /\ Conectado(c) =>
    /\ tabla_procesos[pid[c]] # <<>>
    /\ estado[Head(tabla_procesos[pid[c]])] = "suspendido"

EnOrdenTodos == \A c \in Clientes : EnOrden(c)
Cargados == \A c \in Clientes : Cargado(c)
Propios == \A c \in Clientes : Propio(c)
UnPedidoCadaUno == \A c \in Clientes : UnPedido(c)
Vigentes == \A c \in Clientes : Vigente(c)

\* What the LTS and its clients can count on, whoever is killed.
JInv == /\ IInv /\ Saludo /\ EnOrdenTodos /\ Cargados /\ Propios
        /\ UnPedidoCadaUno /\ Vigentes
        /\ caido # "nulo"

-----------------------------------------------------------------------------
(* Sequences of messages.                                                    *)

LEMMA Hilos ==
  ASSUME TypeOK, NEW c \in Clientes
  PROVE  haciaPI[c] \in Seq(Mensajes) /\ haciaPP[c] \in Seq(Palabras)
BY DEF TypeOK, Palabras

LEMMA UnosAgregado ==
  ASSUME NEW s \in Seq(Mensajes), NEW m \in Mensajes, NEW t, t = Append(s, m)
  PROVE  Unos(t) = IF m.tipo = "1" THEN Unos(s) \cup {Len(s) + 1} ELSE Unos(s)
<1>1. /\ \A i \in DOMAIN s : i \in DOMAIN t /\ t[i] = s[i]
      /\ Len(s) + 1 \in DOMAIN t /\ t[Len(s) + 1] = m
      /\ Len(s) + 1 \notin DOMAIN s
      /\ \A i \in DOMAIN t : i \in DOMAIN s \/ i = Len(s) + 1
  BY Agregada
<1> QED BY ONLY <1>1 DEF Unos

LEMMA VueltasAgregado ==
  ASSUME NEW s \in Seq(Palabras), NEW m \in Palabras, NEW t, t = Append(s, m)
  PROVE  Vueltas(t) = IF m = "reanudar" THEN Vueltas(s) \cup {Len(s) + 1}
                                        ELSE Vueltas(s)
<1>1. /\ \A i \in DOMAIN s : i \in DOMAIN t /\ t[i] = s[i]
      /\ Len(s) + 1 \in DOMAIN t /\ t[Len(s) + 1] = m
      /\ Len(s) + 1 \notin DOMAIN s
      /\ \A i \in DOMAIN t : i \in DOMAIN s \/ i = Len(s) + 1
  BY Agregada
<1> QED BY ONLY <1>1 DEF Vueltas

LEMMA UnosQuitado ==
  ASSUME NEW s \in Seq(Mensajes), s # <<>>, NEW t, t = Tail(s),
         \A i, j \in Unos(s) : i = j
  PROVE  /\ \A i, j \in Unos(t) : i = j
         /\ Unos(t) # {} => Unos(s) # {}
         /\ Head(s).tipo = "1" => Unos(s) # {} /\ Unos(t) = {}
<1>1. /\ 1 \in DOMAIN s /\ Head(s) = s[1]
      /\ \A i \in DOMAIN t :
           i \in Nat /\ i + 1 \in DOMAIN s /\ i + 1 > 1 /\ t[i] = s[i + 1]
  BY Quitada
<1>2. \A i \in Unos(t) : i \in Nat /\ i + 1 \in Unos(s)
  BY ONLY <1>1 DEF Unos
<1>3. \A i, j \in Unos(t) : i = j
  <2> SUFFICES ASSUME NEW i \in Unos(t), NEW j \in Unos(t) PROVE i = j
    OBVIOUS
  <2>1. i + 1 = j + 1 /\ i \in Nat /\ j \in Nat
    BY <1>2
  <2> QED BY ONLY <2>1
<1>4. ASSUME Head(s).tipo = "1" PROVE Unos(s) # {} /\ Unos(t) = {}
  <2>1. 1 \in Unos(s)
    BY <1>1, <1>4 DEF Unos
  <2>2. ASSUME NEW i \in Unos(t) PROVE FALSE
    <3>1. i + 1 = 1 /\ i \in Nat /\ i + 1 > 1
      BY <1>1, <1>2, <2>1 DEF Unos
    <3> QED BY ONLY <3>1
  <2> QED BY <2>1, <2>2
<1> QED BY <1>2, <1>3, <1>4

LEMMA VueltasQuitado ==
  ASSUME NEW s \in Seq(Palabras), s # <<>>, NEW t, t = Tail(s),
         \A i, j \in Vueltas(s) : i = j
  PROVE  /\ \A i, j \in Vueltas(t) : i = j
         /\ Vueltas(t) # {} => Vueltas(s) # {}
         /\ Head(s) = "reanudar" => Vueltas(s) # {} /\ Vueltas(t) = {}
<1>1. /\ 1 \in DOMAIN s /\ Head(s) = s[1]
      /\ \A i \in DOMAIN t :
           i \in Nat /\ i + 1 \in DOMAIN s /\ i + 1 > 1 /\ t[i] = s[i + 1]
  BY Quitada
<1>2. \A i \in Vueltas(t) : i \in Nat /\ i + 1 \in Vueltas(s)
  BY ONLY <1>1 DEF Vueltas
<1>3. \A i, j \in Vueltas(t) : i = j
  <2> SUFFICES ASSUME NEW i \in Vueltas(t), NEW j \in Vueltas(t) PROVE i = j
    OBVIOUS
  <2>1. i + 1 = j + 1 /\ i \in Nat /\ j \in Nat
    BY <1>2
  <2> QED BY ONLY <2>1
<1>4. ASSUME Head(s) = "reanudar" PROVE Vueltas(s) # {} /\ Vueltas(t) = {}
  <2>1. 1 \in Vueltas(s)
    BY <1>1, <1>4 DEF Vueltas
  <2>2. ASSUME NEW i \in Vueltas(t) PROVE FALSE
    <3>1. i + 1 = 1 /\ i \in Nat /\ i + 1 > 1
      BY <1>1, <1>2, <2>1 DEF Vueltas
    <3> QED BY ONLY <3>1
  <2> QED BY <2>1, <2>2
<1> QED BY <1>2, <1>3, <1>4

-----------------------------------------------------------------------------
(* What steps do to a connection.                                            *)

\* It loses requests and gains none.
MenosPI(c) ==
  \/ haciaPI'[c] = haciaPI[c]
  \/ haciaPI'[c] = <<>>
  \/ \E m \in Mensajes : m.tipo # "1" /\ haciaPI'[c] = Append(haciaPI[c], m)

MenosPP(c) ==
  \/ haciaPP'[c] = haciaPP[c]
  \/ haciaPP'[c] = <<>>
  \/ haciaPP[c] # <<>> /\ haciaPP'[c] = Tail(haciaPP[c])
  \/ \E m \in Palabras : m # "reanudar" /\ haciaPP'[c] = Append(haciaPP[c], m)

LEMMA SinPedidos ==
  ASSUME JInv, NEW c \in Clientes, MenosPI(c), MenosPP(c),
         cliente'[c] = "pausado" => cliente[c] = "pausado",
         estado[c] # "no" => estado'[c] # "no"
  PROVE  UnPedido(c)' /\ (Pide(c)' => Pide(c))
<1>1. haciaPI[c] \in Seq(Mensajes) /\ haciaPP[c] \in Seq(Palabras)
  BY Hilos DEF JInv, IInv
<1>2. UnPedido(c)
  BY DEF JInv, UnPedidoCadaUno
<1>3. /\ \A i, j \in Unos(haciaPI[c])' : i = j
      /\ Unos(haciaPI[c])' # {} => Unos(haciaPI[c]) # {}
  <2>1. CASE haciaPI'[c] = haciaPI[c]
    BY <1>2, <2>1 DEF UnPedido
  <2>2. CASE haciaPI'[c] = <<>>
    BY <2>2 DEF Unos
  <2>3. ASSUME NEW m \in Mensajes, m.tipo # "1",
               haciaPI'[c] = Append(haciaPI[c], m)
        PROVE  Unos(haciaPI[c])' = Unos(haciaPI[c])
    BY <1>1, <2>3, UnosAgregado
  <2> QED BY <1>2, <2>1, <2>2, <2>3 DEF MenosPI, UnPedido
<1>4. /\ \A i, j \in Vueltas(haciaPP[c])' : i = j
      /\ Vueltas(haciaPP[c])' # {} => Vueltas(haciaPP[c]) # {}
  <2>1. CASE haciaPP'[c] = haciaPP[c]
    BY <1>2, <2>1 DEF UnPedido
  <2>2. CASE haciaPP'[c] = <<>>
    BY <2>2 DEF Vueltas
  <2>3. CASE haciaPP[c] # <<>> /\ haciaPP'[c] = Tail(haciaPP[c])
    BY <1>1, <1>2, <2>3, VueltasQuitado DEF UnPedido
  <2>4. ASSUME NEW m \in Palabras, m # "reanudar",
               haciaPP'[c] = Append(haciaPP[c], m)
        PROVE  Vueltas(haciaPP[c])' = Vueltas(haciaPP[c])
    BY <1>1, <2>4, VueltasAgregado
  <2> QED BY <1>2, <2>1, <2>2, <2>3, <2>4 DEF MenosPP, UnPedido
<1> QED BY <1>2, <1>3, <1>4 DEF UnPedido, Pide

\* Where a request stands, a step leaves the first of the PID alone.
LEMMA SigueVigente ==
  ASSUME JInv, NEW c \in Clientes, Pide(c)' => Pide(c),
         Pide(c) /\ Conectado(c)' =>
           /\ Conectado(c) /\ pid'[c] = pid[c]
           /\ tabla_procesos'[pid[c]] = tabla_procesos[pid[c]]
           /\ estado'[Head(tabla_procesos[pid[c]])]
                = estado[Head(tabla_procesos[pid[c]])]
  PROVE  Vigente(c)'
<1>1. Vigente(c)
  BY DEF JInv, Vigentes
<1> QED BY <1>1 DEF Vigente

\* A request stands for the first of its PID, if it is suspended.
LEMMA NadiePide ==
  ASSUME JInv, NEW c \in Clientes, Conectado(c),
         estado[Head(tabla_procesos[pid[c]])] # "suspendido"
  PROVE  ~Pide(c)
BY DEF JInv, Vigentes, Vigente

\* PCBs of other PIDs are not the first of this one.
LEMMA OtroPrimero ==
  ASSUME JInv, NEW c \in Clientes, Pide(c), Conectado(c)
  PROVE  /\ pid[c] \in Fds
         /\ Head(tabla_procesos[pid[c]]) \in Clientes
         /\ pid[Head(tabla_procesos[pid[c]])] = pid[c]
         /\ estado[Head(tabla_procesos[pid[c]])] = "suspendido"
<1>1. pid[c] \in Fds
  BY DEF Conectado, JInv, IInv, Descriptores
<1>2. /\ tabla_procesos[pid[c]] # <<>>
      /\ estado[Head(tabla_procesos[pid[c]])] = "suspendido"
  BY DEF JInv, Vigentes, Vigente
<1>3. tabla_procesos[pid[c]] \in Seq(Clientes)
  BY <1>1 DEF JInv, IInv, TypeOK
<1>4. /\ 1 \in DOMAIN tabla_procesos[pid[c]]
      /\ Head(tabla_procesos[pid[c]]) = tabla_procesos[pid[c]][1]
      /\ Head(tabla_procesos[pid[c]]) \in Clientes
  BY <1>2, <1>3, Quitada
<1>5. pid[tabla_procesos[pid[c]][1]] = pid[c]
  BY <1>1, <1>4 DEF JInv, IInv, Listados
<1> QED BY <1>1, <1>2, <1>4, <1>5

\* The LTS finds a PCB for whoever has something to say.
LEMMA HayPcb ==
  ASSUME JInv, NEW f \in Fds, fd[f] # Nadie, haciaPP[fd[f]] # <<>>
  PROVE  /\ fd[f] \in Clientes /\ pid[fd[f]] = f /\ Conectado(fd[f])
         /\ tabla_procesos[f] # <<>>
         /\ Head(tabla_procesos[f]) \in Clientes
         /\ pid[Head(tabla_procesos[f])] = f
         /\ estado[Head(tabla_procesos[f])] # "no"
         /\ Head(haciaPP[fd[f]]) = haciaPP[fd[f]][1] /\ 1 \in DOMAIN haciaPP[fd[f]]
<1>1. PICK c \in Clientes : c = fd[f]
  BY DEF JInv, IInv, TypeOK
<1>2. pid[c] = f /\ estado[c] # "no" /\ Conectado(c)
  BY <1>1 DEF JInv, IInv, Descriptores, Conectado
<1>3. haciaPP[c] \in Seq(Palabras) /\ haciaPP[c] # <<>>
  BY <1>1, Hilos DEF JInv, IInv
<1>4. 1 \in DOMAIN haciaPP[c] /\ Head(haciaPP[c]) = haciaPP[c][1]
  BY <1>3, Quitada
<1>5. tabla_procesos[f] # <<>>
  <2>1. CASE codigo[c]
    <3>1. haciaPP[c][1] = "reanudar"
      BY <1>2, <1>4, <2>1 DEF JInv, Propios, Propio
    <3>2. Pide(c)
      BY <1>4, <3>1 DEF Pide, Vueltas
    <3> QED BY <1>2, <3>2 DEF JInv, Vigentes, Vigente
  <2>2. CASE ~codigo[c]
    <3>1. estado[c] = "admitido"
      BY <1>2, <2>2 DEF JInv, Cargados, Cargado
    <3>2. PICK i \in DOMAIN tabla_procesos[f] : tabla_procesos[f][i] = c
      BY <1>2, <3>1 DEF JInv, Cargados, Cargado
    <3> QED BY <3>2
  <2> QED BY <2>1, <2>2
<1>6. tabla_procesos[f] \in Seq(Clientes)
  BY DEF JInv, IInv, TypeOK
<1>7. /\ 1 \in DOMAIN tabla_procesos[f] /\ Head(tabla_procesos[f]) \in Clientes
      /\ Head(tabla_procesos[f]) = tabla_procesos[f][1]
  BY <1>5, <1>6, Quitada
<1>8. pid[tabla_procesos[f][1]] = f /\ estado[tabla_procesos[f][1]] # "no"
  BY <1>7, Conjuntos DEF JInv, IInv, Listados
<1> QED BY <1>1, <1>2, <1>4, <1>5, <1>7, <1>8

\* A send reaches who has the descriptor, if anybody.
LEMMA Alcance ==
  ASSUME JInv, NEW p \in Clientes, estado[p] # "no",
         NEW t \in {"0", "1", "2"}, Envia(pid[p], Mensaje(t, p)),
         NEW c \in Clientes
  PROVE  /\ Mensaje(t, p) \in Mensajes /\ Mensaje(t, p).tipo = t
         /\ Mensaje(t, p).pcb = p
         /\ \/ haciaPI'[c] = haciaPI[c]
            \/ /\ fd[pid[p]] = c /\ Conectado(c) /\ pid[c] = pid[p]
               /\ cliente[c] \in Vivos /\ ~finPI[c]
               /\ haciaPI'[c] = Append(haciaPI[c], Mensaje(t, p))
<1>1. pid[p] \in Fds /\ Mensaje(t, p) \in Mensajes
  BY TipoMensajes DEF JInv
<1>2. fd[pid[p]] # Nadie => /\ fd[pid[p]] \in Clientes
                            /\ pid[fd[pid[p]]] = pid[p]
                            /\ estado[fd[pid[p]]] # "no"
  BY <1>1 DEF JInv, IInv, TypeOK, Descriptores
<1>3. haciaPI \in [Clientes -> Seq(Mensajes)]
  BY DEF JInv, IInv, TypeOK
<1>4. Mensaje(t, p).tipo = t /\ Mensaje(t, p).pcb = p
  BY DEF Mensaje
<1> HIDE DEF Mensaje
<1>5. CASE fd[pid[p]] = c /\ haciaPI'[c] # haciaPI[c]
  BY <1>1, <1>2, <1>3, <1>4, <1>5, ServidorAssumption DEF Envia, Conectado
<1>6. CASE fd[pid[p]] # c
  BY <1>1, <1>2, <1>3, <1>4, <1>6 DEF Envia
<1> QED BY <1>1, <1>4, <1>5, <1>6

-----------------------------------------------------------------------------
(* The greeting.                                                             *)

LEMMA SaludoPunto ==
  ASSUME JInv,
         \A c \in Clientes : cliente'[c] = "afuera" => cliente[c] = "afuera",
         \A i \in DOMAIN backlog' :
           /\ backlog'[i] \in Clientes /\ haciaPI[backlog'[i]] = <<>>
           /\ cliente'[backlog'[i]] \in {"conectado"} \cup Idos,
         \A c \in Clientes :
           \/ /\ haciaPI'[c] = haciaPI[c]
              /\ \/ cliente'[c] = cliente[c] \/ cliente[c] # "conectado"
                 \/ haciaPI[c] = <<>>
           \/ haciaPI'[c] = <<>>
           \/ haciaPI[c] # <<>> /\ haciaPI'[c] = Tail(haciaPI[c])
           \/ /\ cliente'[c] = cliente[c] /\ cliente[c] # "afuera"
              /\ \A i \in DOMAIN backlog' : backlog'[i] # c
              /\ \E m \in Mensajes :
                   /\ \/ m.tipo # "pid"
                      \/ haciaPI[c] = <<>> /\ cliente[c] = "conectado"
                   /\ haciaPI'[c] = Append(haciaPI[c], m)
  PROVE  Saludo'
<1>1. Saludo
  BY DEF JInv
<1>2. ASSUME NEW c \in Clientes PROVE PidPrimero(c)'
  <2>0. haciaPI[c] \in Seq(Mensajes) /\ PidPrimero(c)
    BY <1>1, Hilos DEF JInv, IInv, Saludo
  <2>1. CASE /\ haciaPI'[c] = haciaPI[c]
             /\ \/ cliente'[c] = cliente[c] \/ cliente[c] # "conectado"
                \/ haciaPI[c] = <<>>
    BY <2>0, <2>1 DEF PidPrimero
  <2>2. CASE haciaPI'[c] = <<>>
    BY <2>2 DEF PidPrimero
  <2>3. CASE haciaPI[c] # <<>> /\ haciaPI'[c] = Tail(haciaPI[c])
    <3>1. \A i \in DOMAIN haciaPI'[c] :
            /\ i \in Nat /\ i + 1 \in DOMAIN haciaPI[c] /\ i + 1 > 1
            /\ haciaPI'[c][i] = haciaPI[c][i + 1]
      BY <2>0, <2>3, Quitada
    <3>2. \A i \in DOMAIN haciaPI'[c] : haciaPI'[c][i].tipo # "pid"
      BY <2>0, <3>1 DEF PidPrimero
    <3> QED BY <3>2 DEF PidPrimero
  <2>4. ASSUME cliente'[c] = cliente[c], NEW m \in Mensajes,
               \/ m.tipo # "pid"
               \/ haciaPI[c] = <<>> /\ cliente[c] = "conectado",
               haciaPI'[c] = Append(haciaPI[c], m)
        PROVE  PidPrimero(c)'
    <3>1. /\ \A i \in DOMAIN haciaPI[c] : haciaPI'[c][i] = haciaPI[c][i]
          /\ haciaPI'[c][Len(haciaPI[c]) + 1] = m
          /\ \A i \in DOMAIN haciaPI'[c] :
               i \in DOMAIN haciaPI[c] \/ i = Len(haciaPI[c]) + 1
      BY <2>0, <2>4, Agregada
    <3>2. haciaPI[c] = <<>> => Len(haciaPI[c]) + 1 = 1
      OBVIOUS
    <3> QED BY <2>0, <2>4, <3>1, <3>2 DEF PidPrimero
  <2> QED BY <2>1, <2>2, <2>3, <2>4
<1>3. \A c \in Clientes : cliente'[c] = "afuera" => haciaPI'[c] = <<>>
  BY <1>1 DEF Saludo
<1>4. \A i \in DOMAIN backlog' : haciaPI'[backlog'[i]] = <<>>
  OBVIOUS
<1> QED BY <1>2, <1>3, <1>4 DEF Saludo

\* Who waits for accept().
LEMMA EnEspera ==
  ASSUME JInv, NEW i \in DOMAIN backlog
  PROVE  /\ backlog[i] \in Clientes /\ haciaPI[backlog[i]] = <<>>
         /\ estado[backlog[i]] = "no"
         /\ cliente[backlog[i]] \in {"conectado"} \cup Idos
BY DEF JInv, IInv, TypeOK, Afuera, Saludo

LEMMA SaludoEnvia ==
  ASSUME JInv, NEW p \in Clientes, estado[p] # "no",
         NEW t \in {"0", "1", "2"}, Envia(pid[p], Mensaje(t, p)),
         UNCHANGED <<cliente, backlog>>
  PROVE  Saludo'
<1>1. ASSUME NEW c \in Clientes
      PROVE  \/ haciaPI'[c] = haciaPI[c]
             \/ /\ cliente[c] # "afuera"
                /\ \A i \in DOMAIN backlog : backlog[i] # c
                /\ \E m \in Mensajes :
                     m.tipo # "pid" /\ haciaPI'[c] = Append(haciaPI[c], m)
  <2>1. CASE haciaPI'[c] = haciaPI[c]
    BY <2>1
  <2>2. CASE haciaPI'[c] # haciaPI[c]
    <3>1. /\ Conectado(c) /\ cliente[c] \in Vivos
          /\ Mensaje(t, p) \in Mensajes /\ Mensaje(t, p).tipo = t
          /\ haciaPI'[c] = Append(haciaPI[c], Mensaje(t, p))
      BY <2>2, Alcance
    <3>2. cliente[c] # "afuera" /\ \A i \in DOMAIN backlog : backlog[i] # c
      BY <3>1, EnEspera DEF Conectado, Vivos
    <3> QED BY <3>1, <3>2
  <2> QED BY <2>1, <2>2
<1> QED BY <1>1, EnEspera, SaludoPunto

LEMMA SaludoQuieto ==
  ASSUME JInv, UNCHANGED <<cliente, backlog, haciaPI>> PROVE Saludo'
BY DEF JInv, Saludo, PidPrimero

\* Where a client goes after a message.
LEMMA Recibido ==
  ASSUME JInv, NEW c \in Clientes, Recibe(c)
  PROVE  /\ haciaPI[c] \in Seq(Mensajes) /\ haciaPI[c] # <<>>
         /\ \A d \in Clientes : haciaPI'[d] = IF d = c THEN Tail(haciaPI[c])
                                                      ELSE haciaPI[d]
         /\ \A d \in Clientes : d # c => cliente'[d] = cliente[d]
         /\ \/ /\ Head(haciaPI[c]).tipo = "pid"
               /\ cliente[c] = "conectado" /\ cliente'[c] = "con_pid"
            \/ Head(haciaPI[c]).tipo = "1" /\ cliente'[c] = "pausado"
            \/ /\ Head(haciaPI[c]).tipo \in {"error", "0", "2"}
               /\ cliente'[c] \in {"espera"} \cup Idos
<1>1. haciaPI[c] \in Seq(Mensajes) /\ haciaPI[c] # <<>>
  BY Hilos DEF JInv, IInv, Recibe
<1>2. /\ Head(haciaPI[c]) \in Mensajes /\ 1 \in DOMAIN haciaPI[c]
      /\ Head(haciaPI[c]) = haciaPI[c][1]
  BY <1>1, Quitada
<1>3. Head(haciaPI[c]).tipo \in {"pid", "error", "0", "1", "2"}
  BY <1>2 DEF Mensajes
<1>4. Head(haciaPI[c]).tipo = "pid" => cliente[c] = "conectado"
  BY <1>2 DEF JInv, Saludo, PidPrimero
<1>5. /\ \A d \in Clientes : haciaPI'[d] = IF d = c THEN Tail(haciaPI[c])
                                                  ELSE haciaPI[d]
      /\ \A d \in Clientes : d # c => cliente'[d] = cliente[d]
  BY DEF Recibe, JInv, IInv, TypeOK
<1>6. cliente'[c] =
        CASE Head(haciaPI[c]).tipo = "pid" -> "con_pid"
          [] Head(haciaPI[c]).tipo = "error" -> "rechazado"
          [] Head(haciaPI[c]).tipo = "0" -> "espera"
          [] Head(haciaPI[c]).tipo = "1" -> "pausado"
          [] Head(haciaPI[c]).tipo = "2" -> "fin"
  BY DEF Recibe, JInv, IInv, TypeOK
<1>7. \/ Head(haciaPI[c]).tipo = "pid" /\ cliente'[c] = "con_pid"
      \/ Head(haciaPI[c]).tipo = "1" /\ cliente'[c] = "pausado"
      \/ /\ Head(haciaPI[c]).tipo \in {"error", "0", "2"}
         /\ cliente'[c] \in {"espera"} \cup Idos
  BY <1>3, <1>6 DEF Idos
<1> QED BY <1>1, <1>4, <1>5, <1>7

LEMMA SaludoPaso == ASSUME JInv, [Next]_vars PROVE Saludo'
<1>0. TypeOK
  BY DEF JInv, IInv
<1>1. ASSUME NEW c \in Clientes, Conecta(c) PROVE Saludo'
  <2>1. /\ \A d \in Clientes : cliente'[d] = IF d = c THEN "conectado"
                                                      ELSE cliente[d]
        /\ haciaPI' = haciaPI /\ cliente[c] = "afuera" /\ haciaPI[c] = <<>>
    BY <1>0, <1>1 DEF Conecta, TypeOK, JInv, Saludo
  <2>2. backlog \in Seq(Clientes) /\ backlog' = Append(backlog, c)
    BY <1>0, <1>1 DEF Conecta, TypeOK
  <2>3. \A i \in DOMAIN backlog' :
          \/ i \in DOMAIN backlog /\ backlog'[i] = backlog[i]
          \/ backlog'[i] = c
    BY <2>2, Agregada
  <2> QED BY <2>1, <2>3, EnEspera, SaludoPunto
<1>2. ASSUME NEW c \in Clientes, Recibe(c) PROVE Saludo'
  <2>1. backlog' = backlog
    BY <1>2 DEF Recibe
  <2>2. \A i \in DOMAIN backlog : backlog[i] # c
    BY <1>2, Recibido, EnEspera
  <2>3. cliente'[c] # "afuera"
    BY <1>2, Recibido DEF Idos
  <2> QED BY <1>2, <2>1, <2>2, <2>3, Recibido, EnEspera, SaludoPunto
<1>3. ASSUME NEW c \in Clientes, RecibeFin(c) PROVE Saludo'
  <2>1. /\ backlog' = backlog /\ haciaPI' = haciaPI /\ haciaPI[c] = <<>>
        /\ \A d \in Clientes : cliente'[d] = IF d = c THEN "cortado" ELSE cliente[d]
    BY <1>0, <1>3 DEF RecibeFin, conexiones, TypeOK
  <2> QED BY <2>1, EnEspera, SaludoPunto DEF Idos
<1>4. ASSUME NEW c \in Clientes, NEW a \in {"con_pid", "mando_prioridad", "pausado"},
             NEW b \in Vivos, NEW m, Manda(c, a, b, m)
      PROVE  Saludo'
  <2>1. /\ backlog' = backlog /\ haciaPI' = haciaPI
        /\ cliente[c] \in {"con_pid", "mando_prioridad", "pausado"}
        /\ \A d \in Clientes : cliente'[d] = IF d = c THEN b ELSE cliente[d]
    BY <1>0, <1>4 DEF Manda, TypeOK
  <2> QED BY <2>1, EnEspera, SaludoPunto DEF Idos, Vivos
<1>5. ASSUME NEW c \in Clientes,
             MandaPrioridad(c) \/ MandaCodigo(c) \/ MandaReanudar(c)
      PROVE  Saludo'
  BY <1>4, <1>5 DEF MandaPrioridad, MandaCodigo, MandaReanudar, Vivos
<1>6. ASSUME NEW c \in Clientes, Muere(c) PROVE Saludo'
  <2>1. /\ backlog' = backlog
        /\ \A d \in Clientes : /\ cliente'[d] = IF d = c THEN "cortado" ELSE cliente[d]
                               /\ haciaPI'[d] = IF d = c THEN <<>> ELSE haciaPI[d]
    BY <1>0, <1>6 DEF Muere, TypeOK
  <2> QED BY <2>1, EnEspera, SaludoPunto DEF Idos
<1>7. ASSUME backlog # <<>>, backlog' = Tail(backlog), cliente' = cliente,
             NEW t \in {"pid", "error"},
             haciaPI' = IF cliente[Head(backlog)] \in Vivos
                  THEN [haciaPI EXCEPT ![Head(backlog)] =
                          Append(@, Mensaje(t, Head(backlog)))]
                  ELSE haciaPI
      PROVE  Saludo'
  <2>1. PICK c : c = Head(backlog)
    OBVIOUS
  <2>2. backlog \in Seq(Clientes)
    BY <1>0 DEF TypeOK
  <2>3. /\ c \in Clientes /\ 1 \in DOMAIN backlog /\ c = backlog[1]
        /\ \A i \in DOMAIN backlog' : i \in Nat /\ i + 1 \in DOMAIN backlog
                                      /\ backlog'[i] = backlog[i + 1]
    BY <1>7, <2>1, <2>2, Quitada
  <2>4. haciaPI[c] = <<>> /\ cliente[c] \in {"conectado"} \cup Idos
    BY <2>3, EnEspera
  <2>5. \A i \in DOMAIN backlog' : backlog'[i] # c
    BY <1>7, <2>1, SinCabeza DEF JInv
  <2>6. Mensaje(t, c) \in Mensajes
    BY <2>3 DEF Mensaje, Mensajes
  <2>7. \A d \in Clientes :
          \/ haciaPI'[d] = haciaPI[d]
          \/ /\ d = c /\ cliente[c] \in Vivos
             /\ haciaPI'[c] = Append(haciaPI[c], Mensaje(t, c))
    BY <1>0, <1>7, <2>1, <2>3 DEF TypeOK
  <2>8. cliente[c] \in Vivos => cliente[c] = "conectado"
    BY <2>4 DEF Vivos, Idos
  <2> QED BY <1>7, <2>3, <2>4, <2>5, <2>6, <2>7, <2>8, EnEspera, SaludoPunto
<1>8. CASE Acepta
  BY <1>7, <1>8 DEF Acepta
<1>9. CASE Rechaza
  BY <1>7, <1>9 DEF Rechaza
<1>10. ASSUME NEW f \in Fds,
              LeePrioridad(f) \/ LeeCodigo(f) \/ LeeReanudar(f) \/ Cierra(f)
       PROVE  Saludo'
  BY <1>10, SaludoQuieto
     DEF LeePrioridad, LeeCodigo, LeeReanudar, Mensajero, Cierra, conexiones
<1>11. ASSUME NEW p \in Clientes, Imprime(p) PROVE Saludo'
  BY <1>11, SaludoEnvia DEF Imprime
<1>12. ASSUME NEW p \in Clientes, SuspendeEnvia(p) PROVE Saludo'
  BY <1>12, SaludoEnvia DEF SuspendeEnvia
<1>13. ASSUME NEW p \in Clientes, Suspende(p) \/ Termina(p) PROVE Saludo'
  BY <1>13, SaludoQuieto DEF Suspende, Termina, conexiones
<1>14. CASE FinTabla \/ FinMps \/ FinShutdown
  BY <1>14, SaludoQuieto DEF FinTabla, FinMps, FinShutdown, conexiones
<1>15. CASE FinEstado \/ FinAviso
  BY <1>15, SaludoEnvia DEF FinEstado, FinAviso, FinEnvia
<1>16. CASE UNCHANGED vars
  BY <1>16, SaludoQuieto DEF vars, conexiones
<1> QED BY <1>1, <1>2, <1>3, <1>5, <1>6, <1>8, <1>9, <1>10, <1>11, <1>12, <1>13,
           <1>14, <1>15, <1>16
        DEF Next, Pi, Lts, Finalizados


-----------------------------------------------------------------------------
(* The order of what a client sends.                                         *)

LEMMA EnOrdenPunto ==
  ASSUME JInv, NEW c \in Clientes,
         \/ /\ haciaPP'[c] = haciaPP[c]
            /\ \/ cliente'[c] = cliente[c] \/ haciaPP[c] = <<>>
               \/ cliente'[c] \notin {"afuera", "conectado", "con_pid",
                                      "mando_prioridad"}
         \/ haciaPP'[c] = <<>>
         \/ /\ haciaPP[c] # <<>> /\ haciaPP'[c] = Tail(haciaPP[c])
            /\ cliente'[c] = cliente[c]
         \/ /\ haciaPP[c] = <<>> /\ haciaPP'[c] = Append(haciaPP[c], "prioridad")
            /\ cliente'[c] = "mando_prioridad"
         \/ /\ cliente[c] = "mando_prioridad" /\ cliente'[c] = "espera"
            /\ haciaPP'[c] = Append(haciaPP[c], "codigo")
         \/ /\ cliente[c] = "pausado" /\ cliente'[c] = "espera"
            /\ haciaPP'[c] = Append(haciaPP[c], "reanudar")
  PROVE  EnOrden(c)'
<1>0. haciaPP[c] \in Seq(Palabras) /\ EnOrden(c)
  BY Hilos DEF JInv, IInv, EnOrdenTodos
<1>1. CASE /\ haciaPP'[c] = haciaPP[c]
           /\ \/ cliente'[c] = cliente[c] \/ haciaPP[c] = <<>>
              \/ cliente'[c] \notin {"afuera", "conectado", "con_pid",
                                     "mando_prioridad"}
  BY <1>0, <1>1 DEF EnOrden
<1>2. CASE haciaPP'[c] = <<>>
  BY <1>2 DEF EnOrden
<1>3. CASE /\ haciaPP[c] # <<>> /\ haciaPP'[c] = Tail(haciaPP[c])
           /\ cliente'[c] = cliente[c]
  <2>1. \A i \in DOMAIN haciaPP'[c] :
          /\ i \in Nat /\ i + 1 \in DOMAIN haciaPP[c] /\ i + 1 > 1
          /\ haciaPP'[c][i] = haciaPP[c][i + 1]
    BY <1>0, <1>3, Quitada
  <2>2. ASSUME NEW i \in DOMAIN haciaPP'[c], haciaPP'[c][i] = "codigo" PROVE i = 1
    <3>1. i + 1 = 2 /\ i \in Nat
      BY <1>0, <2>1, <2>2 DEF EnOrden
    <3> QED BY <3>1
  <2> QED BY <1>0, <1>3, <2>1, <2>2 DEF EnOrden
<1>4. CASE /\ haciaPP[c] = <<>> /\ haciaPP'[c] = Append(haciaPP[c], "prioridad")
           /\ cliente'[c] = "mando_prioridad"
  <2>1. haciaPP'[c] = <<"prioridad">>
    BY <1>4
  <2> QED BY <1>4, <2>1 DEF EnOrden
<1>5. ASSUME NEW m \in {"codigo", "reanudar"}, cliente'[c] = "espera",
             haciaPP'[c] = Append(haciaPP[c], m),
             m = "codigo" => cliente[c] = "mando_prioridad"
      PROVE  EnOrden(c)'
  <2>0. m \in Palabras
    BY DEF Palabras
  <2>1. /\ \A i \in DOMAIN haciaPP[c] :
             i \in DOMAIN haciaPP'[c] /\ haciaPP'[c][i] = haciaPP[c][i]
        /\ haciaPP'[c][Len(haciaPP[c]) + 1] = m
        /\ \A i \in DOMAIN haciaPP'[c] :
             i \in DOMAIN haciaPP[c] \/ i = Len(haciaPP[c]) + 1
    BY <1>0, <1>5, <2>0, Agregada
  <2>2. DOMAIN haciaPP[c] = 1..Len(haciaPP[c]) /\ Len(haciaPP[c]) \in Nat
    BY <1>0, LenProperties
  <2>3. \A i \in DOMAIN haciaPP'[c] : i > 1 => haciaPP'[c][i] # "prioridad"
    BY <1>0, <2>1 DEF EnOrden
  <2>4. ASSUME NEW i \in DOMAIN haciaPP'[c], i > 1, haciaPP'[c][i] = "codigo"
        PROVE  i = 2 /\ haciaPP'[c][1] = "prioridad"
    <3>1. CASE i \in DOMAIN haciaPP[c]
      <4>1. i = 2 /\ haciaPP[c][1] = "prioridad"
        BY <1>0, <2>1, <2>4, <3>1 DEF EnOrden
      <4>2. 1 \in DOMAIN haciaPP[c]
        BY <2>2, <3>1, <4>1
      <4> QED BY <2>1, <4>1, <4>2
    <3>2. CASE i = Len(haciaPP[c]) + 1
      <4>1. cliente[c] = "mando_prioridad"
        BY <1>5, <2>1, <2>4, <3>2
      <4>2. \A j \in DOMAIN haciaPP[c] :
              haciaPP[c][j] = "prioridad" /\ ~(j > 1)
        BY <1>0, <4>1 DEF EnOrden
      <4>3. Len(haciaPP[c]) >= 1
        BY <2>2, <2>4, <3>2
      <4>5. Len(haciaPP[c]) <= 1
        <5>1. Len(haciaPP[c]) \in DOMAIN haciaPP[c]
          BY <2>2, <4>3
        <5> QED BY <2>2, <4>2, <5>1
      <4>4. 1 \in DOMAIN haciaPP[c] /\ i = 2
        BY <2>2, <3>2, <4>3, <4>5
      <4> QED BY <2>1, <4>2, <4>4
    <3> QED BY <2>1, <3>1, <3>2
  <2> QED BY <1>5, <2>3, <2>4 DEF EnOrden
<1>6. CASE /\ cliente[c] = "mando_prioridad" /\ cliente'[c] = "espera"
           /\ haciaPP'[c] = Append(haciaPP[c], "codigo")
  BY <1>5, <1>6
<1>7. CASE /\ cliente[c] = "pausado" /\ cliente'[c] = "espera"
           /\ haciaPP'[c] = Append(haciaPP[c], "reanudar")
  BY <1>5, <1>7
<1> QED BY <1>1, <1>2, <1>3, <1>4, <1>6, <1>7

\* What a client sends is appended to its connection.
LEMMA Mandado ==
  ASSUME JInv, NEW c \in Clientes, NEW a, NEW b, NEW m, Manda(c, a, b, m)
  PROVE  /\ cliente[c] = a /\ cliente'[c] = b
         /\ haciaPP'[c] = Append(haciaPP[c], m)
         /\ \A d \in Clientes \ {c} :
              cliente'[d] = cliente[d] /\ haciaPP'[d] = haciaPP[d]
         /\ UNCHANGED <<haciaPI, fd, tabla_procesos, pid, estado, prioridad,
                        codigo, caido>>
BY DEF Manda, tablas, pcbs, JInv, IInv, TypeOK

\* What the LTS reads is taken from the connection, and there is a PCB for it.
LEMMA Leido ==
  ASSUME JInv, NEW f \in Fds, Mensajero(f)
  PROVE  /\ fd[f] \in Clientes /\ pid[fd[f]] = f /\ Conectado(fd[f])
         /\ tabla_procesos[f] # <<>>
         /\ Head(tabla_procesos[f]) \in Clientes
         /\ pid[Head(tabla_procesos[f])] = f
         /\ estado[Head(tabla_procesos[f])] # "no"
         /\ haciaPP[fd[f]] \in Seq(Palabras) /\ haciaPP[fd[f]] # <<>>
         /\ Head(haciaPP[fd[f]]) = haciaPP[fd[f]][1] /\ 1 \in DOMAIN haciaPP[fd[f]]
         /\ \A d \in Clientes : haciaPP'[d] = IF d = fd[f] THEN Tail(haciaPP[d])
                                                           ELSE haciaPP[d]
         /\ UNCHANGED <<cliente, backlog, haciaPI, fd, tabla_procesos, pid>>
<1>1. fd[f] # Nadie /\ haciaPP[fd[f]] # <<>>
  BY DEF Mensajero
<1>2. fd[f] \in Clientes /\ haciaPP[fd[f]] \in Seq(Palabras)
  BY <1>1, HayPcb, Hilos DEF JInv, IInv
<1>3. \A d \in Clientes : haciaPP'[d] = IF d = fd[f] THEN Tail(haciaPP[d])
                                                     ELSE haciaPP[d]
  BY DEF Mensajero, JInv, IInv, TypeOK
<1>4. UNCHANGED <<cliente, backlog, haciaPI, fd, tabla_procesos, pid>>
  BY DEF Mensajero
<1> QED BY <1>1, <1>2, <1>3, <1>4, HayPcb

LEMMA EnOrdenPaso == ASSUME JInv, [Next]_vars PROVE EnOrdenTodos'
<1> SUFFICES ASSUME NEW d \in Clientes PROVE EnOrden(d)'
  BY DEF EnOrdenTodos
<1>0. TypeOK
  BY DEF JInv, IInv
<1>q. ASSUME UNCHANGED <<cliente, haciaPP>> PROVE EnOrden(d)'
  BY <1>q, EnOrdenPunto
<1>1. ASSUME NEW c \in Clientes, Conecta(c) PROVE EnOrden(d)'
  <2>1. /\ haciaPP' = haciaPP /\ haciaPP[c] = <<>>
        /\ \A e \in Clientes \ {c} : cliente'[e] = cliente[e]
    BY <1>0, <1>1 DEF Conecta, TypeOK, JInv, EnOrdenTodos, EnOrden
  <2> QED BY <2>1, EnOrdenPunto
<1>2. ASSUME NEW c \in Clientes, Recibe(c) PROVE EnOrden(d)'
  <2>1. haciaPP' = haciaPP
    BY <1>2 DEF Recibe
  <2>2. cliente[c] = "conectado" => haciaPP[c] = <<>>
    BY DEF JInv, EnOrdenTodos, EnOrden
  <2>3. \/ haciaPP[c] = <<>>
        \/ cliente'[c] \notin {"afuera", "conectado", "con_pid", "mando_prioridad"}
    BY <1>2, <2>2, Recibido DEF Idos
  <2> QED BY <1>2, <2>1, <2>3, Recibido, EnOrdenPunto
<1>3. ASSUME NEW c \in Clientes, RecibeFin(c) PROVE EnOrden(d)'
  <2>1. /\ haciaPP' = haciaPP
        /\ \A e \in Clientes : cliente'[e] = IF e = c THEN "cortado" ELSE cliente[e]
    BY <1>0, <1>3 DEF RecibeFin, conexiones, TypeOK
  <2> QED BY <2>1, EnOrdenPunto
<1>4. ASSUME NEW c \in Clientes, MandaPrioridad(c) PROVE EnOrden(d)'
  <2>1. cliente[c] = "con_pid" => haciaPP[c] = <<>>
    BY DEF JInv, EnOrdenTodos, EnOrden
  <2> QED BY <1>4, <2>1, Mandado, EnOrdenPunto DEF MandaPrioridad
<1>5. ASSUME NEW c \in Clientes, MandaCodigo(c) PROVE EnOrden(d)'
  BY <1>5, Mandado, EnOrdenPunto DEF MandaCodigo
<1>6. ASSUME NEW c \in Clientes, MandaReanudar(c) PROVE EnOrden(d)'
  BY <1>6, Mandado, EnOrdenPunto DEF MandaReanudar
<1>7. ASSUME NEW c \in Clientes, Muere(c) PROVE EnOrden(d)'
  <2>1. \A e \in Clientes :
          /\ cliente'[e] = IF e = c THEN "cortado" ELSE cliente[e]
          /\ \/ haciaPP'[e] = haciaPP[e]
             \/ haciaPP'[e] = <<>>
    BY <1>0, <1>7 DEF Muere, TypeOK
  <2> QED BY <2>1, EnOrdenPunto
<1>8. CASE Acepta \/ Rechaza
  BY <1>8, <1>q DEF Acepta, Rechaza
<1>9. ASSUME NEW f \in Fds, LeePrioridad(f) \/ LeeCodigo(f) \/ LeeReanudar(f)
      PROVE  EnOrden(d)'
  <2>1. Mensajero(f)
    BY <1>9 DEF LeePrioridad, LeeCodigo, LeeReanudar
  <2> QED BY <2>1, Leido, EnOrdenPunto
<1>10. ASSUME NEW f \in Fds, Cierra(f) PROVE EnOrden(d)'
  BY <1>10, <1>q DEF Cierra, conexiones
<1>11. ASSUME NEW p \in Clientes,
              Imprime(p) \/ Suspende(p) \/ SuspendeEnvia(p) \/ Termina(p)
       PROVE  EnOrden(d)'
  BY <1>11, <1>q DEF Imprime, Suspende, SuspendeEnvia, Termina, conexiones
<1>12. CASE Finalizados
  BY <1>12, <1>q DEF Finalizados, FinTabla, FinMps, FinEstado, FinAviso, FinEnvia,
                     FinShutdown, conexiones
<1>13. CASE UNCHANGED vars
  BY <1>13, <1>q DEF vars, conexiones
<1> QED BY <1>1, <1>2, <1>3, <1>4, <1>5, <1>6, <1>7, <1>8, <1>9, <1>10, <1>11,
           <1>12, <1>13
        DEF Next, Pi, Lts


-----------------------------------------------------------------------------
(* What PCBs have of their programs.                                         *)

LEMMA CargadoPunto ==
  ASSUME JInv, NEW c \in Clientes,
         \/ estado'[c] = estado[c]
         \/ estado[c] \notin {"no", "admitido"} /\ estado'[c] \notin {"no", "admitido"},
         \/ prioridad'[c] = prioridad[c]
         \/ estado[c] # "no" /\ ~codigo[c],
         codigo'[c] = codigo[c], pid'[c] = pid[c],
         estado[c] = "admitido" =>
           \/ tabla_procesos'[pid[c]] = tabla_procesos[pid[c]]
           \/ \E j \in DOMAIN tabla_procesos'[pid[c]] : tabla_procesos'[pid[c]][j] = c
  PROVE  Cargado(c)'
<1>1. Cargado(c)
  BY DEF JInv, Cargados
<1>2. /\ estado'[c] \notin {"no", "admitido"} => codigo'[c]
      /\ estado'[c] = "no" => ~prioridad'[c] /\ ~codigo'[c]
      /\ codigo'[c] => prioridad'[c]
  BY <1>1 DEF Cargado
<1>3. estado'[c] = "admitido" =>
        \E i \in DOMAIN tabla_procesos'[pid'[c]] : tabla_procesos'[pid'[c]][i] = c
  BY <1>1 DEF Cargado
<1> QED BY <1>2, <1>3 DEF Cargado

\* A step that changes the state of one PCB.
Pasa(p) ==
  /\ estado[p] \notin {"no", "admitido"} /\ estado'[p] \notin {"no", "admitido"}
  /\ \A q \in Clientes \ {p} : estado'[q] = estado[q]

\* procer and finalizados move one PCB, and leave the clients alone.
LEMMA Movido ==
  ASSUME JInv, NEW p \in Clientes,
         NEW e \in Estados \ {"no", "admitido"}, Cambia(p, e),
         estado[p] \notin {"no", "admitido"}
  PROVE  Pasa(p) /\ estado'[p] = e
BY DEF Pasa, Cambia, JInv, IInv, TypeOK

\* The rest of what they change, other than the messages.
LEMMA Mueven ==
  ASSUME JInv
  PROVE  /\ \A p \in Clientes :
              /\ Suspende(p) \/ SuspendeEnvia(p) \/ Termina(p) =>
                   /\ Pasa(p) /\ estado[p] \in {"sistema", "susp_envia"}
                   /\ UNCHANGED tabla_procesos
              /\ Suspende(p) \/ Termina(p) => estado[p] = "sistema"
         /\ FinTabla => \E p \in Clientes :
              /\ Pasa(p) /\ estado[p] = "en_fin"
              /\ tabla_procesos' = [tabla_procesos EXCEPT ![pid[p]] = Tail(@)]
         /\ FinMps \/ FinEstado \/ FinAviso \/ FinShutdown =>
              \E p \in Clientes :
                /\ Pasa(p) /\ estado[p] \in EnFinalizados
                /\ UNCHANGED tabla_procesos
<1> USE DEF Estados, EnSistema, EnFinalizados, tablas
<1>1. ASSUME NEW p \in Clientes, Suspende(p) \/ SuspendeEnvia(p) \/ Termina(p)
      PROVE  /\ Pasa(p) /\ estado[p] \in {"sistema", "susp_envia"}
             /\ UNCHANGED tabla_procesos
             /\ Suspende(p) \/ Termina(p) => estado[p] = "sistema"
  BY <1>1, Movido DEF Suspende, SuspendeEnvia, Termina
<1>2. ASSUME FinTabla
      PROVE  \E p \in Clientes :
              /\ Pasa(p) /\ estado[p] = "en_fin"
              /\ tabla_procesos' = [tabla_procesos EXCEPT ![pid[p]] = Tail(@)]
  <2>1. PICK p \in Clientes :
          /\ estado[p] = "en_fin" /\ Cambia(p, "fin_tabla")
          /\ tabla_procesos' = [tabla_procesos EXCEPT ![pid[p]] =
                                  IF @ = <<>> THEN @ ELSE Tail(@)]
    BY <1>2 DEF FinTabla
  <2>2. tabla_procesos[pid[p]] # <<>> /\ pid[p] \in Fds
    BY <2>1, Primero DEF JInv
  <2>3. Pasa(p)
    BY <2>1, Movido
  <2> QED BY <2>1, <2>2, <2>3
<1>3. ASSUME FinMps \/ FinEstado \/ FinAviso \/ FinShutdown
      PROVE  \E p \in Clientes : /\ Pasa(p) /\ estado[p] \in EnFinalizados
                                 /\ UNCHANGED tabla_procesos
  <2>1. CASE FinMps
    BY <2>1, Movido DEF FinMps
  <2>2. CASE FinEstado
    BY <2>2, Movido DEF FinEstado, FinEnvia
  <2>3. CASE FinAviso
    BY <2>3, Movido DEF FinAviso, FinEnvia
  <2>4. CASE FinShutdown
    BY <2>4, Movido DEF FinShutdown
  <2> QED BY <1>3, <2>1, <2>2, <2>3, <2>4
<1> QED BY <1>1, <1>2, <1>3

LEMMA CargadoPaso == ASSUME JInv, [Next]_vars PROVE Cargados'
<1> SUFFICES ASSUME NEW d \in Clientes PROVE Cargado(d)'
  BY DEF Cargados
<1>0. TypeOK
  BY DEF JInv, IInv
<1>q. ASSUME UNCHANGED <<estado, prioridad, codigo, pid, tabla_procesos>>
      PROVE  Cargado(d)'
  BY <1>q, CargadoPunto
<1>1. ASSUME NEW c \in Clientes, Conecta(c) \/ Pi(c) \/ Muere(c) PROVE Cargado(d)'
  BY <1>1, <1>q DEF Conecta, Pi, Recibe, RecibeFin, MandaPrioridad, MandaCodigo,
                    MandaReanudar, Manda, Muere, tablas, pcbs
<1>2. CASE Acepta
  <2>1. PICK c : c = Head(backlog)
    OBVIOUS
  <2>2. PICK f : f = MinFd(Libres)
    OBVIOUS
  <2>3. c \in Clientes /\ estado[c] = "no"
    BY <1>2, <2>1, SinCabeza DEF Acepta, JInv
  <2>4. f \in Fds
    BY <2>2, <2>3, HayDescriptor DEF JInv
  <2>5. /\ \A q \in Clientes : /\ estado'[q] = IF q = c THEN "admitido" ELSE estado[q]
                               /\ pid'[q] = IF q = c THEN f ELSE pid[q]
        /\ \A g \in Fds \ {f} : tabla_procesos'[g] = tabla_procesos[g]
        /\ tabla_procesos'[f] = Append(tabla_procesos[f], c)
        /\ UNCHANGED <<prioridad, codigo>>
    BY <1>0, <1>2, <2>1, <2>2, <2>3, <2>4 DEF Acepta, TypeOK
  <2>6. tabla_procesos[f] \in Seq(Clientes)
    BY <1>0, <2>4 DEF TypeOK
  <2>7. /\ \A i \in DOMAIN tabla_procesos[f] :
             /\ i \in DOMAIN tabla_procesos'[f]
             /\ tabla_procesos'[f][i] = tabla_procesos[f][i]
        /\ \E i \in DOMAIN tabla_procesos'[f] : tabla_procesos'[f][i] = c
    BY <2>3, <2>5, <2>6, Agregada
  <2>8. CASE d = c
    <3>1. ~prioridad[c] /\ ~codigo[c]
      BY <2>3 DEF JInv, Cargados, Cargado
    <3> QED BY <2>3, <2>5, <2>7, <2>8, <3>1 DEF Cargado
  <2>9. CASE d # c
    <3>1. estado[d] = "admitido" =>
            /\ pid[d] \in Fds
            /\ \E i \in DOMAIN tabla_procesos[pid[d]] : tabla_procesos[pid[d]][i] = d
      BY DEF JInv, IInv, Descriptores, Cargados, Cargado
    <3>2. estado[d] = "admitido" =>
           \/ tabla_procesos'[pid[d]] = tabla_procesos[pid[d]]
           \/ \E j \in DOMAIN tabla_procesos'[pid[d]] : tabla_procesos'[pid[d]][j] = d
      BY <2>5, <2>7, <3>1
    <3> QED BY <2>5, <2>9, <3>2, CargadoPunto
  <2> QED BY <2>8, <2>9
<1>3. CASE Rechaza
  BY <1>3, <1>q DEF Rechaza, tablas, pcbs
<1>4. ASSUME NEW f \in Fds, LeePrioridad(f) PROVE Cargado(d)'
  <2>1. /\ tabla_procesos[f] # <<>> /\ Head(tabla_procesos[f]) \in Clientes
        /\ estado[Head(tabla_procesos[f])] # "no"
        /\ UNCHANGED <<pid, tabla_procesos>>
    BY <1>4, Leido DEF LeePrioridad
  <2>2. /\ ~prioridad[Head(tabla_procesos[f])]
        /\ d # Head(tabla_procesos[f]) => prioridad'[d] = prioridad[d]
        /\ UNCHANGED <<estado, codigo>>
    BY <1>4, <2>1 DEF LeePrioridad
  <2>3. ~codigo[Head(tabla_procesos[f])]
    BY <2>1, <2>2 DEF JInv, Cargados, Cargado
  <2> QED BY <2>1, <2>2, <2>3, CargadoPunto
<1>5. ASSUME NEW f \in Fds, LeeCodigo(f) PROVE Cargado(d)'
  <2>1. PICK p : p = Head(tabla_procesos[f])
    OBVIOUS
  <2>2. p \in Clientes /\ prioridad[p] /\ UNCHANGED <<pid, tabla_procesos, prioridad>>
    BY <1>5, <2>1, Leido DEF LeeCodigo
  <2>3. \A q \in Clientes : /\ estado'[q] = IF q = p THEN "sistema" ELSE estado[q]
                            /\ codigo'[q] = IF q = p THEN TRUE ELSE codigo[q]
    BY <1>0, <1>5, <2>1, <2>2 DEF LeeCodigo, TypeOK
  <2>4. CASE d = p
    BY <2>2, <2>3, <2>4 DEF Cargado
  <2>5. CASE d # p
    BY <2>2, <2>3, <2>5, CargadoPunto
  <2> QED BY <2>4, <2>5
<1>6. ASSUME NEW f \in Fds, LeeReanudar(f) PROVE Cargado(d)'
  <2>1. UNCHANGED <<pid, tabla_procesos, prioridad, codigo>>
    BY <1>6, Leido DEF LeeReanudar
  <2>2. CASE UNCHANGED estado
    BY <2>1, <2>2, <1>q
  <2>3. CASE tabla_suspendidos[f] # <<>>
             /\ estado' = [estado EXCEPT ![Head(tabla_suspendidos[f])] = "sistema"]
    <3>1. PICK p : p = Head(tabla_suspendidos[f])
      OBVIOUS
    <3>2. tabla_suspendidos[f] \in Seq(Clientes)
      BY <1>0 DEF TypeOK
    <3>3. /\ p \in Clientes /\ 1 \in DOMAIN tabla_suspendidos[f]
          /\ p = tabla_suspendidos[f][1]
      BY <2>3, <3>1, <3>2, Quitada
    <3>4. estado[p] \in {"susp_envia", "suspendido"}
      BY <3>3 DEF JInv, IInv, Suspendidos
    <3>5. estado'[p] = "sistema" /\ \A q \in Clientes \ {p} : estado'[q] = estado[q]
      BY <1>0, <2>3, <3>1, <3>3 DEF TypeOK
    <3> QED BY <2>1, <3>3, <3>4, <3>5, CargadoPunto
  <2> QED BY <1>6, <2>2, <2>3 DEF LeeReanudar
<1>7. ASSUME NEW f \in Fds, Cierra(f) PROVE Cargado(d)'
  BY <1>7, <1>q DEF Cierra, pcbs
<1>8. ASSUME NEW p \in Clientes, Imprime(p) PROVE Cargado(d)'
  BY <1>8, <1>q DEF Imprime, tablas, pcbs
<1>9. ASSUME NEW p \in Clientes, Suspende(p) \/ SuspendeEnvia(p) \/ Termina(p)
      PROVE  Cargado(d)'
  <2>1. Pasa(p) /\ UNCHANGED tabla_procesos
    BY <1>9, Mueven
  <2>2. UNCHANGED <<pid, prioridad, codigo>>
    BY <1>9 DEF Suspende, SuspendeEnvia, Termina
  <2> QED BY <2>1, <2>2, CargadoPunto DEF Pasa
<1>10. CASE FinTabla
  <2>1. PICK p \in Clientes :
          /\ Pasa(p) /\ estado[p] = "en_fin"
          /\ tabla_procesos' = [tabla_procesos EXCEPT ![pid[p]] = Tail(@)]
    BY <1>10, Mueven
  <2>2. UNCHANGED <<pid, prioridad, codigo>>
    BY <1>10 DEF FinTabla
  <2>3. ASSUME estado[d] = "admitido"
        PROVE  \/ tabla_procesos'[pid[d]] = tabla_procesos[pid[d]]
               \/ \E j \in DOMAIN tabla_procesos'[pid[d]] :
                    tabla_procesos'[pid[d]][j] = d
    <3>1. PICK i \in DOMAIN tabla_procesos[pid[d]] : tabla_procesos[pid[d]][i] = d
      BY <2>3 DEF JInv, Cargados, Cargado
    <3>2. pid[d] \in Fds
      BY <2>3 DEF JInv, IInv, Descriptores
    <3>3. CASE pid[d] # pid[p]
      BY <1>0, <2>1, <3>2, <3>3 DEF TypeOK
    <3>4. CASE pid[d] = pid[p]
      <4>1. PICK s \in Seq(Clientes) : s = tabla_procesos[pid[d]]
        BY <1>0, <3>2 DEF TypeOK
      <4>2. s # <<>> /\ Head(s) = p /\ d # p
        BY <2>1, <2>3, <3>4, <4>1, Primero DEF JInv, EnSistema
      <4>3. tabla_procesos'[pid[d]] = Tail(s)
        BY <1>0, <2>1, <3>2, <3>4, <4>1 DEF TypeOK
      <4>4. i # 1 /\ i \in 1..Len(s) /\ Len(s) \in Nat
        BY <3>1, <4>1, <4>2, LenProperties
      <4>5. /\ Len(Tail(s)) = Len(s) - 1 /\ Tail(s) \in Seq(Clientes)
            /\ \A j \in 1..Len(Tail(s)) : Tail(s)[j] = s[j + 1]
        BY <4>2, HeadTailProperties
      <4>6. DOMAIN Tail(s) = 1..Len(Tail(s))
        BY <4>5, LenProperties
      <4>7. i - 1 \in DOMAIN Tail(s) /\ (i - 1) + 1 = i
        BY <4>4, <4>5, <4>6
      <4>8. Tail(s)[i - 1] = d
        BY <3>1, <4>1, <4>5, <4>6, <4>7
      <4> QED BY <4>3, <4>7, <4>8
    <3> QED BY <3>3, <3>4
  <2> QED BY <2>1, <2>2, <2>3, CargadoPunto DEF Pasa
<1>11. CASE FinMps \/ FinEstado \/ FinAviso \/ FinShutdown
  <2>1. PICK p \in Clientes : Pasa(p) /\ UNCHANGED tabla_procesos
    BY <1>11, Mueven
  <2>2. UNCHANGED <<pid, prioridad, codigo>>
    BY <1>11 DEF FinMps, FinEstado, FinAviso, FinEnvia, FinShutdown
  <2> QED BY <2>1, <2>2, CargadoPunto DEF Pasa
<1>12. CASE UNCHANGED vars
  BY <1>12, <1>q DEF vars, tablas, pcbs
<1> QED BY <1>1, <1>2, <1>3, <1>4, <1>5, <1>6, <1>7, <1>8, <1>9, <1>10, <1>11,
           <1>12
        DEF Next, Lts, Finalizados


-----------------------------------------------------------------------------
(* A PCB has what its client sent.                                           *)

LEMMA PropioPunto ==
  ASSUME JInv, NEW c \in Clientes, Conectado(c)' => Conectado(c),
         prioridad'[c] = prioridad[c], codigo'[c] = codigo[c],
         \/ cliente'[c] = cliente[c]
         \/ cliente'[c] \notin {"conectado", "con_pid", "mando_prioridad"},
         \/ haciaPP'[c] = haciaPP[c]
         \/ haciaPP'[c] = <<>>
         \/ haciaPP[c] # <<>> /\ haciaPP'[c] = Tail(haciaPP[c])
         \/ ~codigo[c] /\ haciaPP'[c] = Append(haciaPP[c], "codigo")
         \/ haciaPP'[c] = Append(haciaPP[c], "reanudar")
  PROVE  Propio(c)'
<1> SUFFICES ASSUME Conectado(c)' PROVE Propio(c)'
  BY DEF Propio
<1>0. haciaPP[c] \in Seq(Palabras) /\ Propio(c) /\ Conectado(c)
  BY Hilos DEF JInv, IInv, Propios
<1>1. /\ prioridad[c] => cliente'[c] \notin {"conectado", "con_pid"}
      /\ codigo[c] => cliente'[c] # "mando_prioridad"
  BY <1>0 DEF Propio
<1>2. ASSUME NEW m \in {"codigo", "reanudar"}, haciaPP'[c] = Append(haciaPP[c], m)
      PROVE  \A i \in DOMAIN haciaPP'[c] :
               haciaPP'[c][i] = m
               \/ \E j \in DOMAIN haciaPP[c] : haciaPP'[c][i] = haciaPP[c][j]
  <2>1. m \in Palabras
    BY DEF Palabras
  <2> QED BY <1>0, <1>2, <2>1, Agregada
<1>3. ASSUME haciaPP[c] # <<>>, haciaPP'[c] = Tail(haciaPP[c])
      PROVE  \A i \in DOMAIN haciaPP'[c] :
               \E j \in DOMAIN haciaPP[c] : haciaPP'[c][i] = haciaPP[c][j]
  BY <1>0, <1>3, Quitada
<1>4. \A i \in DOMAIN haciaPP'[c] :
        \/ \E j \in DOMAIN haciaPP[c] : haciaPP'[c][i] = haciaPP[c][j]
        \/ haciaPP'[c][i] = "codigo" /\ ~codigo[c]
        \/ haciaPP'[c][i] = "reanudar"
  <2>1. CASE haciaPP'[c] = haciaPP[c]
    BY <2>1
  <2>2. CASE haciaPP'[c] = <<>>
    BY <2>2
  <2>3. CASE haciaPP[c] # <<>> /\ haciaPP'[c] = Tail(haciaPP[c])
    BY <1>3, <2>3
  <2>4. CASE ~codigo[c] /\ haciaPP'[c] = Append(haciaPP[c], "codigo")
    BY <1>2, <2>4
  <2>5. CASE haciaPP'[c] = Append(haciaPP[c], "reanudar")
    BY <1>2, <2>5
  <2> QED BY <2>1, <2>2, <2>3, <2>4, <2>5
<1> QED BY <1>0, <1>1, <1>4 DEF Propio

\* After the first message, only the program and the answers are left.
LEMMA Resto ==
  ASSUME JInv, NEW c \in Clientes, haciaPP[c] # <<>>
  PROVE  /\ cliente[c] \notin {"afuera", "conectado", "con_pid"}
         /\ \A i \in DOMAIN Tail(haciaPP[c]) : Tail(haciaPP[c])[i] # "prioridad"
         /\ haciaPP[c][1] # "prioridad" =>
              /\ cliente[c] # "mando_prioridad"
              /\ \A i \in DOMAIN Tail(haciaPP[c]) : Tail(haciaPP[c])[i] = "reanudar"
<1>1. haciaPP[c] \in Seq(Palabras) /\ EnOrden(c)
  BY Hilos DEF JInv, IInv, EnOrdenTodos
<1>2. /\ 1 \in DOMAIN haciaPP[c] /\ Tail(haciaPP[c]) \in Seq(Palabras)
      /\ \A i \in DOMAIN Tail(haciaPP[c]) :
           /\ i \in Nat /\ i + 1 \in DOMAIN haciaPP[c] /\ i + 1 > 1
           /\ Tail(haciaPP[c])[i] = haciaPP[c][i + 1]
  BY <1>1, Quitada
<1>3. \A i \in DOMAIN Tail(haciaPP[c]) : Tail(haciaPP[c])[i] \in Palabras
  BY <1>2
<1> QED BY <1>1, <1>2, <1>3 DEF EnOrden, Palabras

LEMMA PropioPaso == ASSUME JInv, [Next]_vars PROVE Propios'
<1> SUFFICES ASSUME NEW d \in Clientes PROVE Propio(d)'
  BY DEF Propios
<1>0. TypeOK
  BY DEF JInv, IInv
<1>q. ASSUME Conectado(d)' => Conectado(d),
             UNCHANGED <<cliente, haciaPP, prioridad, codigo>>
      PROVE  Propio(d)'
  BY <1>q, PropioPunto
<1>m. ASSUME UNCHANGED <<cliente, haciaPP, prioridad, codigo, fd, pid>>,
             NEW p \in Clientes, Pasa(p)
      PROVE  Propio(d)'
  <2>1. estado'[d] # "no" => estado[d] # "no"
    BY <1>m DEF Pasa
  <2>2. Conectado(d)' => Conectado(d)
    BY <1>m, <2>1 DEF Conectado
  <2> QED BY <1>m, <1>q, <2>2
<1>1. ASSUME NEW c \in Clientes, Conecta(c) PROVE Propio(d)'
  <2>1. UNCHANGED <<haciaPP, fd, pid, estado, prioridad, codigo>>
    BY <1>1 DEF Conecta, tablas, pcbs
  <2>2. estado[c] = "no" /\ \A e \in Clientes \ {c} : cliente'[e] = cliente[e]
    BY <1>0, <1>1 DEF Conecta, TypeOK, JInv, IInv, Afuera
  <2>3. CASE d = c
    BY <2>1, <2>2, <2>3 DEF Propio, Conectado
  <2>4. CASE d # c
    BY <2>1, <2>2, <2>4, PropioPunto DEF Conectado
  <2> QED BY <2>3, <2>4
<1>2. ASSUME NEW c \in Clientes, Recibe(c) PROVE Propio(d)'
  <2>1. UNCHANGED <<haciaPP, fd, pid, estado, prioridad, codigo>>
    BY <1>2 DEF Recibe, tablas, pcbs
  <2>2. CASE d = c /\ cliente[c] = "conectado"
    <3>1. Conectado(c)' => Conectado(c) /\ ~prioridad[c] /\ ~codigo[c]
      BY <2>1, <2>2 DEF Conectado, JInv, Propios, Propio, Cargados, Cargado
    <3> QED BY <2>1, <2>2, <3>1 DEF Propio
  <2>3. CASE d # c \/ cliente[c] # "conectado"
    <3>1. \/ cliente'[d] = cliente[d]
          \/ cliente'[d] \notin {"conectado", "con_pid", "mando_prioridad"}
      BY <1>2, <2>3, Recibido DEF Idos
    <3> QED BY <2>1, <3>1, PropioPunto DEF Conectado
  <2> QED BY <2>2, <2>3
<1>3. ASSUME NEW c \in Clientes, RecibeFin(c) PROVE Propio(d)'
  <2>1. UNCHANGED <<haciaPP, fd, pid, estado, prioridad, codigo>>
    BY <1>3 DEF RecibeFin, conexiones, tablas, pcbs
  <2>2. \A e \in Clientes : cliente'[e] = IF e = c THEN "cortado" ELSE cliente[e]
    BY <1>0, <1>3 DEF RecibeFin, TypeOK
  <2> QED BY <2>1, <2>2, PropioPunto DEF Conectado
<1>4. ASSUME NEW c \in Clientes, MandaPrioridad(c) PROVE Propio(d)'
  <2>1. /\ cliente[c] = "con_pid" /\ UNCHANGED <<fd, pid, estado, prioridad, codigo>>
        /\ \A e \in Clientes \ {c} :
             cliente'[e] = cliente[e] /\ haciaPP'[e] = haciaPP[e]
    BY <1>4, Mandado DEF MandaPrioridad
  <2>2. Conectado(c) => ~prioridad[c] /\ ~codigo[c]
    BY <2>1 DEF JInv, Propios, Propio, Cargados, Cargado
  <2>3. CASE d = c
    BY <2>1, <2>2, <2>3 DEF Propio, Conectado
  <2>4. CASE d # c
    BY <2>1, <2>4, PropioPunto DEF Conectado
  <2> QED BY <2>3, <2>4
<1>5. ASSUME NEW c \in Clientes, MandaCodigo(c) PROVE Propio(d)'
  <2>1. /\ cliente[c] = "mando_prioridad" /\ cliente'[c] = "espera"
        /\ haciaPP'[c] = Append(haciaPP[c], "codigo")
        /\ UNCHANGED <<fd, pid, estado, prioridad, codigo>>
        /\ \A e \in Clientes \ {c} :
             cliente'[e] = cliente[e] /\ haciaPP'[e] = haciaPP[e]
    BY <1>5, Mandado DEF MandaCodigo
  <2>2. Conectado(c) => ~codigo[c]
    BY <2>1 DEF JInv, Propios, Propio
  <2>3. CASE d = c /\ ~Conectado(c)
    BY <2>1, <2>3 DEF Propio, Conectado
  <2>4. CASE d # c \/ Conectado(c)
    BY <2>1, <2>2, <2>4, PropioPunto DEF Conectado
  <2> QED BY <2>3, <2>4
<1>6. ASSUME NEW c \in Clientes, MandaReanudar(c) PROVE Propio(d)'
  <2>1. /\ cliente'[c] = "espera"
        /\ haciaPP'[c] = Append(haciaPP[c], "reanudar")
        /\ UNCHANGED <<fd, pid, estado, prioridad, codigo>>
        /\ \A e \in Clientes \ {c} :
             cliente'[e] = cliente[e] /\ haciaPP'[e] = haciaPP[e]
    BY <1>6, Mandado DEF MandaReanudar
  <2> QED BY <2>1, PropioPunto DEF Conectado
<1>7. ASSUME NEW c \in Clientes, Muere(c) PROVE Propio(d)'
  <2>1. \A e \in Clientes :
          /\ cliente'[e] = IF e = c THEN "cortado" ELSE cliente[e]
          /\ \/ haciaPP'[e] = haciaPP[e]
             \/ haciaPP'[e] = <<>>
    BY <1>0, <1>7 DEF Muere, TypeOK
  <2>2. UNCHANGED <<fd, pid, estado, prioridad, codigo>>
    BY <1>7 DEF Muere, tablas, pcbs
  <2> QED BY <2>1, <2>2, PropioPunto DEF Conectado
<1>8. CASE Acepta
  <2>1. PICK c : c = Head(backlog)
    OBVIOUS
  <2>2. PICK f : f = MinFd(Libres)
    OBVIOUS
  <2>3. c \in Clientes /\ estado[c] = "no"
    BY <1>8, <2>1, SinCabeza DEF Acepta, JInv
  <2>4. f \in Fds
    BY <2>2, <2>3, HayDescriptor DEF JInv
  <2>5. /\ \A q \in Clientes : /\ estado'[q] = IF q = c THEN "admitido" ELSE estado[q]
                               /\ pid'[q] = IF q = c THEN f ELSE pid[q]
        /\ \A g \in Fds : fd'[g] = IF g = f THEN c ELSE fd[g]
        /\ UNCHANGED <<cliente, haciaPP, prioridad, codigo>>
    BY <1>0, <1>8, <2>1, <2>2, <2>3, <2>4 DEF Acepta, TypeOK
  <2>6. CASE d = c
    <3>1. ~prioridad[c] /\ ~codigo[c]
      BY <2>3 DEF JInv, Cargados, Cargado
    <3> QED BY <2>5, <2>6, <3>1 DEF Propio
  <2>7. CASE d # c
    <3>1. estado[d] # "no" => pid[d] \in Fds
      BY DEF JInv, IInv, Descriptores
    <3>2. Conectado(d)' => Conectado(d)
      BY <2>5, <2>7, <3>1 DEF Conectado
    <3> QED BY <1>q, <2>5, <3>2
  <2> QED BY <2>6, <2>7
<1>9. CASE Rechaza
  BY <1>9, <1>q DEF Rechaza, tablas, pcbs, Conectado
<1>10. ASSUME NEW f \in Fds, LeePrioridad(f) PROVE Propio(d)'
  <2>1. PICK p : p = Head(tabla_procesos[f])
    OBVIOUS
  <2>2. PICK c : c = fd[f]
    OBVIOUS
  <2>3. Mensajero(f)
    BY <1>10 DEF LeePrioridad
  <2>4. /\ c \in Clientes /\ p \in Clientes /\ tabla_procesos[f] # <<>> /\ pid[p] = f
        /\ haciaPP[c] # <<>>
        /\ \A e \in Clientes : haciaPP'[e] = IF e = c THEN Tail(haciaPP[e])
                                                      ELSE haciaPP[e]
        /\ UNCHANGED <<cliente, fd, pid>>
    BY <2>1, <2>2, <2>3, Leido
  <2>5. /\ \A q \in Clientes \ {p} : prioridad'[q] = prioridad[q]
        /\ ~prioridad[p] /\ UNCHANGED <<estado, codigo>>
    BY <1>10, <2>1, <2>4 DEF LeePrioridad
  <2>6. Conectado(d)' => Conectado(d)
    BY <2>4, <2>5 DEF Conectado
  <2>7. CASE d = p /\ Conectado(d)'
    <3>1. p = c
      BY <2>2, <2>4, <2>6, <2>7 DEF Conectado
    <3>2. ~codigo[p]
      BY <2>4, <2>5 DEF JInv, Cargados, Cargado
    <3>3. /\ cliente[c] \notin {"conectado", "con_pid"}
          /\ \A i \in DOMAIN Tail(haciaPP[c]) : Tail(haciaPP[c])[i] # "prioridad"
      BY <2>4, Resto
    <3> QED BY <2>4, <2>5, <2>7, <3>1, <3>2, <3>3 DEF Propio
  <2>8. CASE d # p
    BY <2>4, <2>5, <2>6, <2>8, PropioPunto
  <2> QED BY <2>7, <2>8 DEF Propio
<1>11. ASSUME NEW f \in Fds, LeeCodigo(f) PROVE Propio(d)'
  <2>1. PICK p : p = Head(tabla_procesos[f])
    OBVIOUS
  <2>2. PICK c : c = fd[f]
    OBVIOUS
  <2>3. Mensajero(f)
    BY <1>11 DEF LeeCodigo
  <2>4. /\ c \in Clientes /\ p \in Clientes /\ pid[p] = f /\ haciaPP[c] # <<>>
        /\ estado[p] # "no" /\ 1 \in DOMAIN haciaPP[c]
        /\ \A e \in Clientes : haciaPP'[e] = IF e = c THEN Tail(haciaPP[e])
                                                      ELSE haciaPP[e]
        /\ UNCHANGED <<cliente, fd, pid>>
    BY <2>1, <2>2, <2>3, Leido
  <2>5. /\ \A q \in Clientes \ {p} : codigo'[q] = codigo[q] /\ estado'[q] = estado[q]
        /\ prioridad[p] /\ UNCHANGED prioridad
    BY <1>0, <1>11, <2>1, <2>4 DEF LeeCodigo, TypeOK
  <2>6. Conectado(d)' => Conectado(d)
    BY <2>4, <2>5 DEF Conectado
  <2>7. CASE d = p /\ Conectado(d)'
    <3>1. p = c
      BY <2>2, <2>4, <2>6, <2>7 DEF Conectado
    <3>2. haciaPP[c][1] # "prioridad" /\ cliente[c] \notin {"conectado", "con_pid"}
      BY <2>4, <2>5, <2>6, <2>7, <3>1 DEF JInv, Propios, Propio
    <3>3. /\ cliente[c] # "mando_prioridad"
          /\ \A i \in DOMAIN Tail(haciaPP[c]) : Tail(haciaPP[c])[i] = "reanudar"
      BY <2>4, <3>2, Resto
    <3> QED BY <2>4, <2>7, <3>1, <3>2, <3>3 DEF Propio
  <2>8. CASE d # p
    BY <2>4, <2>5, <2>6, <2>8, PropioPunto
  <2> QED BY <2>7, <2>8 DEF Propio
<1>12. ASSUME NEW f \in Fds, LeeReanudar(f) PROVE Propio(d)'
  <2>1. Mensajero(f)
    BY <1>12 DEF LeeReanudar
  <2>2. \A q \in Clientes : estado'[q] # "no" => estado[q] # "no"
    <3>1. CASE UNCHANGED estado
      BY <3>1
    <3>2. CASE tabla_suspendidos[f] # <<>>
               /\ estado' = [estado EXCEPT ![Head(tabla_suspendidos[f])] = "sistema"]
      <4>1. PICK p : p = Head(tabla_suspendidos[f])
        OBVIOUS
      <4>2. tabla_suspendidos[f] \in Seq(Clientes)
        BY <1>0 DEF TypeOK
      <4>3. /\ p \in Clientes /\ 1 \in DOMAIN tabla_suspendidos[f]
            /\ p = tabla_suspendidos[f][1]
        BY <3>2, <4>1, <4>2, Quitada
      <4>4. estado[p] \in {"susp_envia", "suspendido"}
        BY <4>3 DEF JInv, IInv, Suspendidos
      <4> QED BY <1>0, <3>2, <4>1, <4>4 DEF TypeOK
    <3> QED BY <1>12, <3>1, <3>2 DEF LeeReanudar
  <2>3. UNCHANGED <<prioridad, codigo>>
    BY <1>12 DEF LeeReanudar
  <2>4. Conectado(d)' => Conectado(d)
    BY <2>1, <2>2, Leido DEF Conectado
  <2> QED BY <2>1, <2>3, <2>4, Leido, PropioPunto
<1>13. ASSUME NEW f \in Fds, Cierra(f) PROVE Propio(d)'
  <2>1. UNCHANGED <<cliente, haciaPP, prioridad, codigo, pid, estado>>
    BY <1>13 DEF Cierra, conexiones, pcbs
  <2>2. \A g \in Fds : fd'[g] = IF g = f THEN Nadie ELSE fd[g]
    BY <1>0, <1>13 DEF Cierra, TypeOK
  <2>3. estado[d] # "no" => pid[d] \in Fds
    BY DEF JInv, IInv, Descriptores
  <2>4. Conectado(d)' => Conectado(d)
    BY <2>1, <2>2, <2>3, ServidorAssumption DEF Conectado
  <2> QED BY <1>q, <2>1, <2>4
<1>14. ASSUME NEW p \in Clientes, Imprime(p) PROVE Propio(d)'
  BY <1>14, <1>q DEF Imprime, tablas, pcbs, Conectado
<1>15. ASSUME NEW p \in Clientes, Suspende(p) \/ SuspendeEnvia(p) \/ Termina(p)
       PROVE  Propio(d)'
  <2>1. Pasa(p)
    BY <1>15, Mueven
  <2>2. UNCHANGED <<cliente, haciaPP, prioridad, codigo, fd, pid>>
    BY <1>15 DEF Suspende, SuspendeEnvia, Termina, conexiones, tablas
  <2> QED BY <1>m, <2>1, <2>2
<1>16. CASE Finalizados
  <2>1. PICK p \in Clientes : Pasa(p)
    BY <1>16, Mueven DEF Finalizados
  <2>2. UNCHANGED <<cliente, haciaPP, prioridad, codigo, fd, pid>>
    BY <1>16 DEF Finalizados, FinTabla, FinMps, FinEstado, FinAviso, FinEnvia,
                 FinShutdown, conexiones, tablas
  <2> QED BY <1>m, <2>1, <2>2
<1>17. CASE UNCHANGED vars
  BY <1>17, <1>q DEF vars, conexiones, tablas, pcbs, Conectado
<1> QED BY <1>1, <1>2, <1>3, <1>4, <1>5, <1>6, <1>7, <1>8, <1>9, <1>10, <1>11,
           <1>12, <1>13, <1>14, <1>15, <1>16, <1>17
        DEF Next, Pi, Lts


-----------------------------------------------------------------------------
(* Requests to resume.                                                       *)

\* Who is resumed: the first of the PID, by a message that asks for it.
LEMMA Reanudado ==
  ASSUME JInv, NEW f \in Fds, LeeReanudar(f)
  PROVE  \/ UNCHANGED estado
         \/ \E p \in Clientes :
              /\ Head(haciaPP[fd[f]]) = "reanudar" /\ pid[p] = f
              /\ estado[p] \in {"susp_envia", "suspendido"}
              /\ estado'[p] = "sistema"
              /\ \A q \in Clientes \ {p} : estado'[q] = estado[q]
<1>1. CASE UNCHANGED estado
  BY <1>1
<1>2. CASE /\ Head(haciaPP[fd[f]]) = "reanudar" /\ tabla_suspendidos[f] # <<>>
           /\ estado' = [estado EXCEPT ![Head(tabla_suspendidos[f])] = "sistema"]
  <2>1. PICK p : p = Head(tabla_suspendidos[f])
    OBVIOUS
  <2>2. tabla_suspendidos[f] \in Seq(Clientes)
    BY DEF JInv, IInv, TypeOK
  <2>3. /\ p \in Clientes /\ 1 \in DOMAIN tabla_suspendidos[f]
        /\ p = tabla_suspendidos[f][1]
    BY <1>2, <2>1, <2>2, Quitada
  <2>4. pid[p] = f /\ estado[p] \in {"susp_envia", "suspendido"}
    BY <2>3 DEF JInv, IInv, Suspendidos
  <2>5. estado'[p] = "sistema" /\ \A q \in Clientes \ {p} : estado'[q] = estado[q]
    BY <1>2, <2>1, <2>3 DEF JInv, IInv, TypeOK
  <2> QED BY <1>2, <2>3, <2>4, <2>5
<1> QED BY <1>1, <1>2 DEF LeeReanudar

LEMMA PedidoPunto ==
  ASSUME JInv, NEW c \in Clientes, MenosPI(c), MenosPP(c),
         cliente'[c] = "pausado" => cliente[c] = "pausado",
         estado[c] # "no" => estado'[c] # "no",
         Pide(c) /\ Conectado(c)' =>
           /\ Conectado(c) /\ pid'[c] = pid[c]
           /\ tabla_procesos'[pid[c]] = tabla_procesos[pid[c]]
           /\ estado'[Head(tabla_procesos[pid[c]])]
                = estado[Head(tabla_procesos[pid[c]])]
  PROVE  UnPedido(c)' /\ Vigente(c)'
BY SinPedidos, SigueVigente

\* A step that moves no PCB.
LEMMA PedidoQuieto ==
  ASSUME JInv, NEW c \in Clientes, MenosPI(c), MenosPP(c),
         cliente'[c] = "pausado" => cliente[c] = "pausado",
         UNCHANGED <<fd, pid, estado, tabla_procesos>>
  PROVE  UnPedido(c)' /\ Vigente(c)'
BY PedidoPunto DEF Conectado

\* A step that moves a PCB that was not suspended.
LEMMA PedidoMueve ==
  ASSUME JInv, NEW c \in Clientes, MenosPI(c), MenosPP(c),
         UNCHANGED <<cliente, fd, pid, tabla_procesos>>,
         NEW p \in Clientes, estado[p] # "suspendido",
         estado[p] # "no" /\ estado'[p] # "no",
         \A q \in Clientes \ {p} : estado'[q] = estado[q]
  PROVE  UnPedido(c)' /\ Vigente(c)'
<1>1. Conectado(c)' => Conectado(c)
  BY DEF Conectado
<1>2. ASSUME Pide(c), Conectado(c)'
      PROVE  estado'[Head(tabla_procesos[pid[c]])]
               = estado[Head(tabla_procesos[pid[c]])]
  BY <1>1, <1>2, OtroPrimero
<1> QED BY <1>1, <1>2, PedidoPunto

LEMMA PedidoRecibe ==
  ASSUME JInv, NEW c \in Clientes, Recibe(c)
  PROVE  UnPedido(c)' /\ Vigente(c)'
<1>1. UNCHANGED <<haciaPP, fd, pid, estado, tabla_procesos>>
  BY DEF Recibe, tablas, pcbs
<1>2. UnPedido(c)
  BY DEF JInv, UnPedidoCadaUno
<1>3. /\ \A i, j \in Unos(haciaPI[c])' : i = j
      /\ Unos(haciaPI[c])' # {} => Unos(haciaPI[c]) # {}
      /\ Head(haciaPI[c]).tipo = "1" =>
           Unos(haciaPI[c]) # {} /\ Unos(haciaPI[c])' = {}
  BY <1>2, Recibido, UnosQuitado DEF UnPedido
<1>4. UnPedido(c)' /\ (Pide(c)' => Pide(c))
  <2>1. CASE Head(haciaPI[c]).tipo = "1"
    <3>1. cliente'[c] = "pausado"
      BY <2>1, Recibido
    <3> QED BY <1>1, <1>2, <1>3, <2>1, <3>1 DEF UnPedido, Pide
  <2>2. CASE Head(haciaPI[c]).tipo # "1"
    <3>1. cliente'[c] # "pausado"
      BY <2>2, Recibido DEF Idos
    <3> QED BY <1>1, <1>2, <1>3, <3>1 DEF UnPedido, Pide
  <2> QED BY <2>1, <2>2
<1>5. Vigente(c)'
  BY <1>1, <1>4, SigueVigente DEF Conectado
<1> QED BY <1>4, <1>5

LEMMA PedidoContesta ==
  ASSUME JInv, NEW c \in Clientes, MandaReanudar(c)
  PROVE  UnPedido(c)' /\ Vigente(c)'
<1>1. /\ cliente[c] = "pausado" /\ cliente'[c] = "espera"
      /\ haciaPP'[c] = Append(haciaPP[c], "reanudar")
      /\ UNCHANGED <<haciaPI, fd, tabla_procesos, pid, estado>>
  BY Mandado DEF MandaReanudar
<1>2. UnPedido(c) /\ haciaPP[c] \in Seq(Palabras) /\ "reanudar" \in Palabras
  BY Hilos DEF JInv, IInv, UnPedidoCadaUno, Palabras
<1>3. Vueltas(haciaPP[c])' = Vueltas(haciaPP[c]) \cup {Len(haciaPP[c]) + 1}
  BY <1>1, <1>2, VueltasAgregado
<1>4. Vueltas(haciaPP[c]) = {} /\ Unos(haciaPI[c]) = {} /\ Pide(c)
  BY <1>1, <1>2 DEF UnPedido, Pide
<1>5. \A i, j \in Vueltas(haciaPP[c])' : i = j
  BY <1>3, <1>4
<1>6. UnPedido(c)'
  BY <1>1, <1>2, <1>4, <1>5 DEF UnPedido
<1>7. Vigente(c)'
  BY <1>1, <1>4, SigueVigente DEF Conectado
<1> QED BY <1>6, <1>7

\* The request of a suspension is the only one, and stands.
LEMMA PedidoSuspende ==
  ASSUME JInv, NEW c \in Clientes, NEW p \in Clientes, SuspendeEnvia(p)
  PROVE  UnPedido(c)' /\ Vigente(c)'
<1>1. /\ estado[p] = "susp_envia" /\ Envia(pid[p], Mensaje("1", p))
      /\ UNCHANGED <<cliente, haciaPP, fd, tabla_procesos, pid>>
  BY DEF SuspendeEnvia, tablas
<1>2. \A q \in Clientes : estado'[q] = IF q = p THEN "suspendido" ELSE estado[q]
  BY DEF SuspendeEnvia, Cambia, JInv, IInv, TypeOK
<1>3. CASE haciaPI'[c] = haciaPI[c]
  <2>1. MenosPI(c) /\ MenosPP(c)
    BY <1>1, <1>3 DEF MenosPI, MenosPP
  <2> QED BY <1>1, <1>2, <2>1, PedidoMueve
<1>4. CASE haciaPI'[c] # haciaPI[c]
  <2>1. /\ Mensaje("1", p) \in Mensajes /\ Mensaje("1", p).tipo = "1"
        /\ Conectado(c) /\ pid[c] = pid[p]
        /\ haciaPI'[c] = Append(haciaPI[c], Mensaje("1", p))
    BY <1>1, <1>4, Alcance
  <2>2. Head(tabla_procesos[pid[c]]) = p /\ tabla_procesos[pid[c]] # <<>>
    BY <1>1, <2>1, Primero DEF JInv, EnSistema
  <2>3. ~Pide(c)
    BY <1>1, <2>1, <2>2, NadiePide
  <2>4. /\ cliente[c] # "pausado" /\ Unos(haciaPI[c]) = {}
        /\ Vueltas(haciaPP[c]) = {}
    BY <2>3 DEF Pide
  <2>5. Unos(haciaPI[c])' = {Len(haciaPI[c]) + 1}
    <3>1. haciaPI[c] \in Seq(Mensajes)
      BY Hilos DEF JInv, IInv
    <3>2. PICK m \in Mensajes :
            m.tipo = "1" /\ haciaPI'[c] = Append(haciaPI[c], m)
      BY <2>1
    <3>3. Unos(haciaPI[c])' = Unos(haciaPI[c]) \cup {Len(haciaPI[c]) + 1}
      BY <3>1, <3>2, UnosAgregado
    <3> QED BY <2>4, <3>3
  <2>6. estado'[c] # "no"
    BY <1>2, <2>1 DEF Conectado
  <2>7. UnPedido(c)'
    BY <1>1, <2>4, <2>5, <2>6 DEF UnPedido
  <2>8. Vigente(c)'
    BY <1>1, <1>2, <2>2 DEF Vigente
  <2> QED BY <2>7, <2>8
<1> QED BY <1>3, <1>4

\* An answer that is read is the request.
LEMMA PedidoReanuda ==
  ASSUME JInv, NEW c \in Clientes, NEW f \in Fds, LeeReanudar(f)
  PROVE  UnPedido(c)' /\ Vigente(c)'
<1>1. Mensajero(f)
  BY DEF LeeReanudar
<1>2. MenosPI(c) /\ MenosPP(c) /\ UNCHANGED <<cliente, fd, pid, tabla_procesos>>
  BY <1>1, Leido DEF MenosPI, MenosPP
<1>3. CASE UNCHANGED estado
  BY <1>2, <1>3, PedidoQuieto
<1>4. ASSUME NEW p \in Clientes,
             Head(haciaPP[fd[f]]) = "reanudar", pid[p] = f,
             estado[p] \in {"susp_envia", "suspendido"},
             estado'[p] = "sistema",
             \A q \in Clientes \ {p} : estado'[q] = estado[q]
      PROVE  UnPedido(c)' /\ Vigente(c)'
  <2>1. UnPedido(c)' /\ (Pide(c)' => Pide(c))
    BY <1>2, <1>4, SinPedidos
  <2>2. CASE c = fd[f]
    <3>1. /\ haciaPP[c] \in Seq(Palabras) /\ haciaPP[c] # <<>>
          /\ haciaPP'[c] = Tail(haciaPP[c]) /\ haciaPI'[c] = haciaPI[c]
      BY <1>1, <2>2, Leido
    <3>2. UnPedido(c)
      BY DEF JInv, UnPedidoCadaUno
    <3>3. Vueltas(haciaPP[c]) # {} /\ Vueltas(haciaPP[c])' = {}
      BY <1>4, <2>2, <3>1, <3>2, VueltasQuitado DEF UnPedido
    <3>4. ~Pide(c)'
      BY <1>2, <3>1, <3>2, <3>3 DEF UnPedido, Pide
    <3> QED BY <2>1, <3>4 DEF Vigente
  <2>3. CASE c # fd[f]
    <3>1. Conectado(c)' => Conectado(c)
      BY <1>2, <1>4 DEF Conectado
    <3>2. ASSUME Pide(c), Conectado(c)
          PROVE  estado'[Head(tabla_procesos[pid[c]])]
                   = estado[Head(tabla_procesos[pid[c]])]
      <4>1. pid[c] # f
        BY <2>3, <3>2 DEF Conectado
      <4> QED BY <1>4, <3>2, <4>1, OtroPrimero
    <3>3. Vigente(c)'
      BY <1>2, <2>1, <3>1, <3>2, SigueVigente
    <3> QED BY <2>1, <3>3
  <2> QED BY <2>2, <2>3
<1> QED BY <1>3, <1>4, Reanudado


LEMMA PedidosPaso == ASSUME JInv, [Next]_vars PROVE UnPedidoCadaUno' /\ Vigentes'
<1> SUFFICES ASSUME NEW d \in Clientes PROVE UnPedido(d)' /\ Vigente(d)'
  BY DEF UnPedidoCadaUno, Vigentes
<1>0. TypeOK
  BY DEF JInv, IInv
<1>q. ASSUME haciaPI'[d] = haciaPI[d], haciaPP'[d] = haciaPP[d],
             cliente'[d] = "pausado" => cliente[d] = "pausado",
             UNCHANGED <<fd, pid, estado, tabla_procesos>>
      PROVE  UnPedido(d)' /\ Vigente(d)'
  BY <1>q, PedidoQuieto DEF MenosPI, MenosPP
<1>e. ASSUME NEW p \in Clientes, estado[p] # "no", NEW t \in {"0", "2"},
             Envia(pid[p], Mensaje(t, p))
      PROVE  MenosPI(d)
  BY <1>e, Alcance DEF MenosPI
<1>1. ASSUME NEW c \in Clientes, Conecta(c) PROVE UnPedido(d)' /\ Vigente(d)'
  <2>1. UNCHANGED <<haciaPI, haciaPP, fd, pid, estado, tabla_procesos>>
    BY <1>1 DEF Conecta, tablas, pcbs
  <2>2. cliente'[d] = "pausado" => cliente[d] = "pausado"
    BY <1>0, <1>1 DEF Conecta, TypeOK
  <2> QED BY <1>q, <2>1, <2>2
<1>2. ASSUME NEW c \in Clientes, Recibe(c) PROVE UnPedido(d)' /\ Vigente(d)'
  <2>1. CASE d = c
    BY <1>2, <2>1, PedidoRecibe
  <2>2. CASE d # c
    <3>1. UNCHANGED <<haciaPP, fd, pid, estado, tabla_procesos>>
      BY <1>2 DEF Recibe, tablas, pcbs
    <3> QED BY <1>2, <1>q, <2>2, <3>1, Recibido
  <2> QED BY <2>1, <2>2
<1>3. ASSUME NEW c \in Clientes, RecibeFin(c) PROVE UnPedido(d)' /\ Vigente(d)'
  <2>1. UNCHANGED <<haciaPI, haciaPP, fd, pid, estado, tabla_procesos>>
    BY <1>3 DEF RecibeFin, conexiones, tablas, pcbs
  <2>2. cliente'[d] = "pausado" => cliente[d] = "pausado"
    BY <1>0, <1>3 DEF RecibeFin, TypeOK
  <2> QED BY <1>q, <2>1, <2>2
<1>4. ASSUME NEW c \in Clientes, NEW a, NEW b, b # "pausado",
             NEW m \in Palabras, m # "reanudar", Manda(c, a, b, m)
      PROVE  UnPedido(d)' /\ Vigente(d)'
  <2>1. MenosPI(d) /\ MenosPP(d)
    BY <1>4, Mandado DEF MenosPI, MenosPP
  <2>2. /\ cliente'[d] = "pausado" => cliente[d] = "pausado"
        /\ UNCHANGED <<fd, pid, estado, tabla_procesos>>
    BY <1>4, Mandado
  <2> QED BY <2>1, <2>2, PedidoQuieto
<1>5. ASSUME NEW c \in Clientes, MandaPrioridad(c) \/ MandaCodigo(c)
      PROVE  UnPedido(d)' /\ Vigente(d)'
  BY <1>4, <1>5 DEF MandaPrioridad, MandaCodigo, Palabras
<1>6. ASSUME NEW c \in Clientes, MandaReanudar(c)
      PROVE  UnPedido(d)' /\ Vigente(d)'
  <2>1. CASE d = c
    BY <1>6, <2>1, PedidoContesta
  <2>2. CASE d # c
    BY <1>6, <1>q, <2>2, Mandado DEF MandaReanudar
  <2> QED BY <2>1, <2>2
<1>7. ASSUME NEW c \in Clientes, Muere(c) PROVE UnPedido(d)' /\ Vigente(d)'
  <2>1. MenosPI(d) /\ MenosPP(d) /\ (cliente'[d] = "pausado" => cliente[d] = "pausado")
    BY <1>0, <1>7 DEF Muere, TypeOK, MenosPI, MenosPP
  <2>2. UNCHANGED <<fd, pid, estado, tabla_procesos>>
    BY <1>7 DEF Muere, tablas, pcbs
  <2> QED BY <2>1, <2>2, PedidoQuieto
<1>8. ASSUME NEW c \in Clientes, NEW t \in {"pid", "error"},
             haciaPI' = IF cliente[c] \in Vivos
                  THEN [haciaPI EXCEPT ![c] = Append(@, Mensaje(t, c))]
                  ELSE haciaPI
      PROVE  MenosPI(d)
  <2>1. Mensaje(t, c) \in Mensajes /\ Mensaje(t, c).tipo # "1"
    BY DEF Mensaje, Mensajes
  <2> QED BY <1>0, <1>8, <2>1 DEF TypeOK, MenosPI
<1>9. CASE Acepta
  <2>1. PICK c : c = Head(backlog)
    OBVIOUS
  <2>2. PICK f : f = MinFd(Libres)
    OBVIOUS
  <2>3. c \in Clientes /\ estado[c] = "no"
    BY <1>9, <2>1, SinCabeza DEF Acepta, JInv
  <2>4. f \in Fds
    BY <2>2, <2>3, HayDescriptor DEF JInv
  <2>5. /\ \A q \in Clientes : /\ estado'[q] = IF q = c THEN "admitido" ELSE estado[q]
                               /\ pid'[q] = IF q = c THEN f ELSE pid[q]
        /\ \A g \in Fds : /\ fd'[g] = IF g = f THEN c ELSE fd[g]
                          /\ g # f => tabla_procesos'[g] = tabla_procesos[g]
        /\ UNCHANGED <<cliente, haciaPP>>
    BY <1>0, <1>9, <2>1, <2>2, <2>3, <2>4 DEF Acepta, TypeOK
  <2>6. MenosPI(d) /\ MenosPP(d)
    BY <1>8, <1>9, <2>1, <2>3, <2>5 DEF Acepta, MenosPP
  <2>7. ASSUME Pide(d), Conectado(d)'
        PROVE  /\ Conectado(d) /\ pid'[d] = pid[d]
               /\ tabla_procesos'[pid[d]] = tabla_procesos[pid[d]]
               /\ estado'[Head(tabla_procesos[pid[d]])]
                    = estado[Head(tabla_procesos[pid[d]])]
    <3>1. d # c
      BY <2>3, <2>7 DEF JInv, UnPedidoCadaUno, UnPedido
    <3>2. estado[d] # "no" /\ pid'[d] = pid[d] /\ pid[d] \in Fds
      BY <2>5, <2>7, <3>1 DEF Conectado, JInv, IInv, Descriptores
    <3>3. pid[d] # f /\ fd[pid[d]] = d
      BY <2>5, <2>7, <3>1, <3>2 DEF Conectado
    <3>4. Conectado(d)
      BY <3>2, <3>3 DEF Conectado
    <3> QED BY <2>3, <2>5, <2>7, <3>2, <3>3, <3>4, OtroPrimero
  <2>8. estado[d] # "no" => estado'[d] # "no"
    BY <2>5
  <2> QED BY <2>5, <2>6, <2>7, <2>8, PedidoPunto
<1>10. CASE Rechaza
  <2>1. PICK c : c = Head(backlog)
    OBVIOUS
  <2>2. c \in Clientes
    BY <1>10, <2>1, SinCabeza DEF Rechaza, JInv
  <2>3. MenosPI(d) /\ MenosPP(d) /\ UNCHANGED <<cliente, fd, pid, estado, tabla_procesos>>
    BY <1>8, <1>10, <2>1, <2>2 DEF Rechaza, MenosPP, tablas, pcbs
  <2> QED BY <2>3, PedidoQuieto
<1>11. ASSUME NEW f \in Fds, LeePrioridad(f) PROVE UnPedido(d)' /\ Vigente(d)'
  <2>1. Mensajero(f) /\ UNCHANGED estado
    BY <1>11 DEF LeePrioridad
  <2>2. MenosPI(d) /\ MenosPP(d) /\ UNCHANGED <<cliente, fd, pid, tabla_procesos>>
    BY <2>1, Leido DEF MenosPI, MenosPP
  <2> QED BY <2>1, <2>2, PedidoQuieto
<1>12. ASSUME NEW f \in Fds, LeeCodigo(f) PROVE UnPedido(d)' /\ Vigente(d)'
  <2>1. Mensajero(f)
    BY <1>12 DEF LeeCodigo
  <2>2. MenosPI(d) /\ MenosPP(d) /\ UNCHANGED <<cliente, fd, pid, tabla_procesos>>
    BY <2>1, Leido DEF MenosPI, MenosPP
  <2>3. PICK p : p = Head(tabla_procesos[f])
    OBVIOUS
  <2>4. p \in Clientes /\ estado[p] # "no"
    BY <2>1, <2>3, Leido
  <2>5. ~codigo[p] /\ estado' = [estado EXCEPT ![p] = "sistema"]
    BY <1>12, <2>3 DEF LeeCodigo
  <2>6. estado[p] # "suspendido"
    BY <2>4, <2>5, Primero DEF JInv, EnSistema
  <2>7. estado'[p] # "no" /\ \A q \in Clientes \ {p} : estado'[q] = estado[q]
    BY <1>0, <2>4, <2>5 DEF TypeOK
  <2> QED BY <2>2, <2>4, <2>6, <2>7, PedidoMueve
<1>13. ASSUME NEW f \in Fds, LeeReanudar(f) PROVE UnPedido(d)' /\ Vigente(d)'
  BY <1>13, PedidoReanuda
<1>14. ASSUME NEW f \in Fds, Cierra(f) PROVE UnPedido(d)' /\ Vigente(d)'
  <2>1. UNCHANGED <<haciaPI, haciaPP, cliente, pid, estado, tabla_procesos>>
    BY <1>14 DEF Cierra, conexiones, pcbs
  <2>2. \A g \in Fds : fd'[g] = IF g = f THEN Nadie ELSE fd[g]
    BY <1>0, <1>14 DEF Cierra, TypeOK
  <2>3. estado[d] # "no" => pid[d] \in Fds
    BY DEF JInv, IInv, Descriptores
  <2>4. Conectado(d)' => Conectado(d)
    BY <2>1, <2>2, <2>3, ServidorAssumption DEF Conectado
  <2>5. MenosPI(d) /\ MenosPP(d)
    BY <2>1 DEF MenosPI, MenosPP
  <2> QED BY <2>1, <2>4, <2>5, PedidoPunto
<1>15. ASSUME NEW p \in Clientes, Imprime(p) PROVE UnPedido(d)' /\ Vigente(d)'
  <2>1. MenosPI(d)
    BY <1>15, <1>e DEF Imprime
  <2>2. MenosPP(d) /\ UNCHANGED <<cliente, fd, pid, estado, tabla_procesos>>
    BY <1>15 DEF Imprime, tablas, pcbs, MenosPP
  <2> QED BY <2>1, <2>2, PedidoQuieto
<1>16. ASSUME NEW p \in Clientes, SuspendeEnvia(p) PROVE UnPedido(d)' /\ Vigente(d)'
  BY <1>16, PedidoSuspende
<1>17. ASSUME NEW p \in Clientes, Suspende(p) \/ Termina(p)
       PROVE  UnPedido(d)' /\ Vigente(d)'
  <2>1. Pasa(p) /\ estado[p] = "sistema" /\ UNCHANGED tabla_procesos
    BY <1>17, Mueven
  <2>2. UNCHANGED <<cliente, haciaPI, haciaPP, fd, pid>>
    BY <1>17 DEF Suspende, Termina, conexiones, tablas
  <2>3. MenosPI(d) /\ MenosPP(d)
    BY <2>2 DEF MenosPI, MenosPP
  <2> QED BY <2>1, <2>2, <2>3, PedidoMueve DEF Pasa
<1>18. CASE FinTabla
  <2>1. PICK p \in Clientes :
          /\ Pasa(p) /\ estado[p] = "en_fin"
          /\ tabla_procesos' = [tabla_procesos EXCEPT ![pid[p]] = Tail(@)]
    BY <1>18, Mueven
  <2>2. UNCHANGED <<cliente, haciaPI, haciaPP, fd, pid>>
    BY <1>18 DEF FinTabla, conexiones
  <2>3. MenosPI(d) /\ MenosPP(d)
    BY <2>2 DEF MenosPI, MenosPP
  <2>4. Conectado(d)' => Conectado(d)
    BY <2>1, <2>2 DEF Conectado, Pasa
  <2>5. ASSUME Pide(d), Conectado(d)
        PROVE  /\ tabla_procesos'[pid[d]] = tabla_procesos[pid[d]]
               /\ estado'[Head(tabla_procesos[pid[d]])]
                    = estado[Head(tabla_procesos[pid[d]])]
    <3>1. /\ pid[d] \in Fds /\ Head(tabla_procesos[pid[d]]) \in Clientes
          /\ estado[Head(tabla_procesos[pid[d]])] = "suspendido"
      BY <2>5, OtroPrimero
    <3>2. pid[d] # pid[p]
      BY <2>1, <3>1, Primero DEF JInv, EnSistema
    <3>3. tabla_procesos'[pid[d]] = tabla_procesos[pid[d]]
      BY <1>0, <2>1, <3>1, <3>2 DEF TypeOK
    <3>4. Head(tabla_procesos[pid[d]]) # p
      BY <2>1, <3>1
    <3> QED BY <2>1, <3>1, <3>3, <3>4 DEF Pasa
  <2>6. estado[d] # "no" => estado'[d] # "no"
    BY <2>1 DEF Pasa
  <2> QED BY <2>2, <2>3, <2>4, <2>5, <2>6, PedidoPunto
<1>19. CASE FinMps \/ FinEstado \/ FinAviso \/ FinShutdown
  <2>1. PICK p \in Clientes : /\ Pasa(p) /\ estado[p] \in EnFinalizados
                              /\ UNCHANGED tabla_procesos
    BY <1>19, Mueven
  <2>2. UNCHANGED <<cliente, haciaPP, fd, pid>>
    BY <1>19 DEF FinMps, FinEstado, FinAviso, FinEnvia, FinShutdown, conexiones,
                 tablas
  <2>3. MenosPI(d)
    <3>1. CASE FinMps \/ FinShutdown
      BY <3>1 DEF FinMps, FinShutdown, conexiones, MenosPI
    <3>2. CASE FinEstado \/ FinAviso
      BY <1>e, <3>2 DEF FinEstado, FinAviso, FinEnvia
    <3> QED BY <1>19, <3>1, <3>2
  <2>4. MenosPP(d) /\ estado[p] # "suspendido"
    BY <2>1, <2>2 DEF MenosPP, EnFinalizados
  <2> QED BY <2>1, <2>2, <2>3, <2>4, PedidoMueve DEF Pasa
<1>20. CASE UNCHANGED vars
  BY <1>20, <1>q DEF vars, conexiones, tablas, pcbs
<1> QED BY <1>1, <1>2, <1>3, <1>5, <1>6, <1>7, <1>9, <1>10, <1>11, <1>12, <1>13,
           <1>14, <1>15, <1>16, <1>17, <1>18, <1>19, <1>20
        DEF Next, Pi, Lts, Finalizados

-----------------------------------------------------------------------------
(* PP does not die of a connection without a PCB.                            *)

LEMMA NuloPaso == ASSUME JInv, [Next]_vars PROVE caido' # "nulo"
<1>0. caido # "nulo"
  BY DEF JInv
<1>e. ASSUME NEW f, NEW m, Envia(f, m) PROVE caido' # "nulo"
  BY <1>0, <1>e DEF Envia
<1>1. ASSUME NEW c \in Clientes, Conecta(c) \/ Pi(c) \/ Muere(c)
      PROVE  caido' # "nulo"
  BY <1>0, <1>1 DEF Conecta, Pi, Recibe, RecibeFin, MandaPrioridad, MandaCodigo,
                    MandaReanudar, Manda, Muere
<1>2. CASE Acepta \/ Rechaza
  BY <1>0, <1>2 DEF Acepta, Rechaza
<1>3. ASSUME NEW f \in Fds, LeePrioridad(f) PROVE caido' # "nulo"
  BY <1>0, <1>3, Leido DEF LeePrioridad
<1>4. ASSUME NEW f \in Fds, LeeCodigo(f) PROVE caido' # "nulo"
  BY <1>4 DEF LeeCodigo
<1>5. ASSUME NEW f \in Fds, LeeReanudar(f) \/ Cierra(f) PROVE caido' # "nulo"
  BY <1>0, <1>5 DEF LeeReanudar, Cierra
<1>6. ASSUME NEW p \in Clientes, Imprime(p) \/ SuspendeEnvia(p)
      PROVE  caido' # "nulo"
  BY <1>6, <1>e DEF Imprime, SuspendeEnvia
<1>7. ASSUME NEW p \in Clientes, Suspende(p) \/ Termina(p) PROVE caido' # "nulo"
  BY <1>0, <1>7 DEF Suspende, Termina
<1>8. CASE FinTabla \/ FinMps \/ FinShutdown
  BY <1>0, <1>8 DEF FinTabla, FinMps, FinShutdown
<1>9. CASE FinEstado \/ FinAviso
  BY <1>9, <1>e DEF FinEstado, FinAviso, FinEnvia
<1>10. CASE UNCHANGED vars
  BY <1>0, <1>10 DEF vars
<1> QED BY <1>1, <1>2, <1>3, <1>4, <1>5, <1>6, <1>7, <1>8, <1>9, <1>10
        DEF Next, Lts, Finalizados

LEMMA MensajesInicial == Init => JInv
<1> SUFFICES ASSUME Init PROVE JInv
  OBVIOUS
<1>1. IInv
  BY Inicial
<1>2. Saludo /\ EnOrdenTodos /\ Cargados
  BY DEF Init, Saludo, PidPrimero, EnOrdenTodos, EnOrden, Cargados, Cargado
<1>3. Propios /\ UnPedidoCadaUno /\ Vigentes
  BY DEF Init, Propios, Propio, Conectado, UnPedidoCadaUno, UnPedido, Vigentes,
         Vigente, Pide, Unos, Vueltas
<1> QED BY <1>1, <1>2, <1>3 DEF Init, JInv

LEMMA MensajesPaso == JInv /\ [Next]_vars => JInv'
<1> SUFFICES ASSUME JInv, [Next]_vars PROVE JInv'
  OBVIOUS
<1>1. IInv'
  BY Paso DEF JInv
<1> QED BY <1>1, SaludoPaso, EnOrdenPaso, CargadoPaso, PropioPaso, PedidosPaso,
           NuloPaso DEF JInv

\* What the LTS and its clients count on holds in every state of Servidor: a
\* message always finds the PCB it is about, whoever is killed.
THEOREM InvarianteMensajes == Spec => []JInv
BY MensajesInicial, MensajesPaso, PTL DEF Spec


-----------------------------------------------------------------------------
(* As long as no connection was cut.                                         *)

\* What is not over as far as its client knows.
Atendidos == {"admitido", "fin_tabla", "fin_mps", "fin_estado"} \cup EnSistema

\* What is on its way to a client is about its process.
Suyo(c) == \A i \in DOMAIN haciaPI[c] : haciaPI[c][i].pcb = c

\* A process has its client, which was not told to leave.
ConCliente(p) ==
  estado[p] \in Atendidos =>
    /\ fd[pid[p]] = p /\ cliente[p] \in Vivos /\ ~finPI[p]
    /\ \A i \in DOMAIN haciaPI[p] : haciaPI[p][i].tipo \notin {"error", "2"}

\* Nobody who was not accepted or refused was told anything.
Esperan ==
  /\ \A i \in DOMAIN backlog :
       cliente[backlog[i]] = "conectado" /\ ~finPI[backlog[i]]
  /\ \A c \in Clientes : cliente[c] = "afuera" => ~finPI[c]

Intactos ==
  /\ caido = "no" /\ Esperan
  /\ \A c \in Clientes : Suyo(c) /\ ConCliente(c)

KInv == JInv /\ (cortes = {} => Intactos)

LEMMA IntactoPunto ==
  ASSUME JInv, Intactos, NEW c \in Clientes,
         \/ haciaPI'[c] = haciaPI[c]
         \/ haciaPI[c] # <<>> /\ haciaPI'[c] = Tail(haciaPI[c])
         \/ \E m \in Mensajes :
              /\ m.pcb = c /\ haciaPI'[c] = Append(haciaPI[c], m)
              /\ m.tipo \in {"error", "2"} => estado'[c] \notin Atendidos,
         estado'[c] \in Atendidos =>
           /\ estado[c] \in Atendidos /\ pid'[c] = pid[c]
           /\ fd'[pid[c]] = fd[pid[c]] /\ finPI'[c] = finPI[c]
           /\ cliente'[c] = cliente[c] \/ cliente'[c] \in Vivos
  PROVE  Suyo(c)' /\ ConCliente(c)'
<1>0. haciaPI[c] \in Seq(Mensajes) /\ Suyo(c) /\ ConCliente(c)
  BY Hilos DEF JInv, IInv, Intactos
<1>1. \A i \in DOMAIN haciaPI'[c] :
        \/ \E j \in DOMAIN haciaPI[c] : haciaPI'[c][i] = haciaPI[c][j]
        \/ /\ haciaPI'[c][i].pcb = c
           /\ haciaPI'[c][i].tipo \in {"error", "2"} => estado'[c] \notin Atendidos
  <2>1. CASE haciaPI'[c] = haciaPI[c]
    BY <2>1
  <2>2. CASE haciaPI[c] # <<>> /\ haciaPI'[c] = Tail(haciaPI[c])
    BY <1>0, <2>2, Quitada
  <2>3. ASSUME NEW m \in Mensajes, m.pcb = c, haciaPI'[c] = Append(haciaPI[c], m),
               m.tipo \in {"error", "2"} => estado'[c] \notin Atendidos
        PROVE  \A i \in DOMAIN haciaPI'[c] :
                 \/ \E j \in DOMAIN haciaPI[c] : haciaPI'[c][i] = haciaPI[c][j]
                 \/ haciaPI'[c][i] = m
    BY <1>0, <2>3, Agregada
  <2> QED BY <2>1, <2>2, <2>3
<1>2. Suyo(c)'
  BY <1>0, <1>1 DEF Suyo
<1>3. ConCliente(c)'
  BY <1>0, <1>1 DEF ConCliente
<1> QED BY <1>2, <1>3

\* A send of a process that is served reaches its client.
LEMMA Llega ==
  ASSUME JInv, Intactos, NEW p \in Clientes, estado[p] \in Atendidos,
         NEW t \in {"0", "1", "2"}, Envia(pid[p], Mensaje(t, p))
  PROVE  /\ caido' = "no"
         /\ \E m \in Mensajes : /\ m.pcb = p /\ m.tipo = t
                                /\ haciaPI'[p] = Append(haciaPI[p], m)
         /\ \A q \in Clientes \ {p} : haciaPI'[q] = haciaPI[q]
<1>1. fd[pid[p]] = p /\ cliente[p] \in Vivos /\ ~finPI[p] /\ caido = "no"
  BY DEF Intactos, ConCliente
<1>2. estado[p] # "no"
  BY DEF Atendidos, EnSistema
<1>3. /\ Mensaje(t, p) \in Mensajes /\ Mensaje(t, p).tipo = t
      /\ Mensaje(t, p).pcb = p
  BY <1>2, Alcance
<1>4. haciaPI \in [Clientes -> Seq(Mensajes)]
  BY DEF JInv, IInv, TypeOK
<1>5. /\ haciaPI' = [haciaPI EXCEPT ![p] = Append(@, Mensaje(t, p))]
      /\ UNCHANGED caido
  BY <1>1, ServidorAssumption DEF Envia
<1> HIDE DEF Mensaje
<1>6. /\ haciaPI'[p] = Append(haciaPI[p], Mensaje(t, p))
      /\ \A q \in Clientes \ {p} : haciaPI'[q] = haciaPI[q]
  BY <1>4, <1>5
<1> QED BY <1>1, <1>3, <1>5, <1>6

\* procer and finalizados, when they send nothing.
LEMMA IntactoCalla ==
  ASSUME JInv, Intactos, NEW p \in Clientes, Pasa(p),
         estado'[p] \in Atendidos => estado[p] \in Atendidos,
         UNCHANGED <<cliente, backlog, haciaPI, finPI, fd, pid, caido>>
  PROVE  Intactos'
<1>1. \A q \in Clientes : estado'[q] \in Atendidos => estado[q] \in Atendidos
  BY DEF Pasa
<1>2. \A q \in Clientes : Suyo(q)' /\ ConCliente(q)'
  BY <1>1, IntactoPunto
<1>3. caido' = "no" /\ Esperan'
  BY DEF Intactos, Esperan
<1> QED BY <1>2, <1>3 DEF Intactos

\* And when they send.
LEMMA IntactoEnvia ==
  ASSUME JInv, Intactos, NEW p \in Clientes, estado[p] \in Atendidos,
         NEW t \in {"0", "1", "2"}, Envia(pid[p], Mensaje(t, p)),
         t = "2" => estado'[p] \notin Atendidos,
         \A q \in Clientes \ {p} : estado'[q] = estado[q],
         UNCHANGED <<cliente, backlog, finPI, fd, pid>>
  PROVE  Intactos'
<1>1. ASSUME NEW q \in Clientes PROVE Suyo(q)' /\ ConCliente(q)'
  <2>1. CASE q = p
    <3>1. PICK m \in Mensajes : /\ m.pcb = p /\ m.tipo = t
                                /\ haciaPI'[p] = Append(haciaPI[p], m)
      BY Llega
    <3> QED BY <2>1, <3>1, IntactoPunto
  <2>2. CASE q # p
    BY <2>2, Llega, IntactoPunto
  <2> QED BY <2>1, <2>2
<1>2. caido' = "no" /\ Esperan'
  BY Llega DEF Intactos, Esperan
<1> QED BY <1>1, <1>2 DEF Intactos

\* Steps of the LTS on what it read.
LEMMA IntactoLee ==
  ASSUME JInv, Intactos, caido' = "no",
         \A q \in Clientes : estado'[q] \in Atendidos => estado[q] \in Atendidos,
         UNCHANGED <<cliente, backlog, haciaPI, finPI, fd, pid>>
  PROVE  Intactos'
<1>1. \A q \in Clientes : Suyo(q)' /\ ConCliente(q)'
  BY IntactoPunto
<1>2. Esperan'
  BY DEF Intactos, Esperan
<1> QED BY <1>1, <1>2 DEF Intactos


\* The program of a PCB is read from its own client.
LEMMA LeeSuCodigo ==
  ASSUME JInv, Intactos, NEW f \in Fds, LeeCodigo(f)
  PROVE  /\ caido' = "no"
         /\ \E p \in Clientes :
              /\ estado[p] \in Atendidos
              /\ \A q \in Clientes \ {p} : estado'[q] = estado[q]
<1>1. PICK p : p = Head(tabla_procesos[f])
  OBVIOUS
<1>2. PICK c : c = fd[f]
  OBVIOUS
<1>3. /\ Mensajero(f) /\ prioridad[p] /\ ~codigo[p] /\ tabla_procesos[f] # <<>>
      /\ estado' = [estado EXCEPT ![p] = "sistema"]
      /\ caido' \in IF Head(haciaPP[c]) = "codigo" THEN {"no"} ELSE {"no", "programa"}
  BY <1>1, <1>2 DEF LeeCodigo
<1>4. /\ p \in Clientes /\ pid[p] = f /\ haciaPP[c] \in Seq(Palabras)
      /\ c \in Clientes /\ 1 \in DOMAIN haciaPP[c] /\ Head(haciaPP[c]) = haciaPP[c][1]
  BY <1>1, <1>2, <1>3, Leido
<1>5. estado[p] \in Atendidos /\ estado[p] \notin EnSistema
  <2>1. tabla_procesos[f] \in Seq(Clientes)
    BY DEF JInv, IInv, TypeOK
  <2>2. 1 \in DOMAIN tabla_procesos[f] /\ p = tabla_procesos[f][1]
    BY <1>1, <1>3, <2>1, Quitada
  <2>3. estado[p] \in EnTabla
    BY <2>2 DEF JInv, IInv, Listados
  <2> QED BY <1>3, <1>4, <2>3, Primero DEF JInv, EnTabla, Atendidos
<1>6. p = c /\ Conectado(p)
  <2>1. fd[pid[p]] = p /\ estado[p] # "no"
    BY <1>4, <1>5 DEF Intactos, ConCliente, Atendidos, EnSistema
  <2> QED BY <1>2, <1>4, <2>1 DEF Conectado
<1>7. haciaPP[c][1] # "prioridad"
  BY <1>3, <1>4, <1>6 DEF JInv, Propios, Propio
<1>8. haciaPP[c][1] # "reanudar"
  <2> SUFFICES ASSUME haciaPP[c][1] = "reanudar" PROVE FALSE
    OBVIOUS
  <2>1. Pide(p)
    BY <1>4, <1>6 DEF Pide, Vueltas
  <2>2. estado[p] = "suspendido"
    BY <1>1, <1>4, <1>6, <2>1, OtroPrimero
  <2> QED BY <1>5, <2>2 DEF EnSistema
<1>9. Head(haciaPP[c]) = "codigo"
  BY <1>4, <1>7, <1>8 DEF Palabras
<1>10. \A q \in Clientes \ {p} : estado'[q] = estado[q]
  BY <1>3, <1>4 DEF JInv, IInv, TypeOK
<1> QED BY <1>3, <1>4, <1>5, <1>9, <1>10

LEMMA IntactoPaso ==
  ASSUME JInv, Intactos, [Next]_vars, cortes' = {}
  PROVE  Intactos'
<1>0. TypeOK /\ caido = "no" /\ Esperan
  BY DEF JInv, IInv, Intactos
<1>n. \A q \in Clientes : estado[q] \in Atendidos => estado[q] # "no"
  BY DEF Atendidos, EnSistema
<1>1. ASSUME NEW c \in Clientes, Conecta(c) PROVE Intactos'
  <2>1. /\ UNCHANGED <<haciaPI, finPI, fd, pid, estado, caido>>
        /\ cliente[c] = "afuera" /\ backlog' = Append(backlog, c)
    BY <1>1 DEF Conecta, tablas, pcbs
  <2>2. \A e \in Clientes : cliente'[e] = IF e = c THEN "conectado" ELSE cliente[e]
    BY <1>0, <1>1 DEF Conecta, TypeOK
  <2>3. \A q \in Clientes : Suyo(q)' /\ ConCliente(q)'
    BY <2>1, <2>2, IntactoPunto DEF Vivos
  <2>4. \A i \in DOMAIN backlog' :
          \/ i \in DOMAIN backlog /\ backlog'[i] = backlog[i]
          \/ backlog'[i] = c
    BY <1>0, <2>1, Agregada DEF TypeOK
  <2>5. \A i \in DOMAIN backlog : backlog[i] \in Clientes
    BY EnEspera
  <2>6. Esperan'
    BY <1>0, <2>1, <2>2, <2>4, <2>5 DEF Esperan
  <2> QED BY <1>0, <2>1, <2>3, <2>6 DEF Intactos
<1>2. ASSUME NEW c \in Clientes, Recibe(c) PROVE Intactos'
  <2>1. UNCHANGED <<backlog, finPI, fd, pid, estado, caido>>
    BY <1>2 DEF Recibe, tablas, pcbs
  <2>2. \A i \in DOMAIN backlog : backlog[i] # c /\ backlog[i] \in Clientes
    BY <1>2, Recibido, EnEspera
  <2>3. cliente'[c] # "afuera"
    BY <1>2, Recibido DEF Idos
  <2>4. Esperan'
    BY <1>0, <1>2, <2>1, <2>2, <2>3, Recibido DEF Esperan
  <2>5. ASSUME estado[c] \in Atendidos PROVE cliente'[c] \in Vivos
    <3>1. \A i \in DOMAIN haciaPI[c] : haciaPI[c][i].tipo \notin {"error", "2"}
      BY <2>5 DEF Intactos, ConCliente
    <3>2. Head(haciaPI[c]).tipo \notin {"error", "2"}
      <4>1. 1 \in DOMAIN haciaPI[c] /\ Head(haciaPI[c]) = haciaPI[c][1]
        BY <1>2, Recibido, Quitada
      <4> QED BY <3>1, <4>1
    <3>3. Head(haciaPI[c]).tipo = "0" => cliente'[c] = "espera"
      BY <1>0, <1>2 DEF Recibe, TypeOK
    <3> QED BY <1>2, <3>2, <3>3, Recibido DEF Vivos
  <2>6. \A q \in Clientes : Suyo(q)' /\ ConCliente(q)'
    BY <1>2, <2>1, <2>5, Recibido, IntactoPunto
  <2> QED BY <1>0, <2>1, <2>4, <2>6 DEF Intactos
<1>3. ASSUME NEW c \in Clientes, RecibeFin(c) \/ Muere(c) PROVE FALSE
  BY <1>3 DEF RecibeFin, Muere
<1>4. ASSUME NEW c \in Clientes, NEW a \in {"con_pid", "mando_prioridad", "pausado"},
             NEW b \in Vivos, NEW m, Manda(c, a, b, m)
      PROVE  Intactos'
  <2>1. /\ UNCHANGED <<backlog, haciaPI, finPI, fd, pid, estado, caido>>
        /\ cliente[c] = a
        /\ \A e \in Clientes : cliente'[e] = IF e = c THEN b ELSE cliente[e]
    BY <1>0, <1>4 DEF Manda, TypeOK, tablas, pcbs
  <2>2. \A q \in Clientes : Suyo(q)' /\ ConCliente(q)'
    BY <2>1, IntactoPunto
  <2>3. \A i \in DOMAIN backlog : backlog[i] \in Clientes
    BY EnEspera
  <2>4. Esperan'
    BY <1>0, <2>1, <2>3 DEF Esperan, Vivos
  <2> QED BY <1>0, <2>1, <2>2, <2>4 DEF Intactos
<1>5. ASSUME NEW c \in Clientes,
             MandaPrioridad(c) \/ MandaCodigo(c) \/ MandaReanudar(c)
      PROVE  Intactos'
  BY <1>4, <1>5 DEF MandaPrioridad, MandaCodigo, MandaReanudar, Vivos
<1>6. ASSUME backlog # <<>>, backlog' = Tail(backlog), cliente' = cliente
      PROVE  /\ Head(backlog) \in Clientes /\ estado[Head(backlog)] = "no"
             /\ cliente[Head(backlog)] = "conectado" /\ ~finPI[Head(backlog)]
             /\ \A i \in DOMAIN backlog' :
                  /\ backlog'[i] \in Clientes /\ backlog'[i] # Head(backlog)
                  /\ cliente[backlog'[i]] = "conectado" /\ ~finPI[backlog'[i]]
  <2>1. /\ 1 \in DOMAIN backlog /\ Head(backlog) = backlog[1]
        /\ \A i \in DOMAIN backlog' : i + 1 \in DOMAIN backlog
                                      /\ backlog'[i] = backlog[i + 1]
    BY <1>0, <1>6, Quitada DEF TypeOK
  <2>2. /\ Head(backlog) \in Clientes /\ estado[Head(backlog)] = "no"
        /\ \A i \in DOMAIN backlog' :
             backlog'[i] \in Clientes /\ backlog'[i] # Head(backlog)
    BY <1>6, SinCabeza DEF JInv
  <2> QED BY <1>0, <2>1, <2>2 DEF Esperan
<1>7. ASSUME NEW c \in Clientes, NEW t \in {"pid", "error"},
             haciaPI' = IF cliente[c] \in Vivos
                  THEN [haciaPI EXCEPT ![c] = Append(@, Mensaje(t, c))]
                  ELSE haciaPI
      PROVE  /\ \A q \in Clientes \ {c} : haciaPI'[q] = haciaPI[q]
             /\ \/ haciaPI'[c] = haciaPI[c]
                \/ \E m \in Mensajes : /\ m.pcb = c /\ m.tipo = t
                                       /\ haciaPI'[c] = Append(haciaPI[c], m)
  <2>1. /\ Mensaje(t, c) \in Mensajes /\ Mensaje(t, c).tipo = t
        /\ Mensaje(t, c).pcb = c
    BY DEF Mensaje, Mensajes
  <2> HIDE DEF Mensaje
  <2> QED BY <1>0, <1>7, <2>1 DEF TypeOK
<1>8. CASE Acepta
  <2>1. PICK c : c = Head(backlog)
    OBVIOUS
  <2>2. PICK f : f = MinFd(Libres)
    OBVIOUS
  <2>3. /\ c \in Clientes /\ estado[c] = "no" /\ cliente[c] = "conectado"
        /\ ~finPI[c] /\ haciaPI[c] = <<>>
    BY <1>6, <1>8, <2>1, EnEspera, Quitada DEF Acepta, JInv, IInv, TypeOK
  <2>4. f \in Fds /\ fd[f] = Nadie
    BY <2>2, <2>3, HayDescriptor DEF JInv, Libres
  <2>5. /\ \A q \in Clientes : /\ estado'[q] = IF q = c THEN "admitido" ELSE estado[q]
                               /\ pid'[q] = IF q = c THEN f ELSE pid[q]
        /\ \A g \in Fds : fd'[g] = IF g = f THEN c ELSE fd[g]
        /\ UNCHANGED <<cliente, finPI, caido>>
    BY <1>0, <1>8, <2>1, <2>2, <2>3, <2>4 DEF Acepta, TypeOK
  <2>6. /\ \A q \in Clientes \ {c} : haciaPI'[q] = haciaPI[q]
        /\ \/ haciaPI'[c] = haciaPI[c]
           \/ \E m \in Mensajes : /\ m.pcb = c /\ m.tipo = "pid"
                                  /\ haciaPI'[c] = Append(haciaPI[c], m)
    BY <1>7, <1>8, <2>1, <2>3 DEF Acepta
  <2>7. Suyo(c)' /\ ConCliente(c)'
    <3>1. \A i \in DOMAIN haciaPI'[c] :
            haciaPI'[c][i].pcb = c /\ haciaPI'[c][i].tipo = "pid"
      <4>1. CASE haciaPI'[c] = haciaPI[c]
        BY <2>3, <4>1
      <4>2. ASSUME NEW m \in Mensajes, m.pcb = c, m.tipo = "pid",
                   haciaPI'[c] = Append(haciaPI[c], m)
            PROVE  \A i \in DOMAIN haciaPI'[c] : haciaPI'[c][i] = m
        <5>1. haciaPI'[c] = <<m>>
          BY <2>3, <4>2
        <5> QED BY <5>1
      <4> QED BY <2>6, <4>1, <4>2
    <3> QED BY <2>3, <2>4, <2>5, <3>1 DEF Suyo, ConCliente, Vivos
  <2>8. ASSUME NEW q \in Clientes, q # c PROVE Suyo(q)' /\ ConCliente(q)'
    <3>1. estado[q] \in Atendidos => pid[q] \in Fds /\ fd[pid[q]] = q
      BY <1>n DEF JInv, IInv, Descriptores, Intactos, ConCliente
    <3>2. estado'[q] \in Atendidos => fd'[pid[q]] = fd[pid[q]]
      BY <2>4, <2>5, <2>8, <3>1, ServidorAssumption
    <3> QED BY <2>5, <2>6, <2>8, <3>2, IntactoPunto
  <2>9. Esperan'
    BY <1>0, <1>6, <1>8, <2>5 DEF Acepta, Esperan
  <2> QED BY <1>0, <2>5, <2>7, <2>8, <2>9 DEF Intactos
<1>9. CASE Rechaza
  <2>1. PICK c : c = Head(backlog)
    OBVIOUS
  <2>2. c \in Clientes /\ estado[c] = "no" /\ cliente[c] = "conectado"
    BY <1>6, <1>9, <2>1 DEF Rechaza
  <2>3. /\ \A q \in Clientes : finPI'[q] = IF q = c THEN TRUE ELSE finPI[q]
        /\ UNCHANGED <<cliente, fd, pid, estado, caido>>
    BY <1>0, <1>9, <2>1, <2>2 DEF Rechaza, TypeOK, tablas, pcbs
  <2>4. /\ \A q \in Clientes \ {c} : haciaPI'[q] = haciaPI[q]
        /\ \/ haciaPI'[c] = haciaPI[c]
           \/ \E m \in Mensajes : /\ m.pcb = c /\ m.tipo = "error"
                                  /\ haciaPI'[c] = Append(haciaPI[c], m)
    BY <1>7, <1>9, <2>1, <2>2 DEF Rechaza
  <2>5. estado'[c] \notin Atendidos
    BY <1>n, <2>2, <2>3
  <2>6. Suyo(c)' /\ ConCliente(c)'
    BY <2>2, <2>4, <2>5, IntactoPunto
  <2>7. \A q \in Clientes \ {c} : Suyo(q)' /\ ConCliente(q)'
    BY <2>3, <2>4, IntactoPunto
  <2>8. Esperan'
    BY <1>0, <1>6, <1>9, <2>1, <2>2, <2>3 DEF Rechaza, Esperan
  <2> QED BY <1>0, <2>3, <2>6, <2>7, <2>8 DEF Intactos
<1>10. ASSUME NEW f \in Fds, LeePrioridad(f) PROVE Intactos'
  <2>1. caido' = "no" /\ UNCHANGED <<estado, finPI>>
    BY <1>0, <1>10, Leido DEF LeePrioridad, Mensajero
  <2> QED BY <1>10, <2>1, Leido, IntactoLee DEF LeePrioridad
<1>11. ASSUME NEW f \in Fds, LeeCodigo(f) PROVE Intactos'
  <2>1. Mensajero(f) /\ UNCHANGED finPI
    BY <1>11 DEF LeeCodigo, Mensajero
  <2>2. /\ caido' = "no"
        /\ \A q \in Clientes : estado'[q] \in Atendidos => estado[q] \in Atendidos
    BY <1>11, LeeSuCodigo
  <2> QED BY <2>1, <2>2, Leido, IntactoLee
<1>12. ASSUME NEW f \in Fds, LeeReanudar(f) PROVE Intactos'
  <2>1. Mensajero(f) /\ UNCHANGED finPI /\ caido' = "no"
    BY <1>0, <1>12 DEF LeeReanudar, Mensajero
  <2>2. \A q \in Clientes : estado'[q] \in Atendidos => estado[q] \in Atendidos
    BY <1>12, Reanudado DEF Atendidos, EnSistema
  <2> QED BY <2>1, <2>2, Leido, IntactoLee
<1>13. ASSUME NEW f \in Fds, Cierra(f) PROVE Intactos'
  <2>1. /\ UNCHANGED <<cliente, backlog, haciaPI, finPI, pid, estado, caido>>
        /\ fd[f] # Nadie /\ cliente[fd[f]] \in Idos
    BY <1>13 DEF Cierra, conexiones, pcbs
  <2>2. \A g \in Fds : fd'[g] = IF g = f THEN Nadie ELSE fd[g]
    BY <1>0, <1>13 DEF Cierra, TypeOK
  <2>3. ASSUME NEW q \in Clientes, estado[q] \in Atendidos
        PROVE  fd'[pid[q]] = fd[pid[q]]
    <3>1. fd[pid[q]] = q /\ cliente[q] \in Vivos /\ pid[q] \in Fds
      BY <1>n, <2>3 DEF Intactos, ConCliente, JInv, IInv, Descriptores
    <3>2. pid[q] # f
      BY <2>1, <3>1 DEF Vivos, Idos
    <3> QED BY <2>2, <3>1, <3>2
  <2>4. \A q \in Clientes : Suyo(q)' /\ ConCliente(q)'
    BY <2>1, <2>3, IntactoPunto
  <2>5. Esperan'
    BY <1>0, <2>1 DEF Esperan
  <2> QED BY <1>0, <2>1, <2>4, <2>5 DEF Intactos
<1>14. ASSUME NEW p \in Clientes, Imprime(p) PROVE Intactos'
  BY <1>14, IntactoEnvia DEF Imprime, tablas, pcbs, Atendidos, EnSistema
<1>15. ASSUME NEW p \in Clientes, SuspendeEnvia(p) PROVE Intactos'
  <2>1. Pasa(p) /\ estado[p] \in Atendidos
    BY <1>15, Mueven DEF SuspendeEnvia, Atendidos, EnSistema
  <2> QED BY <1>15, <2>1, IntactoEnvia DEF SuspendeEnvia, Pasa, tablas
<1>16. ASSUME NEW p \in Clientes, Suspende(p) \/ Termina(p) PROVE Intactos'
  <2>1. Pasa(p) /\ estado[p] \in Atendidos
    BY <1>16, Mueven DEF Atendidos, EnSistema
  <2>2. UNCHANGED <<cliente, backlog, haciaPI, finPI, fd, pid, caido>>
    BY <1>16 DEF Suspende, Termina, conexiones, tablas
  <2> QED BY <2>1, <2>2, IntactoCalla
<1>17. CASE FinTabla
  <2>1. PICK p \in Clientes : Pasa(p) /\ estado[p] = "en_fin"
    BY <1>17, Mueven
  <2>2. UNCHANGED <<cliente, backlog, haciaPI, finPI, fd, pid, caido>>
    BY <1>17 DEF FinTabla, conexiones
  <2> QED BY <2>1, <2>2, IntactoCalla DEF Atendidos, EnSistema
<1>18. CASE FinMps
  <2>1. PICK p \in Clientes : estado[p] = "fin_tabla" /\ Cambia(p, "fin_mps")
    BY <1>18 DEF FinMps
  <2>2. Pasa(p) /\ estado[p] \in Atendidos
    BY <2>1, Movido DEF Estados, EnFinalizados, Atendidos
  <2>3. UNCHANGED <<cliente, backlog, haciaPI, finPI, fd, pid, caido>>
    BY <1>18 DEF FinMps, conexiones
  <2> QED BY <2>2, <2>3, IntactoCalla
<1>19. ASSUME NEW desde \in {"fin_mps", "fin_estado"},
              NEW hasta \in {"fin_estado", "fin_aviso"},
              NEW t \in {"0", "2"}, t = "2" => hasta = "fin_aviso",
              FinEnvia(desde, hasta, t)
       PROVE  Intactos'
  <2>1. PICK p \in Clientes : /\ estado[p] = desde /\ Cambia(p, hasta)
                              /\ Envia(pid[p], Mensaje(t, p))
    BY <1>19 DEF FinEnvia
  <2>2. Pasa(p) /\ estado'[p] = hasta /\ estado[p] \in Atendidos
    BY <2>1, Movido DEF Estados, EnFinalizados, Atendidos
  <2>3. t = "2" => estado'[p] \notin Atendidos
    BY <1>19, <2>2 DEF Atendidos, EnSistema
  <2>4. UNCHANGED <<cliente, backlog, finPI, fd, pid>>
    BY <1>19 DEF FinEnvia, tablas
  <2> QED BY <2>1, <2>2, <2>3, <2>4, IntactoEnvia DEF Pasa
<1>20. CASE FinEstado
  BY <1>19, <1>20 DEF FinEstado
<1>21. CASE FinAviso
  BY <1>19, <1>21 DEF FinAviso
<1>22. CASE FinShutdown
  <2>1. PICK p \in Clientes :
          /\ estado[p] = "fin_aviso" /\ Cambia(p, "liberado")
          /\ \/ finPI' = finPI
             \/ /\ finPI' = [finPI EXCEPT ![fd[pid[p]]] = TRUE]
                /\ cortes' = IF fd[pid[p]] = p THEN cortes ELSE cortes \cup {fd[pid[p]]}
    BY <1>22 DEF FinShutdown
  <2>2. Pasa(p) /\ estado'[p] = "liberado"
    BY <2>1, Movido DEF Estados
  <2>3. UNCHANGED <<cliente, backlog, haciaPI, fd, pid, caido>>
    BY <1>22 DEF FinShutdown, tablas
  <2>4. \A q \in Clientes \ {p} : finPI'[q] = finPI[q]
    BY <1>0, <2>1 DEF TypeOK
  <2>5. estado'[p] \notin Atendidos
    BY <2>2 DEF Atendidos, EnSistema
  <2>6. \A q \in Clientes : Suyo(q)' /\ ConCliente(q)'
    BY <2>2, <2>3, <2>4, <2>5, IntactoPunto DEF Pasa
  <2>7. Esperan'
    <3>1. cliente[p] # "afuera" /\ \A i \in DOMAIN backlog : backlog[i] # p
      BY <2>1, EnEspera DEF JInv, IInv, Afuera
    <3>2. \A i \in DOMAIN backlog : backlog[i] \in Clientes
      BY EnEspera
    <3> QED BY <1>0, <2>3, <2>4, <3>1, <3>2 DEF Esperan
  <2> QED BY <1>0, <2>3, <2>6, <2>7 DEF Intactos
<1>23. CASE UNCHANGED vars
  BY <1>0, <1>23, IntactoLee DEF vars, conexiones, tablas, pcbs
<1> QED BY <1>1, <1>2, <1>3, <1>5, <1>8, <1>9, <1>10, <1>11, <1>12, <1>13, <1>14,
           <1>15, <1>16, <1>17, <1>18, <1>20, <1>21, <1>22, <1>23
        DEF Next, Pi, Lts, Finalizados

\* Cuts are counted once and for all.
LEMMA CortesCrece == ASSUME [Next]_vars, cortes' = {} PROVE cortes = {}
BY DEF Next, Conecta, Pi, Recibe, RecibeFin, MandaPrioridad, MandaCodigo,
       MandaReanudar, Manda, Muere, Lts, Acepta, Rechaza, LeePrioridad, LeeCodigo,
       LeeReanudar, Mensajero, Cierra, Finalizados, FinTabla, FinMps, FinEstado,
       FinAviso, FinEnvia, FinShutdown, Imprime, Suspende, SuspendeEnvia, Termina,
       vars

\* Messages reach the clients they are about, and PP lives, while nothing was
\* cut; and what JInv says in any case.
THEOREM InvarianteIntacto == Spec => []KInv
<1>1. Init => KInv
  <2> SUFFICES ASSUME Init PROVE KInv
    OBVIOUS
  <2>1. Intactos
    BY DEF Init, Intactos, Esperan, Suyo, ConCliente, Atendidos, EnSistema
  <2> QED BY <2>1, MensajesInicial DEF KInv
<1>2. KInv /\ [Next]_vars => KInv'
  BY MensajesPaso, IntactoPaso, CortesCrece DEF KInv
<1> QED BY <1>1, <1>2, PTL DEF Spec

\* dictionary_get never answers NULL to the LTS, and PP does not die unless a
\* connection was cut.
THEOREM NuncaNulo == Spec => []SinNulo
<1>1. KInv => SinNulo
  BY DEF KInv, JInv, Intactos, SinNulo
<1> QED BY <1>1, InvarianteIntacto, PTL

\* While no connection was cut, every message is read by the client of the
\* process it is about.
THEOREM CadaUnoLoSuyo == Spec => []MensajesPropios
<1>1. KInv => MensajesPropios
  BY DEF KInv, Intactos, Suyo, MensajesPropios
<1> QED BY <1>1, InvarianteIntacto, PTL

\* While no connection was cut, no slot is held for a client that has left.
THEOREM CupoAtendido == Spec => []CupoConCliente
<1>1. KInv => CupoConCliente
  BY DEF KInv, Intactos, ConCliente, CupoConCliente, ConCupo, Atendidos, EnSistema,
         Vivos, Idos
<1> QED BY <1>1, InvarianteIntacto, PTL
=============================================================================
