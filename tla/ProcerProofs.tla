---------------------------- MODULE ProcerProofs ----------------------------
(***************************************************************************)
(* Theorems about Procer, proved for every value of the constants: its     *)
(* types, IInv (an invariant when no program ends in an I/O) and what      *)
(* follows from it, and that Procer implements CicloDeVida.                *)
(***************************************************************************)
EXTENDS ProcerCiclo, TLAPS, FiniteSetTheorems

-----------------------------------------------------------------------------
(* Types.                                                                    *)

TInv == TypeOK /\ CpuConPcb

\* A push by a thread that holds p keeps queues and groups well typed.
LEMMA EncolaTipo ==
  ASSUME TypeOK, NEW p \in Procesos, NEW g \in Grupos, NEW q \in Colas,
         Encola(p, g, q)
  PROVE  /\ cola' \in [Colas -> Seq(Procesos)]
         /\ grupo' \in [Grupos -> SUBSET Procesos]
<1>1. Append(cola[q], p) \in Seq(Procesos)
  BY DEF TypeOK
<1>2. grupo[g] \ {p} \in SUBSET Procesos
  BY DEF TypeOK
<1> QED BY <1>1, <1>2 DEF TypeOK, Encola

\* So does a pop.
LEMMA DesencolaTipo ==
  ASSUME TypeOK, NEW g \in Grupos, NEW q \in Colas, Desencola(q, g)
  PROVE  /\ cola' \in [Colas -> Seq(Procesos)]
         /\ grupo' \in [Grupos -> SUBSET Procesos]
         /\ Head(cola[q]) \in Procesos
<1>1. cola[q] \in Seq(Procesos) /\ cola[q] # <<>>
  BY DEF TypeOK, Desencola
<1>2. Tail(cola[q]) \in Seq(Procesos) /\ Head(cola[q]) \in Procesos
  BY <1>1
<1>3. grupo[g] \cup {Head(cola[q])} \in SUBSET Procesos
  BY <1>2 DEF TypeOK
<1> QED BY <1>2, <1>3 DEF TypeOK, Desencola

\* So does a move between groups.
LEMMA PasaTipo ==
  ASSUME TypeOK, NEW p \in Procesos, NEW g \in Grupos, NEW h \in Grupos,
         Pasa(p, g, h)
  PROVE  /\ cola' \in [Colas -> Seq(Procesos)]
         /\ grupo' \in [Grupos -> SUBSET Procesos]
BY DEF TypeOK, Pasa

\* One step of any thread keeps the types.
LEMMA PasoTipo ==
  ASSUME TInv, [Next]_vars
  PROVE  TInv'
<1> USE DEF TInv, CpuConPcb
<1>t. TypeOK /\ CpuConPcb
  OBVIOUS
<1>1. CASE UNCHANGED vars
  BY <1>1 DEF TypeOK, vars, semaforos, pcbs, configuracion
<1>2. ASSUME NEW p \in Procesos, Lts(p) PROVE TInv'
  <2>g. {"afuera", "rechazado", "aceptado", "con_prioridad", "suspendidos"} \subseteq Grupos
    BY DEF Grupos
  <2>q. {"pendientes_nuevos", "pendientes_reanudar"} \subseteq Colas
    BY DEF Colas
  <2>1. CASE LtsAcepta(p)
    BY <2>1, <2>g, PasaTipo DEF LtsAcepta, TypeOK, configuracion
  <2>2. CASE LtsRechaza(p)
    BY <2>2, <2>g, PasaTipo DEF LtsRechaza, TypeOK, semaforos, pcbs, configuracion
  <2>3. CASE LtsPrioridad(p)
    BY <2>3, <2>g, PasaTipo DEF LtsPrioridad, TypeOK, semaforos, pcbs, configuracion
  <2>4. CASE LtsCodigo(p)
    <3>1. codigo' \in [Procesos -> Seq(Efectos)]
      BY <2>4, ProgramasAssumption DEF LtsCodigo, TypeOK
    <3> QED BY <2>4, <3>1, <2>g, <2>q, EncolaTipo
            DEF LtsCodigo, TypeOK, semaforos, configuracion
  <2>5. CASE LtsReanuda(p)
    <3>1. /\ cola' \in [Colas -> Seq(Procesos)]
          /\ grupo' \in [Grupos -> SUBSET Procesos]
      BY <2>5, <2>g, <2>q, EncolaTipo DEF LtsReanuda, TypeOK
    <3> QED BY <2>5, <3>1 DEF LtsReanuda, TypeOK, semaforos, pcbs, configuracion
  <2> QED BY <1>2, <2>1, <2>2, <2>3, <2>4, <2>5 DEF Lts
<1>3. ASSUME NEW p \in Procesos, EjecutarIo(p) PROVE TInv'
  <2>g. {"ios", "ios_post"} \subseteq Grupos /\ "fin_bloqueados" \in Colas
    BY DEF Grupos, Colas
  <2>1. CASE IoTermina(p)
    BY <2>1, <2>g, PasaTipo DEF IoTermina, TypeOK, pcbs, configuracion
  <2>2. CASE IoDevuelve(p)
    BY <2>2, <2>g, EncolaTipo DEF IoDevuelve, TypeOK, semaforos, pcbs, configuracion
  <2> QED BY <1>3, <2>1, <2>2 DEF EjecutarIo
<1>4. ASSUME NEW q \in Colas, NEW m \in Grupos, NEW n \in Grupos,
             PendientesSaca(q, m, n)
      PROVE  TInv'
  BY <1>4, DesencolaTipo DEF PendientesSaca, TypeOK, semaforos, pcbs, configuracion
<1>5. ASSUME NEW m \in Grupos, NEW n \in Grupos, PendientesEspera(m, n)
      PROVE  TInv'
  BY <1>5, PasaTipo DEF PendientesEspera, TypeOK, pcbs, configuracion
<1>6. ASSUME NEW q \in Colas, NEW n \in Grupos, PendientesEncola(n, q)
      PROVE  TInv'
  BY <1>6, EncolaTipo DEF PendientesEncola, TypeOK, semaforos, pcbs, configuracion
<1>7. CASE PendientesNuevos \/ PendientesReanudar
  <2>g. {"pn", "pn_mmp", "pr", "pr_mmp"} \subseteq Grupos
    BY DEF Grupos
  <2>q. {"pendientes_nuevos", "nuevos", "pendientes_reanudar", "reanudar"} \subseteq Colas
    BY DEF Colas
  <2> QED BY <1>4, <1>5, <1>6, <1>7, <2>g, <2>q DEF PendientesNuevos, PendientesReanudar
<1>8. CASE Sts
  <2>g. {"sts", "listos"} \subseteq Grupos /\ ColasSts \subseteq Colas
    BY DEF Grupos, Colas, ColasSts
  <2>1. CASE StsSaca
    BY <2>1, <2>g, DesencolaTipo DEF StsSaca, TypeOK, semaforos, pcbs, configuracion
  <2>2. CASE StsInserta
    BY <2>2, <2>g, PasaTipo DEF StsInserta, TypeOK, semaforos, pcbs, configuracion
  <2> QED BY <1>8, <2>1, <2>2 DEF Sts
<1>9. CASE HiloProcer
  <2>g. {"cpu", "listos", "suspendidos"} \subseteq Grupos
    BY DEF Grupos
  <2>q. {"bloqueados", "io", "fin_programa", "fin_quantum"} \subseteq Colas
    BY DEF Colas
  <2>c. /\ cpu = [fase |-> cpu.fase, pcb |-> cpu.pcb, sigue |-> cpu.sigue,
                  rafaga |-> cpu.rafaga]
        /\ cpu.fase \in FasesCpu /\ cpu.sigue \in BOOLEAN /\ cpu.rafaga \in Nat
    BY DEF TypeOK
  <2>1. CASE ProcerToma
    <3>1. /\ cpu' \in [fase : FasesCpu, pcb : Procesos \cup {Nadie},
                     sigue : BOOLEAN, rafaga : Nat]
          /\ CpuConPcb'
      BY <2>1, <2>g DEF ProcerToma, TypeOK, FasesCpu
    <3>2. /\ cola' \in [Colas -> Seq(Procesos)]
          /\ grupo' \in [Grupos -> SUBSET Procesos]
      BY <2>1, <2>g, PasaTipo DEF ProcerToma, TypeOK
    <3> QED BY <2>1, <3>1, <3>2 DEF ProcerToma, TypeOK, semaforos, pcbs, configuracion
  <2>2. CASE EjecutaCpu
    BY <2>2 DEF EjecutaCpu, TypeOK, FasesCpu, semaforos, pcbs, configuracion
  <2>3. CASE EjecutaIo
    BY <2>3, <2>g, <2>q, EncolaTipo DEF EjecutaIo, TypeOK, FasesCpu, semaforos, pcbs, configuracion
  <2>4. CASE EjecutaIoNoBloqueante
    <3>1. /\ cpu' \in [fase : FasesCpu, pcb : Procesos \cup {Nadie},
                     sigue : BOOLEAN, rafaga : Nat]
          /\ CpuConPcb'
      BY <2>4 DEF EjecutaIoNoBloqueante, TypeOK, FasesCpu
    <3> QED BY <2>4, <3>1 DEF EjecutaIoNoBloqueante, TypeOK, pcbs, configuracion
  <2>5. CASE EncolaIoNoBloqueante
    BY <2>5, <2>g, <2>q, EncolaTipo DEF EncolaIoNoBloqueante, TypeOK, FasesCpu, semaforos, pcbs, configuracion
  <2>6. CASE FallaIoNoBloqueante
    BY <2>6 DEF FallaIoNoBloqueante, TypeOK, FasesCpu, semaforos, pcbs, configuracion
  <2>7. CASE Avanza
    <3>1. cpu.pcb \in Procesos
      BY <2>7 DEF Avanza
    <3>2. program_counter' \in [Procesos -> Nat]
      BY <2>7, <3>1 DEF Avanza, TypeOK
    <3>3. /\ cola' \in [Colas -> Seq(Procesos)]
          /\ grupo' \in [Grupos -> SUBSET Procesos]
      BY <2>7, <3>1, <2>g, <2>q, EncolaTipo DEF Avanza, TypeOK
    <3>4. cpu' \in [fase : FasesCpu, pcb : Procesos \cup {Nadie}, sigue : BOOLEAN,
                    rafaga : Nat] /\ cpu'.pcb \in Procesos
      BY <2>7, <3>1 DEF Avanza, TypeOK, FasesCpu
    <3> QED BY <2>7, <3>2, <3>3, <3>4 DEF Avanza, TypeOK, semaforos, configuracion
  <2>8. CASE FinMmp
    <3>1. /\ cpu' \in [fase : FasesCpu, pcb : Procesos \cup {Nadie},
                     sigue : BOOLEAN, rafaga : Nat]
          /\ CpuConPcb'
      BY <2>8 DEF FinMmp, TypeOK, FasesCpu
    <3> QED BY <2>8, <3>1 DEF FinMmp, TypeOK, pcbs, configuracion
  <2>9. CASE DecideSuspender
    BY <2>9, <2>g, PasaTipo DEF DecideSuspender, TypeOK, FasesCpu, semaforos, pcbs, configuracion
  <2>10. CASE DecideFinQuantum
    BY <2>10, <2>g, <2>q, EncolaTipo DEF DecideFinQuantum, TypeOK, FasesCpu, semaforos, pcbs, configuracion
  <2>11. CASE DecideSeguir
    BY <2>11 DEF DecideSeguir, TypeOK, FasesCpu, semaforos, pcbs, configuracion
  <2>12. CASE SuspenderMmp
    <3>1. /\ cpu' \in [fase : FasesCpu, pcb : Procesos \cup {Nadie},
                     sigue : BOOLEAN, rafaga : Nat]
          /\ CpuConPcb'
      BY <2>12 DEF SuspenderMmp, TypeOK, FasesCpu
    <3> QED BY <2>12, <3>1 DEF SuspenderMmp, TypeOK, pcbs, configuracion
  <2>13. CASE SuspenderEnvia
    <3>1. /\ cpu' \in [fase : FasesCpu, pcb : Procesos \cup {Nadie},
                     sigue : BOOLEAN, rafaga : Nat]
          /\ CpuConPcb'
      BY <2>13 DEF SuspenderEnvia, TypeOK, FasesCpu
    <3>2. avisos' \in [Procesos -> Nat]
      BY <2>13 DEF SuspenderEnvia, TypeOK
    <3> QED BY <2>13, <3>1, <3>2 DEF SuspenderEnvia, TypeOK, semaforos, pcbs, configuracion
  <2>14. CASE SuspenderLimpia
    BY <2>14 DEF SuspenderLimpia, TypeOK, FasesCpu, semaforos, pcbs, configuracion
  <2>15. CASE Cuenta
    <3>1. CASE cpu.sigue
      <4>1. /\ cpu' \in [fase : FasesCpu, pcb : Procesos \cup {Nadie},
                       sigue : BOOLEAN, rafaga : Nat]
            /\ CpuConPcb'
        <5>1. cpu' = [cpu EXCEPT !.fase = "ejecuta", !.rafaga = @ + 1]
              /\ cpu.fase = "cuenta"
          BY <2>15, <3>1 DEF Cuenta
        <5>2. cpu.pcb \in Procesos
          BY <5>1
        <5>3. /\ cpu'.fase = "ejecuta" /\ cpu'.pcb = cpu.pcb
              /\ cpu' = [fase |-> "ejecuta", pcb |-> cpu.pcb,
                         sigue |-> cpu.sigue, rafaga |-> cpu.rafaga + 1]
          BY <5>1, <2>c
        <5> QED BY <2>c, <5>2, <5>3 DEF FasesCpu
      <4> QED BY <2>15, <4>1 DEF Cuenta, TypeOK, semaforos, pcbs, configuracion
    <3>2. CASE ~cpu.sigue
      BY <2>15, <3>2 DEF Cuenta, TypeOK, FasesCpu, semaforos, pcbs, configuracion
    <3> QED BY <3>1, <3>2
  <2> QED BY <1>9, <2>1, <2>2, <2>3, <2>4, <2>5, <2>6, <2>7, <2>8, <2>9, <2>10,
             <2>11, <2>12, <2>13, <2>14, <2>15 DEF HiloProcer
<1>10. CASE BloqueadosAIo \/ LanzarIos
  <2>g. {"bio", "bio_iot", "ios"} \subseteq Grupos /\ {"bloqueados", "io"} \subseteq Colas
    BY DEF Grupos, Colas
  <2>1. CASE BloqueadosSaca
    BY <2>1, <2>g, DesencolaTipo DEF BloqueadosSaca, TypeOK, semaforos, pcbs, configuracion
  <2>2. CASE BloqueadosEspera
    BY <2>2, <2>g, PasaTipo DEF BloqueadosEspera, TypeOK, pcbs, configuracion
  <2>3. CASE BloqueadosEncola
    BY <2>3, <2>g, EncolaTipo DEF BloqueadosEncola, TypeOK, semaforos, pcbs, configuracion
  <2>4. CASE LanzarIos
    BY <2>4, <2>g, DesencolaTipo DEF LanzarIos, TypeOK, semaforos, pcbs, configuracion
  <2> QED BY <1>10, <2>1, <2>2, <2>3, <2>4 DEF BloqueadosAIo
<1>11. CASE Finalizados
  <2>g. {"fin", "fin_tabla", "fin_mps", "fin_avisado", "terminado"} \subseteq Grupos
        /\ "fin_programa" \in Colas
    BY DEF Grupos, Colas
  <2>1. CASE FinSaca
    BY <2>1, <2>g, DesencolaTipo DEF FinSaca, TypeOK, semaforos, pcbs, configuracion
  <2>2. CASE FinTabla
    BY <2>2, <2>g, PasaTipo DEF FinTabla, TypeOK, semaforos, configuracion
  <2>3. CASE FinMps
    BY <2>3, <2>g, PasaTipo DEF FinMps, TypeOK, pcbs, configuracion
  <2>4. CASE FinAvisa
    BY <2>4, <2>g, PasaTipo DEF FinAvisa, TypeOK, semaforos, pcbs, configuracion
  <2>5. CASE FinDestruye
    BY <2>5, <2>g, PasaTipo DEF FinDestruye, TypeOK, semaforos, pcbs, configuracion
  <2> QED BY <1>11, <2>1, <2>2, <2>3, <2>4, <2>5 DEF Finalizados
<1>12. CASE Senal
  BY <1>12 DEF Senal, TypeOK, semaforos, pcbs, configuracion
<1>13. CASE RecargaInicia \/ RecargaAsigna
  <2>1. quantum' \in Nat /\ recargando' \in BOOLEAN
    <3>1. CASE RecargaInicia
      BY <3>1 DEF RecargaInicia
    <3>2. CASE RecargaAsigna
      <4>1. quantum' \in Nat
        BY <3>2, CuantosAssumption DEF RecargaAsigna
      <4>2. recargando' \in BOOLEAN
        BY <3>2 DEF RecargaAsigna
      <4> QED BY <4>1, <4>2
    <3> QED BY <1>13, <3>1, <3>2
  <2> QED BY <1>13, <2>1 DEF RecargaInicia, RecargaAsigna, TypeOK, semaforos, pcbs
<1>14. CASE Reposo
  BY <1>14, <1>1 DEF Reposo
<1> QED BY <1>1, <1>2, <1>3, <1>7, <1>8, <1>9, <1>10, <1>11, <1>12, <1>13, <1>14 DEF Next

\* Every variable keeps its type, whatever programs are run.
THEOREM TipoCorrecto == Spec => []TypeOK
<1>1. Init => TInv
  <2> SUFFICES ASSUME Init PROVE TInv
    OBVIOUS
  <2>1. cpu \in [fase : FasesCpu, pcb : Procesos \cup {Nadie}, sigue : BOOLEAN,
                 rafaga : Nat] /\ CpuConPcb
    BY DEF Init, FasesCpu, CpuConPcb
  <2>2. /\ cola \in [Colas -> Seq(Procesos)]
        /\ grupo \in [Grupos -> SUBSET Procesos]
        /\ codigo \in [Procesos -> Seq(Efectos)]
    BY DEF Init
  <2> QED BY <2>1, <2>2, CuposAssumption, CuantosAssumption DEF Init, TInv, TypeOK
<1>2. TInv /\ [Next]_vars => TInv'
  BY PasoTipo
<1>3. TInv => TypeOK
  BY DEF TInv
<1> QED BY <1>1, <1>2, <1>3, PTL DEF Spec

-----------------------------------------------------------------------------
(* The quantum.                                                              *)

\* The burst is below the quantum at every instruction, and stays so when
\* procer goes on with the same process.
QInv ==
  /\ TypeOK /\ RafagaAcotada
  /\ quantum = Q_EXP /\ ~recargando
  /\ cpu.fase = "cuenta" /\ cpu.sigue /\ Q_EXP > 0 => cpu.rafaga + 1 < Q_EXP

\* With no reload, no dispatch runs more instructions than the quantum, and
\* neither signals, I/O nor the comparison before the increment matter.
THEOREM Rafaga == CuantosRecarga = {} => (Spec => []RafagaAcotada)
<1> SUFFICES ASSUME CuantosRecarga = {} PROVE Spec => []RafagaAcotada
  OBVIOUS
<1>1. Init => RafagaAcotada /\ quantum = Q_EXP /\ ~recargando /\ cpu.fase = "espera"
  BY CuantosAssumption DEF Init, RafagaAcotada
<1>2. TypeOK /\ QInv /\ TypeOK' /\ [Next]_vars => QInv'
  <2> SUFFICES ASSUME TypeOK, QInv, TypeOK', [Next]_vars PROVE QInv'
    OBVIOUS
  <2> USE DEF QInv
  <2>t. Q_EXP \in Nat /\ cpu.rafaga \in Nat
    BY CuantosAssumption DEF TypeOK
  <2>1. ASSUME UNCHANGED <<cpu, configuracion>> PROVE QInv'
    BY <2>1 DEF RafagaAcotada, configuracion
  <2>2. ASSUME NEW p \in Procesos, Lts(p) \/ EjecutarIo(p) PROVE QInv'
    BY <2>1, <2>2 DEF Lts, EjecutarIo, LtsAcepta, LtsRechaza, LtsPrioridad,
         LtsCodigo, LtsReanuda, IoTermina, IoDevuelve
  <2>3. CASE PendientesNuevos \/ PendientesReanudar \/ Sts
    BY <2>1, <2>3 DEF PendientesNuevos, PendientesReanudar, PendientesSaca,
         PendientesEspera, PendientesEncola, Sts, StsSaca, StsInserta
  <2>4. CASE BloqueadosAIo \/ LanzarIos \/ Finalizados
    BY <2>1, <2>4 DEF BloqueadosAIo, BloqueadosSaca, BloqueadosEspera,
         BloqueadosEncola, LanzarIos, Finalizados, FinSaca, FinTabla, FinMps,
         FinAvisa, FinDestruye
  <2>5. CASE Senal \/ Reposo \/ UNCHANGED vars
    BY <2>1, <2>5 DEF Senal, Reposo, vars
  <2>6. CASE RecargaInicia \/ RecargaAsigna
    BY <2>6 DEF RecargaInicia, RecargaAsigna
  <2>7. CASE HiloProcer
    <3>1. quantum' = quantum /\ recargando' = recargando
      BY <2>7 DEF HiloProcer, ProcerToma, EjecutaCpu, EjecutaIo,
           EjecutaIoNoBloqueante, EncolaIoNoBloqueante, FallaIoNoBloqueante,
           Avanza, FinMmp, DecideSuspender, DecideFinQuantum, DecideSeguir,
           SuspenderMmp, SuspenderEnvia, SuspenderLimpia, Cuenta, configuracion
    <3>2. CASE ProcerToma
      <4>1. cpu'.fase = "ejecuta" /\ cpu'.rafaga = 0
        BY <3>2 DEF ProcerToma
      <4> QED BY <2>t, <3>1, <4>1 DEF RafagaAcotada
    <3>3. CASE Cuenta
      <4>1. CASE cpu.sigue
        <5>1. cpu'.fase = "ejecuta" /\ cpu'.rafaga = cpu.rafaga + 1
          BY <3>3, <4>1 DEF Cuenta, TypeOK
        <5>2. Q_EXP > 0 => cpu.rafaga + 1 < Q_EXP
          BY <3>3, <4>1 DEF Cuenta
        <5> QED BY <2>t, <3>1, <5>1, <5>2 DEF RafagaAcotada
      <4>2. CASE ~cpu.sigue
        <5>1. cpu'.fase = "espera" /\ cpu'.rafaga = 0
          BY <3>3, <4>2 DEF Cuenta
        <5> QED BY <2>t, <3>1, <5>1 DEF RafagaAcotada
      <4> QED BY <4>1, <4>2
    <3>4. CASE DecideSeguir
      <4>1. cpu'.rafaga = cpu.rafaga /\ cpu'.sigue = cpu.sigue
        BY <3>4 DEF DecideSeguir, TypeOK
      <4>2. cpu.sigue => ~FinDeQuantum
        BY <3>4 DEF DecideSeguir
      <4>3. cpu.sigue /\ Q_EXP > 0 => cpu.rafaga + 1 < Q_EXP
        BY <2>t, <4>2 DEF FinDeQuantum
      <4> QED BY <3>1, <4>1, <4>3 DEF RafagaAcotada
    <3>5. CASE DecideFinQuantum \/ SuspenderLimpia
      <4>1. cpu'.rafaga = cpu.rafaga /\ ~cpu'.sigue
        BY <3>5 DEF DecideFinQuantum, SuspenderLimpia, TypeOK
      <4> QED BY <3>1, <4>1 DEF RafagaAcotada
    <3>6. CASE \/ EjecutaCpu \/ EjecutaIo \/ EjecutaIoNoBloqueante
               \/ EncolaIoNoBloqueante \/ FallaIoNoBloqueante \/ Avanza
               \/ FinMmp \/ DecideSuspender \/ SuspenderMmp \/ SuspenderEnvia
      <4>1. cpu'.rafaga = cpu.rafaga /\ cpu'.fase # "cuenta"
        <5>r. cpu = [fase |-> cpu.fase, pcb |-> cpu.pcb, sigue |-> cpu.sigue,
                     rafaga |-> cpu.rafaga]
          BY DEF TypeOK
        <5>1. CASE EjecutaCpu \/ EjecutaIo \/ EjecutaIoNoBloqueante
          BY <5>r, <5>1 DEF EjecutaCpu, EjecutaIo, EjecutaIoNoBloqueante
        <5>2. CASE EncolaIoNoBloqueante \/ FallaIoNoBloqueante \/ FinMmp
          BY <5>r, <5>2 DEF EncolaIoNoBloqueante, FallaIoNoBloqueante, FinMmp
        <5>3. CASE DecideSuspender \/ SuspenderMmp \/ SuspenderEnvia
          BY <5>r, <5>3 DEF DecideSuspender, SuspenderMmp, SuspenderEnvia
        <5>4. CASE Avanza
          BY <5>r, <5>4 DEF Avanza
        <5> QED BY <3>6, <5>1, <5>2, <5>3, <5>4
      <4> QED BY <3>1, <4>1 DEF RafagaAcotada
    <3> QED BY <2>7, <3>2, <3>3, <3>4, <3>5, <3>6 DEF HiloProcer
  <2> QED BY <2>2, <2>3, <2>4, <2>5, <2>6, <2>7 DEF Next
<1>3. TypeOK /\ RafagaAcotada /\ quantum = Q_EXP /\ ~recargando /\ cpu.fase = "espera" => QInv
  BY DEF QInv
<1>4. QInv => RafagaAcotada
  BY DEF QInv
<1>5. Spec => []TypeOK
  BY TipoCorrecto
<1> QED BY <1>1, <1>2, <1>3, <1>4, <1>5, PTL DEF Spec

-----------------------------------------------------------------------------
(* IInv is an invariant of Procer when no program ends in an I/O.            *)

-----------------------------------------------------------------------------
(* Queues as sequences.                                                      *)

Inyectiva(s) == \A i, j \in DOMAIN s : s[i] = s[j] => i = j

\* A push adds its element to what the queue holds, and repeats nothing new.
LEMMA RangoAppend ==
  ASSUME NEW S, NEW s \in Seq(S), NEW e \in S
  PROVE  /\ Rango(Append(s, e)) = Rango(s) \cup {e}
         /\ Inyectiva(s) /\ e \notin Rango(s) => Inyectiva(Append(s, e))
<1>1. /\ Len(Append(s, e)) = Len(s) + 1
      /\ DOMAIN s = 1 .. Len(s) /\ DOMAIN Append(s, e) = 1 .. (Len(s) + 1)
      /\ \A i \in 1 .. Len(s) : Append(s, e)[i] = s[i]
      /\ Append(s, e)[Len(s) + 1] = e
      /\ Len(s) \in Nat
  OBVIOUS
<1>2. Rango(Append(s, e)) = Rango(s) \cup {e}
  <2>1. ASSUME NEW x \in Rango(s) \cup {e} PROVE x \in Rango(Append(s, e))
    BY <1>1 DEF Rango
  <2>2. ASSUME NEW x \in Rango(Append(s, e)) PROVE x \in Rango(s) \cup {e}
    <3>1. PICK i \in 1 .. (Len(s) + 1) : x = Append(s, e)[i]
      BY <1>1 DEF Rango
    <3>2. i \in 1 .. Len(s) \/ i = Len(s) + 1
      BY <1>1
    <3> QED BY <1>1, <3>1, <3>2 DEF Rango
  <2> QED BY <2>1, <2>2
<1>3. ASSUME Inyectiva(s), e \notin Rango(s),
             NEW i \in 1 .. (Len(s) + 1), NEW j \in 1 .. (Len(s) + 1),
             Append(s, e)[i] = Append(s, e)[j]
      PROVE  i = j
  <2>1. CASE i \in 1 .. Len(s) /\ j \in 1 .. Len(s)
    BY <1>1, <1>3, <2>1 DEF Inyectiva
  <2>2. CASE i = Len(s) + 1 /\ j \in 1 .. Len(s)
    BY <1>1, <1>3, <2>2 DEF Rango
  <2>3. CASE i \in 1 .. Len(s) /\ j = Len(s) + 1
    BY <1>1, <1>3, <2>3 DEF Rango
  <2>4. CASE i = Len(s) + 1 /\ j = Len(s) + 1
    BY <2>4
  <2> QED BY <1>1, <2>1, <2>2, <2>3, <2>4
<1> QED BY <1>1, <1>2, <1>3 DEF Inyectiva

\* A pop takes its element, and it was there once.
LEMMA RangoTail ==
  ASSUME NEW S, NEW s \in Seq(S), s # <<>>, Inyectiva(s)
  PROVE  /\ Head(s) \in Rango(s)
         /\ Rango(Tail(s)) = Rango(s) \ {Head(s)}
         /\ Inyectiva(Tail(s))
<1>1. /\ Len(s) \in Nat \ {0} /\ Head(s) = s[1]
      /\ DOMAIN s = 1 .. Len(s) /\ DOMAIN Tail(s) = 1 .. (Len(s) - 1)
      /\ \A i \in 1 .. (Len(s) - 1) : Tail(s)[i] = s[i + 1]
  OBVIOUS
<1>2. Head(s) \in Rango(s)
  BY <1>1 DEF Rango
<1>3. ASSUME NEW x \in Rango(Tail(s)) PROVE x \in Rango(s) \ {Head(s)}
  <2>1. PICK i \in 1 .. (Len(s) - 1) : x = Tail(s)[i]
    BY <1>1 DEF Rango
  <2>2. i + 1 \in 1 .. Len(s) /\ i + 1 # 1 /\ 1 \in 1 .. Len(s) /\ x = s[i + 1]
    BY <1>1, <2>1
  <2> QED BY <1>1, <2>2 DEF Rango, Inyectiva
<1>4. ASSUME NEW x \in Rango(s) \ {Head(s)} PROVE x \in Rango(Tail(s))
  <2>1. PICK i \in 1 .. Len(s) : x = s[i]
    BY <1>1 DEF Rango
  <2>2. i - 1 \in 1 .. (Len(s) - 1) /\ Tail(s)[i - 1] = x
    BY <1>1, <1>4, <2>1
  <2> QED BY <1>1, <2>2 DEF Rango
<1>5. ASSUME NEW i \in 1 .. (Len(s) - 1), NEW j \in 1 .. (Len(s) - 1),
             Tail(s)[i] = Tail(s)[j]
      PROVE  i = j
  <2>1. i + 1 \in 1 .. Len(s) /\ j + 1 \in 1 .. Len(s) /\ s[i + 1] = s[j + 1]
    BY <1>1, <1>5
  <2>2. i + 1 = j + 1
    BY <1>1, <2>1 DEF Inyectiva
  <2> QED BY <2>2
<1> QED BY <1>1, <1>2, <1>3, <1>4, <1>5 DEF Inyectiva

-----------------------------------------------------------------------------
(* Moves: in terms of what every place holds.                                *)

\* A place is a queue or a group, never both.
LEMMA ColasOGrupos == Colas \cap Grupos = {}
BY DEF Colas, Grupos

\* p goes from place l to place m and no other place changes.
Traslado(p, l, m) ==
  /\ l \in Lugares /\ m \in Lugares /\ l # m
  /\ p \in Procesos /\ En(p, l)
  /\ \A k \in Lugares :
       Contenido(k)' = IF k = m THEN Contenido(k) \cup {p}
                       ELSE IF k = l THEN Contenido(k) \ {p}
                       ELSE Contenido(k)
  /\ \A q \in Colas : Inyectiva(cola'[q])

\* What a place holds are processes.
LEMMA ContenidoTipo ==
  ASSUME TypeOK, NEW l \in Lugares
  PROVE  Contenido(l) \subseteq Procesos
<1>1. CASE l \in Colas
  <2>1. cola[l] \in Seq(Procesos)
    BY <1>1 DEF TypeOK
  <2> QED BY <1>1, <2>1 DEF Contenido, Rango
<1>2. CASE l \notin Colas
  BY <1>2 DEF Contenido, Lugares, TypeOK
<1> QED BY <1>1, <1>2

\* Pasa is a move.
LEMMA PasaTraslada ==
  ASSUME TypeOK, UnSoloLugar, NEW p, NEW g \in Grupos, NEW h \in Grupos,
         g # h, p \in grupo[g], Pasa(p, g, h)
  PROVE  Traslado(p, g, h)
<1>1. g \notin Colas /\ h \notin Colas /\ g \in Lugares /\ h \in Lugares
  BY ColasOGrupos DEF Lugares
<1>2. p \in Procesos /\ En(p, g)
  BY <1>1 DEF TypeOK, En, Contenido
<1>3. ASSUME NEW k \in Lugares
      PROVE  Contenido(k)' = IF k = h THEN Contenido(k) \cup {p}
                             ELSE IF k = g THEN Contenido(k) \ {p}
                             ELSE Contenido(k)
  BY <1>1, ColasOGrupos DEF Pasa, Contenido, Lugares, TypeOK
<1> QED BY <1>1, <1>2, <1>3 DEF Traslado, Pasa, UnSoloLugar, Inyectiva

\* Encola is a move.
LEMMA EncolaTraslada ==
  ASSUME TypeOK, UnSoloLugar, NEW p, NEW g \in Grupos, NEW q \in Colas,
         p \in grupo[g], Encola(p, g, q)
  PROVE  Traslado(p, g, q)
<1>1. g \notin Colas /\ g # q /\ g \in Lugares /\ q \in Lugares
  BY ColasOGrupos DEF Lugares
<1>2. p \in Procesos /\ En(p, g) /\ cola[q] \in Seq(Procesos)
  BY <1>1 DEF TypeOK, En, Contenido
<1>3. p \notin Rango(cola[q]) /\ Inyectiva(cola[q])
  BY <1>1, <1>2 DEF UnSoloLugar, En, Contenido, Inyectiva
<1>4. cola'[q] = Append(cola[q], p) /\ \A k \in Colas \ {q} : cola'[k] = cola[k]
  BY DEF Encola, TypeOK
<1>5. /\ Rango(cola'[q]) = Rango(cola[q]) \cup {p}
      /\ \A k \in Colas : Inyectiva(cola'[k])
  <2>1. Inyectiva(cola'[q]) /\ Rango(cola'[q]) = Rango(cola[q]) \cup {p}
    BY <1>2, <1>3, <1>4, RangoAppend
  <2> QED BY <1>4, <2>1 DEF UnSoloLugar, Inyectiva
<1>6. ASSUME NEW k \in Lugares
      PROVE  Contenido(k)' = IF k = q THEN Contenido(k) \cup {p}
                             ELSE IF k = g THEN Contenido(k) \ {p}
                             ELSE Contenido(k)
  <2>1. CASE k \in Colas
    BY <1>1, <1>4, <1>5, <2>1 DEF Contenido
  <2>2. CASE k \in Grupos
    BY <1>1, <2>2, ColasOGrupos DEF Contenido, Encola, TypeOK
  <2> QED BY <2>1, <2>2 DEF Lugares
<1> QED BY <1>1, <1>2, <1>5, <1>6 DEF Traslado

\* Desencola is a move of the head of the queue.
LEMMA DesencolaTraslada ==
  ASSUME TypeOK, UnSoloLugar, NEW g \in Grupos, NEW q \in Colas,
         Desencola(q, g)
  PROVE  Traslado(Head(cola[q]), q, g)
<1> DEFINE p == Head(cola[q])
<1>1. g \notin Colas /\ g # q /\ g \in Lugares /\ q \in Lugares
  BY ColasOGrupos DEF Lugares
<1>2. /\ cola[q] \in Seq(Procesos) /\ cola[q] # <<>> /\ Inyectiva(cola[q])
      /\ p \in Procesos
  BY DesencolaTipo DEF TypeOK, Desencola, UnSoloLugar, Inyectiva
<1>3. cola'[q] = Tail(cola[q]) /\ \A k \in Colas \ {q} : cola'[k] = cola[k]
  BY DEF Desencola, TypeOK
<1>4. /\ p \in Rango(cola[q]) /\ Rango(cola'[q]) = Rango(cola[q]) \ {p}
      /\ \A k \in Colas : Inyectiva(cola'[k])
  <2>1. /\ p \in Rango(cola[q]) /\ Rango(cola'[q]) = Rango(cola[q]) \ {p}
        /\ Inyectiva(cola'[q])
    BY <1>2, <1>3, RangoTail
  <2> QED BY <1>3, <2>1 DEF UnSoloLugar, Inyectiva
<1>5. ASSUME NEW k \in Lugares
      PROVE  Contenido(k)' = IF k = g THEN Contenido(k) \cup {p}
                             ELSE IF k = q THEN Contenido(k) \ {p}
                             ELSE Contenido(k)
  <2>1. CASE k \in Colas
    BY <1>1, <1>3, <1>4, <2>1 DEF Contenido
  <2>2. CASE k \in Grupos
    BY <1>1, <2>2, ColasOGrupos DEF Contenido, Desencola, TypeOK
  <2> QED BY <2>1, <2>2 DEF Lugares
<1>6. En(p, q)
  BY <1>4 DEF En, Contenido
<1> QED BY <1>1, <1>2, <1>4, <1>5, <1>6 DEF Traslado

\* A move keeps every PCB in one place.
LEMMA TrasladoUnSoloLugar ==
  ASSUME UnSoloLugar, NEW p, NEW l, NEW m, Traslado(p, l, m)
  PROVE  UnSoloLugar'
<1>1. ASSUME NEW r \in Procesos PROVE \E k \in Lugares : En(r, k)'
  <2>1. CASE r = p
    BY <2>1 DEF Traslado, En
  <2>2. CASE r # p
    <3>1. PICK k \in Lugares : En(r, k)
      BY DEF UnSoloLugar
    <3> QED BY <2>2, <3>1 DEF Traslado, En
  <2> QED BY <2>1, <2>2
<1>2. ASSUME NEW j \in Lugares, NEW r, En(r, j)', NEW k \in Lugares \ {j}
      PROVE  ~En(r, k)'
  BY <1>2 DEF Traslado, En, UnSoloLugar
<1> QED BY <1>1, <1>2 DEF UnSoloLugar, Traslado, En, Inyectiva

\* A move in terms of a family of places.
LEMMA TrasladoClase ==
  ASSUME TypeOK, UnSoloLugar, NEW p, NEW l, NEW m, Traslado(p, l, m),
         NEW C \in SUBSET Lugares
  PROVE  /\ p \in EnAlguno(C) <=> l \in C
         /\ EnAlguno(C)' = IF m \in C THEN EnAlguno(C) \cup {p}
                           ELSE EnAlguno(C) \ {p}
<1>1. p \in EnAlguno(C) <=> l \in C
  BY DEF Traslado, UnSoloLugar, En, EnAlguno
<1>2. ASSUME NEW r
      PROVE  r \in EnAlguno(C)' <=>
               r \in IF m \in C THEN EnAlguno(C) \cup {p} ELSE EnAlguno(C) \ {p}
  <2>1. r \in EnAlguno(C)' <=> \E k \in C : r \in Contenido(k)'
    BY DEF EnAlguno
  <2>2. r \in EnAlguno(C) <=> \E k \in C : r \in Contenido(k)
    BY DEF EnAlguno
  <2>3. CASE r = p
    BY <2>1, <2>2, <2>3 DEF Traslado, UnSoloLugar, En
  <2>4. CASE r # p
    BY <2>1, <2>2, <2>4 DEF Traslado
  <2> QED BY <2>3, <2>4
<1> QED BY <1>1, <1>2

\* What a family of places holds is a finite set of processes.
LEMMA ClaseFinita ==
  ASSUME TypeOK, NEW C \in SUBSET Lugares
  PROVE  EnAlguno(C) \subseteq Procesos /\ IsFiniteSet(EnAlguno(C))
<1>1. EnAlguno(C) \subseteq Procesos
  BY ContenidoTipo DEF EnAlguno
<1> QED BY <1>1, ProcesosAssumption, FS_Subset

-----------------------------------------------------------------------------
(* Moves and the families the invariant speaks of.                           *)

Clases == {LugaresMps, LugaresTabla, LugaresMmp, LugaresIot, LugaresFin,
           LugaresSinCodigo}

\* The families are sets of places.
LEMMA ClasesDeLugares == Clases \subseteq SUBSET Lugares
BY DEF Clases, Lugares, LugaresMps, LugaresTabla, LugaresMmp, LugaresIot,
       LugaresFin, LugaresSinCodigo, Colas, Grupos, ColasSts

\* The hand of procer and tabla_suspendidos are groups.
LEMMA CpuYSuspendidos ==
  /\ {"cpu", "suspendidos"} \subseteq Lugares
  /\ Contenido("cpu") = grupo["cpu"]
  /\ Contenido("suspendidos") = grupo["suspendidos"]
BY DEF Lugares, Colas, Grupos, Contenido

\* The hand of procer and tabla_suspendidos, which the invariant names.
GruposVistos == {"cpu", "suspendidos"}

\* What a move does to the hand of procer and to tabla_suspendidos.
LEMMA MovimientoGrupo ==
  ASSUME UnSoloLugar, NEW p, NEW l, NEW m, Traslado(p, l, m),
         NEW k \in GruposVistos
  PROVE  /\ p \in grupo[k] <=> l = k
         /\ grupo'[k] = IF k = m THEN grupo[k] \cup {p}
                        ELSE IF k = l THEN grupo[k] \ {p} ELSE grupo[k]
<1>1. k \in Lugares /\ Contenido(k) = grupo[k]
  BY CpuYSuspendidos DEF GruposVistos
<1>2. Contenido(k)' = grupo'[k]
  BY DEF Contenido, Colas, GruposVistos
<1>3. En(p, k) <=> l = k
  BY <1>1 DEF Traslado, UnSoloLugar, En
<1>4. Contenido(k)' = IF k = m THEN Contenido(k) \cup {p}
                      ELSE IF k = l THEN Contenido(k) \ {p}
                      ELSE Contenido(k)
  BY <1>1 DEF Traslado
<1> QED BY <1>1, <1>2, <1>3, <1>4 DEF En

\* Nothing moved: no family changes.
LEMMA Quietud ==
  ASSUME UNCHANGED <<cola, grupo>>
  PROVE  \A C : EnAlguno(C)' = EnAlguno(C)
<1>1. \A l : Contenido(l)' = Contenido(l)
  BY DEF Contenido
<1> QED BY <1>1 DEF EnAlguno

\* A semaphore and the holders of its slots.
LEMMA CupoToma ==
  ASSUME NEW N, NEW n \in Nat, NEW S, IsFiniteSet(S), NEW p,
         n + Cardinality(S) = N, n > 0, p \notin S
  PROVE  n - 1 + Cardinality(S \cup {p}) = N
<1>1. Cardinality(S) \in Nat
  BY FS_CardinalityType
<1>2. Cardinality(S \cup {p}) = Cardinality(S) + 1
  BY FS_AddElement
<1> QED BY <1>1, <1>2

\* A slot returned.
LEMMA CupoDevuelve ==
  ASSUME NEW N, NEW n \in Nat, NEW S, IsFiniteSet(S), NEW p,
         n + Cardinality(S) = N, p \in S
  PROVE  n + 1 + Cardinality(S \ {p}) = N
<1>1. Cardinality(S) \in Nat
  BY FS_CardinalityType
<1>2. Cardinality(S \ {p}) = Cardinality(S) - 1
  BY FS_RemoveElement
<1> QED BY <1>1, <1>2

\* The holders are finite sets of processes.
LEMMA TenedoresFinitos ==
  ASSUME TypeOK
  PROVE  /\ IsFiniteSet(ConMps) /\ IsFiniteSet(ConMmp) /\ IsFiniteSet(ConIot)
         /\ ConMps \subseteq Procesos /\ ConMmp \subseteq Procesos
         /\ ConIot \subseteq Procesos
<1>1. /\ EnAlguno(LugaresMps) \subseteq Procesos
      /\ EnAlguno(LugaresMmp) \subseteq Procesos
      /\ EnAlguno(LugaresIot) \subseteq Procesos
  BY ClaseFinita, ClasesDeLugares DEF Clases
<1>2. /\ ConMps \subseteq Procesos /\ ConMmp \subseteq Procesos
      /\ ConIot \subseteq Procesos
  BY <1>1 DEF ConMps, ConMmp, ConIot, DebeMmp, TieneIot
<1> QED BY <1>2, ProcesosAssumption, FS_Subset

\* The three semaphores of PROCER: a slot taken, a slot returned.
LEMMA CupoMpsToma ==
  ASSUME IInv, NEW p, mps > 0, mps' = mps - 1,
         p \notin ConMps, ConMps' = ConMps \cup {p}
  PROVE  CupoMps'
<1>1. IsFiniteSet(ConMps) /\ mps \in Nat /\ mps + Cardinality(ConMps) = MPS
  BY TenedoresFinitos DEF IInv, CupoMps, TypeOK
<1>2. mps - 1 + Cardinality(ConMps \cup {p}) = MPS
  BY <1>1, CupoToma
<1> QED BY <1>2 DEF CupoMps

\* sem_post(mps) by a holder of a system slot.
LEMMA CupoMpsDevuelve ==
  ASSUME IInv, NEW p, mps' = mps + 1, p \in ConMps, ConMps' = ConMps \ {p}
  PROVE  CupoMps'
<1>1. IsFiniteSet(ConMps) /\ mps \in Nat /\ mps + Cardinality(ConMps) = MPS
  BY TenedoresFinitos DEF IInv, CupoMps, TypeOK
<1>2. mps + 1 + Cardinality(ConMps \ {p}) = MPS
  BY <1>1, CupoDevuelve
<1> QED BY <1>2 DEF CupoMps

\* sem_wait(mmp) for a process that holds no memory slot.
LEMMA CupoMmpToma ==
  ASSUME IInv, NEW p, mmp > 0, mmp' = mmp - 1,
         p \notin ConMmp, ConMmp' = ConMmp \cup {p}
  PROVE  CupoMmp'
<1>1. IsFiniteSet(ConMmp) /\ mmp \in Nat /\ mmp + Cardinality(ConMmp) = MMP
  BY TenedoresFinitos DEF IInv, CupoMmp, TypeOK
<1>2. mmp - 1 + Cardinality(ConMmp \cup {p}) = MMP
  BY <1>1, CupoToma
<1> QED BY <1>2 DEF CupoMmp

\* sem_post(mmp) for a holder of a memory slot.
LEMMA CupoMmpDevuelve ==
  ASSUME IInv, NEW p, mmp' = mmp + 1, p \in ConMmp, ConMmp' = ConMmp \ {p}
  PROVE  CupoMmp'
<1>1. IsFiniteSet(ConMmp) /\ mmp \in Nat /\ mmp + Cardinality(ConMmp) = MMP
  BY TenedoresFinitos DEF IInv, CupoMmp, TypeOK
<1>2. mmp + 1 + Cardinality(ConMmp \ {p}) = MMP
  BY <1>1, CupoDevuelve
<1> QED BY <1>2 DEF CupoMmp

\* sem_wait or sem_trywait(threads_iot) for a process that holds none.
LEMMA CupoIotToma ==
  ASSUME IInv, NEW p, threads_iot > 0, threads_iot' = threads_iot - 1,
         p \notin ConIot, ConIot' = ConIot \cup {p}
  PROVE  CupoIot'
<1>1. IsFiniteSet(ConIot) /\ threads_iot \in Nat /\ threads_iot + Cardinality(ConIot) = THREADS_IOT
  BY TenedoresFinitos DEF IInv, CupoIot, TypeOK
<1>2. threads_iot - 1 + Cardinality(ConIot \cup {p}) = THREADS_IOT
  BY <1>1, CupoToma
<1> QED BY <1>2 DEF CupoIot

\* sem_post(threads_iot) by the thread of an I/O.
LEMMA CupoIotDevuelve ==
  ASSUME IInv, NEW p, threads_iot' = threads_iot + 1, p \in ConIot, ConIot' = ConIot \ {p}
  PROVE  CupoIot'
<1>1. IsFiniteSet(ConIot) /\ threads_iot \in Nat /\ threads_iot + Cardinality(ConIot) = THREADS_IOT
  BY TenedoresFinitos DEF IInv, CupoIot, TypeOK
<1>2. threads_iot + 1 + Cardinality(ConIot \ {p}) = THREADS_IOT
  BY <1>1, CupoDevuelve
<1> QED BY <1>2 DEF CupoIot

-----------------------------------------------------------------------------
(* The steps.                                                                *)

\* Two places that no conjunct of the invariant tells apart.
Indistintos(l, m) ==
  /\ \A C \in Clases : l \in C <=> m \in C
  /\ {l, m} \cap {"cpu", "suspendidos"} = {}

\* Two such places where the process is neither outside nor refused.
Internos(l, m) ==
  Indistintos(l, m) /\ {l, m} \cap {"afuera", "rechazado"} = {}

\* The pairs of places between which the silent steps move a PCB.
LEMMA ParesIndistintos ==
  /\ Indistintos("afuera", "rechazado")
  /\ Internos("aceptado", "con_prioridad")
  /\ Internos("pendientes_nuevos", "pn") /\ Internos("pn_mmp", "nuevos")
  /\ Internos("pendientes_reanudar", "pr") /\ Internos("pr_mmp", "reanudar")
  /\ \A q \in ColasSts : Internos(q, "sts")
  /\ Internos("sts", "listos")
  /\ Internos("bloqueados", "bio") /\ Internos("bio_iot", "io")
  /\ Internos("io", "ios") /\ Internos("ios_post", "fin_bloqueados")
  /\ Internos("fin_programa", "fin")
  /\ Internos("fin_mps", "fin_avisado") /\ Internos("fin_avisado", "terminado")
BY DEF Internos, Indistintos, Clases, Lugares, LugaresMps, LugaresTabla, LugaresMmp,
       LugaresIot, LugaresFin, LugaresSinCodigo, Colas, Grupos, ColasSts

\* A move between two such places.
LEMMA MovimientoSilencioso ==
  ASSUME IInv, TInv', NEW p, NEW l, NEW m, Traslado(p, l, m),
         Indistintos(l, m),
         UNCHANGED <<semaforos, pcbs, cpu, avisos>>
  PROVE  IInv' /\ ConMps' = ConMps /\ ConMmp' = ConMmp
<1>t. TypeOK /\ UnSoloLugar /\ TInv
  BY DEF IInv, TInv
<1>1. UnSoloLugar' /\ \A C \in Clases : EnAlguno(C)' = EnAlguno(C)
  <2>1. UnSoloLugar'
    BY <1>t, TrasladoUnSoloLugar
  <2>2. ASSUME NEW C \in Clases PROVE EnAlguno(C)' = EnAlguno(C)
    <3>1. /\ p \in EnAlguno(C) <=> m \in C
          /\ EnAlguno(C)' = IF m \in C THEN EnAlguno(C) \cup {p}
                            ELSE EnAlguno(C) \ {p}
      BY <1>t, TrasladoClase, ClasesDeLugares DEF Indistintos
    <3>2. EnAlguno(C)' = EnAlguno(C)
      BY <3>1
    <3> QED BY <3>2
  <2> QED BY <2>1, <2>2
<1>2. grupo'["cpu"] = grupo["cpu"] /\ grupo'["suspendidos"] = grupo["suspendidos"]
  <2>1. /\ grupo'["cpu"] = IF "cpu" = m THEN grupo["cpu"] \cup {p}
                ELSE IF "cpu" = l THEN grupo["cpu"] \ {p} ELSE grupo["cpu"]
        /\ grupo'["suspendidos"] = IF "suspendidos" = m THEN grupo["suspendidos"] \cup {p}
                ELSE IF "suspendidos" = l THEN grupo["suspendidos"] \ {p} ELSE grupo["suspendidos"]
    BY <1>t, MovimientoGrupo DEF GruposVistos
  <2> QED BY <2>1 DEF Indistintos
<1>3. /\ EnAlguno(LugaresMps)' = EnAlguno(LugaresMps)
      /\ EnAlguno(LugaresTabla)' = EnAlguno(LugaresTabla)
      /\ EnAlguno(LugaresMmp)' = EnAlguno(LugaresMmp)
      /\ EnAlguno(LugaresIot)' = EnAlguno(LugaresIot)
      /\ EnAlguno(LugaresFin)' = EnAlguno(LugaresFin)
      /\ EnAlguno(LugaresSinCodigo)' = EnAlguno(LugaresSinCodigo)
  BY <1>1 DEF Clases
<1>4. ConMps' = ConMps /\ ConMmp' = ConMmp /\ ConIot' = ConIot
  BY <1>3 DEF ConMps, ConMmp, ConIot, DebeMmp, TieneIot
<1>5. CpuCoherente'
  BY <1>2, <1>3 DEF IInv, CpuCoherente, OcupaCpu
<1>6. ProgramaCoherente'
  BY <1>3 DEF IInv, ProgramaCoherente, pcbs
<1>7. TablaCoherente' /\ AvisoEsperaReanudar'
  BY <1>2, <1>3, <1>4 DEF IInv, TablaCoherente, AvisoEsperaReanudar, pcbs
<1>8. CupoMps' /\ CupoMmp' /\ CupoIot'
  BY <1>4 DEF IInv, CupoMps, CupoMmp, CupoIot, semaforos
<1>9. IInv'
  BY <1>1, <1>5, <1>6, <1>7, <1>8 DEF IInv, TInv
<1> QED BY <1>4, <1>9

\* Every step that is such a move.
Silencioso ==
  \/ \E p \in Procesos : LtsPrioridad(p) \/ IoDevuelve(p)
  \/ PendientesSaca("pendientes_nuevos", "pn", "pn_mmp")
  \/ PendientesEncola("pn_mmp", "nuevos")
  \/ PendientesSaca("pendientes_reanudar", "pr", "pr_mmp")
  \/ PendientesEncola("pr_mmp", "reanudar")
  \/ Sts \/ BloqueadosSaca \/ BloqueadosEncola \/ LanzarIos
  \/ FinSaca \/ FinAvisa \/ FinDestruye

\* The silent steps keep the invariant and the holders.
LEMMA PasoSilencioso ==
  ASSUME IInv, TInv', Silencioso
  PROVE  /\ IInv' /\ ConMps' = ConMps /\ ConMmp' = ConMmp
         /\ \E p, l, m : Traslado(p, l, m) /\ Internos(l, m)
<1>t. TypeOK /\ UnSoloLugar
  BY DEF IInv
<1>s. UNCHANGED <<semaforos, pcbs, cpu, avisos>>
  BY DEF Silencioso, LtsPrioridad, IoDevuelve, PendientesSaca,
         PendientesEncola, Sts, StsSaca, StsInserta, BloqueadosSaca,
         BloqueadosEncola, LanzarIos, FinSaca, FinAvisa, FinDestruye
<1>2. ASSUME NEW p \in Procesos, LtsPrioridad(p)
      PROVE  Traslado(p, "aceptado", "con_prioridad")
  BY <1>2, <1>t, PasaTraslada DEF LtsPrioridad, Grupos
<1>3. ASSUME NEW p \in Procesos, IoDevuelve(p)
      PROVE  Traslado(p, "ios_post", "fin_bloqueados")
  BY <1>3, <1>t, EncolaTraslada DEF IoDevuelve, Grupos, Colas
<1>4. ASSUME NEW q \in Colas, NEW g \in Grupos, NEW h, PendientesSaca(q, g, h)
      PROVE  Traslado(Head(cola[q]), q, g)
  BY <1>4, <1>t, DesencolaTraslada DEF PendientesSaca
<1>5. ASSUME NEW q \in Colas, NEW g \in Grupos, PendientesEncola(g, q)
      PROVE  \E p : Traslado(p, g, q)
  BY <1>5, <1>t, EncolaTraslada DEF PendientesEncola
<1>6. ASSUME StsSaca PROVE \E q \in ColasSts : Traslado(Head(cola[q]), q, "sts")
  BY <1>6, <1>t, DesencolaTraslada DEF StsSaca, Grupos, Colas, ColasSts
<1>7. ASSUME StsInserta PROVE \E p : Traslado(p, "sts", "listos")
  BY <1>7, <1>t, PasaTraslada DEF StsInserta, Grupos
<1>8. ASSUME BloqueadosSaca
      PROVE  Traslado(Head(cola["bloqueados"]), "bloqueados", "bio")
  BY <1>8, <1>t, DesencolaTraslada DEF BloqueadosSaca, Grupos, Colas
<1>9. ASSUME BloqueadosEncola PROVE \E p : Traslado(p, "bio_iot", "io")
  BY <1>9, <1>t, EncolaTraslada DEF BloqueadosEncola, Grupos, Colas
<1>10. ASSUME LanzarIos PROVE Traslado(Head(cola["io"]), "io", "ios")
  BY <1>10, <1>t, DesencolaTraslada DEF LanzarIos, Grupos, Colas
<1>11. ASSUME FinSaca
       PROVE  Traslado(Head(cola["fin_programa"]), "fin_programa", "fin")
  BY <1>11, <1>t, DesencolaTraslada DEF FinSaca, Grupos, Colas
<1>12. ASSUME FinAvisa PROVE \E p : Traslado(p, "fin_mps", "fin_avisado")
  BY <1>12, <1>t, PasaTraslada DEF FinAvisa, Grupos
<1>13. ASSUME FinDestruye PROVE \E p : Traslado(p, "fin_avisado", "terminado")
  BY <1>13, <1>t, PasaTraslada DEF FinDestruye, Grupos
<1>14. /\ {"pn", "pn_mmp", "pr", "pr_mmp"} \subseteq Grupos
       /\ {"pendientes_nuevos", "nuevos", "pendientes_reanudar", "reanudar"} \subseteq Colas
  BY DEF Grupos, Colas
<1>15. \E p, l, m : Traslado(p, l, m) /\ Internos(l, m)
  <2>1. CASE \E p \in Procesos : LtsPrioridad(p) \/ IoDevuelve(p)
    BY <2>1, <1>2, <1>3, ParesIndistintos
  <2>2. CASE \/ PendientesSaca("pendientes_nuevos", "pn", "pn_mmp")
             \/ PendientesEncola("pn_mmp", "nuevos")
             \/ PendientesSaca("pendientes_reanudar", "pr", "pr_mmp")
             \/ PendientesEncola("pr_mmp", "reanudar")
    BY <2>2, <1>4, <1>5, <1>14, ParesIndistintos
  <2>3. CASE Sts
    BY <2>3, <1>6, <1>7, ParesIndistintos DEF Sts
  <2>4. CASE BloqueadosSaca \/ BloqueadosEncola \/ LanzarIos
    BY <2>4, <1>8, <1>9, <1>10, ParesIndistintos
  <2>5. CASE FinSaca \/ FinAvisa \/ FinDestruye
    BY <2>5, <1>11, <1>12, <1>13, ParesIndistintos
  <2> QED BY <2>1, <2>2, <2>3, <2>4, <2>5 DEF Silencioso
<1>16. IInv' /\ ConMps' = ConMps /\ ConMmp' = ConMmp
  BY <1>s, <1>15, MovimientoSilencioso DEF Internos
<1> QED BY <1>15, <1>16

\* A refused client changes nothing else.
LEMMA PasoRechaza ==
  ASSUME IInv, TInv', NEW p \in Procesos, LtsRechaza(p)
  PROVE  /\ IInv' /\ ConMps' = ConMps /\ ConMmp' = ConMmp
         /\ Traslado(p, "afuera", "rechazado")
<1>1. Traslado(p, "afuera", "rechazado")
  BY PasaTraslada DEF IInv, LtsRechaza, Grupos
<1>2. IInv' /\ ConMps' = ConMps /\ ConMmp' = ConMmp
  BY <1>1, ParesIndistintos, MovimientoSilencioso DEF LtsRechaza
<1> QED BY <1>1, <1>2

-----------------------------------------------------------------------------
(* The steps that the invariant sees.                                        *)

\* A move into, out of, or within a family.
LEMMA EfectoClase ==
  ASSUME TypeOK, UnSoloLugar, NEW p, NEW l, NEW m, Traslado(p, l, m),
         NEW C \in Clases
  PROVE  /\ (l \in C <=> m \in C) => EnAlguno(C)' = EnAlguno(C)
         /\ l \notin C /\ m \in C =>
              p \notin EnAlguno(C) /\ EnAlguno(C)' = EnAlguno(C) \cup {p}
         /\ l \in C /\ m \notin C =>
              p \in EnAlguno(C) /\ EnAlguno(C)' = EnAlguno(C) \ {p}
<1>1. /\ p \in EnAlguno(C) <=> l \in C
      /\ EnAlguno(C)' = IF m \in C THEN EnAlguno(C) \cup {p}
                        ELSE EnAlguno(C) \ {p}
  BY TrasladoClase, ClasesDeLugares
<1> QED BY <1>1

\* The families a place belongs to, in the order of Clases.
Perfil(l, enMps, enTabla, enMmp, enIot, enFin, sinCodigo) ==
  /\ l \in LugaresMps <=> enMps
  /\ l \in LugaresTabla <=> enTabla
  /\ l \in LugaresMmp <=> enMmp
  /\ l \in LugaresIot <=> enIot
  /\ l \in LugaresFin <=> enFin
  /\ l \in LugaresSinCodigo <=> sinCodigo

\* The profile of every place a step that is not silent names.
LEMMA Perfiles ==
  /\ Perfil("afuera", FALSE, FALSE, FALSE, FALSE, FALSE, TRUE)
  /\ \A l \in {"aceptado", "con_prioridad"} :
       Perfil(l, TRUE, TRUE, FALSE, FALSE, FALSE, TRUE)
  /\ \A l \in {"pendientes_nuevos", "pn", "pr", "suspendidos",
              "pendientes_reanudar"} :
       Perfil(l, TRUE, TRUE, FALSE, FALSE, FALSE, FALSE)
  /\ \A l \in {"pn_mmp", "pr_mmp", "listos", "cpu", "fin_quantum",
              "bloqueados", "bio", "ios_post"} :
       Perfil(l, TRUE, TRUE, TRUE, FALSE, FALSE, FALSE)
  /\ \A l \in {"bio_iot", "io", "ios"} :
       Perfil(l, TRUE, TRUE, TRUE, TRUE, FALSE, FALSE)
  /\ \A l \in {"fin_programa", "fin"} :
       Perfil(l, TRUE, TRUE, FALSE, FALSE, TRUE, FALSE)
  /\ Perfil("fin_tabla", TRUE, FALSE, FALSE, FALSE, TRUE, FALSE)
  /\ Perfil("fin_mps", FALSE, FALSE, FALSE, FALSE, TRUE, FALSE)
BY DEF Perfil, Lugares, LugaresMps, LugaresTabla, LugaresMmp, LugaresIot,
       LugaresFin, LugaresSinCodigo, Colas, Grupos, ColasSts

\* A family that a step leaves alone, takes p into, or lets p out of.
Igual(C) == EnAlguno(C)' = EnAlguno(C)
Entra(C, p) == p \notin EnAlguno(C) /\ EnAlguno(C)' = EnAlguno(C) \cup {p}
Sale(C, p) == p \in EnAlguno(C) /\ EnAlguno(C)' = EnAlguno(C) \ {p}

\* What a move does to each family, from the profiles of its two ends.
LEMMA EfectoMovimiento ==
  ASSUME TypeOK, UnSoloLugar, NEW p, NEW l, NEW m, Traslado(p, l, m)
  PROVE  \A C \in Clases :
           /\ (l \in C <=> m \in C) => Igual(C)
           /\ l \notin C /\ m \in C => Entra(C, p)
           /\ l \in C /\ m \notin C => Sale(C, p)
BY EfectoClase DEF Igual, Entra, Sale

\* The same for the hand of procer and for tabla_suspendidos.
LEMMA EfectoGrupo ==
  ASSUME TypeOK, UnSoloLugar, NEW p, NEW l, NEW m, Traslado(p, l, m)
  PROVE  \A k \in GruposVistos :
           /\ k # l /\ k # m => p \notin grupo[k] /\ grupo'[k] = grupo[k]
           /\ k = m => p \notin grupo[k] /\ grupo'[k] = grupo[k] \cup {p}
           /\ k = l => p \in grupo[k] /\ grupo'[k] = grupo[k] \ {p}
<1>1. ASSUME NEW k \in GruposVistos
      PROVE  /\ p \in grupo[k] <=> l = k
             /\ grupo'[k] = IF k = m THEN grupo[k] \cup {p}
                            ELSE IF k = l THEN grupo[k] \ {p} ELSE grupo[k]
  BY MovimientoGrupo
<1>2. l # m
  BY DEF Traslado
<1> QED BY <1>1, <1>2

\* The families by name.
LEMMA ClasesNombradas ==
  /\ LugaresMps \in Clases /\ LugaresTabla \in Clases /\ LugaresMmp \in Clases
  /\ LugaresIot \in Clases /\ LugaresFin \in Clases
  /\ LugaresSinCodigo \in Clases
BY DEF Clases

\* The families of the place where a process is.
LEMMA FamiliasDe ==
  ASSUME UnSoloLugar, NEW p, NEW l \in Lugares, En(p, l), NEW C \in Clases
  PROVE  p \in EnAlguno(C) <=> l \in C
<1>1. C \subseteq Lugares
  BY ClasesDeLugares
<1> QED BY <1>1 DEF UnSoloLugar, En, EnAlguno

\* What procer holds, what ended and what is suspended.
LEMMA FamiliasVistas ==
  ASSUME IInv
  PROVE  /\ \A p \in grupo["cpu"] :
              /\ p \in EnAlguno(LugaresMps) /\ p \in EnAlguno(LugaresTabla)
              /\ p \in EnAlguno(LugaresMmp) /\ p \notin EnAlguno(LugaresIot)
              /\ p \notin EnAlguno(LugaresFin)
              /\ p \notin EnAlguno(LugaresSinCodigo)
              /\ p \notin grupo["suspendidos"]
         /\ \A p \in grupo["suspendidos"] :
              /\ p \in EnAlguno(LugaresMps) /\ p \in EnAlguno(LugaresTabla)
              /\ p \notin EnAlguno(LugaresMmp) /\ p \notin EnAlguno(LugaresFin)
         /\ \A p \in EnAlguno(LugaresFin) : p \notin EnAlguno(LugaresMmp)
<1>u. UnSoloLugar /\ TypeOK
  BY DEF IInv
<1>1. ASSUME NEW p \in grupo["cpu"]
      PROVE  /\ p \in EnAlguno(LugaresMps) /\ p \in EnAlguno(LugaresTabla)
             /\ p \in EnAlguno(LugaresMmp) /\ p \notin EnAlguno(LugaresIot)
             /\ p \notin EnAlguno(LugaresFin)
             /\ p \notin EnAlguno(LugaresSinCodigo)
             /\ p \notin grupo["suspendidos"]
  <2>1. En(p, "cpu") /\ "cpu" \in Lugares
    BY CpuYSuspendidos DEF En
  <2>2. Perfil("cpu", TRUE, TRUE, TRUE, FALSE, FALSE, FALSE)
    BY Perfiles
  <2>3. p \notin grupo["suspendidos"]
    BY <1>u, <2>1, CpuYSuspendidos DEF UnSoloLugar, En
  <2> QED BY <1>u, <2>1, <2>2, <2>3, FamiliasDe, ClasesNombradas DEF Perfil
<1>2. ASSUME NEW p \in grupo["suspendidos"]
      PROVE  /\ p \in EnAlguno(LugaresMps) /\ p \in EnAlguno(LugaresTabla)
             /\ p \notin EnAlguno(LugaresMmp) /\ p \notin EnAlguno(LugaresFin)
  <2>1. En(p, "suspendidos") /\ "suspendidos" \in Lugares
    BY CpuYSuspendidos DEF En
  <2>2. Perfil("suspendidos", TRUE, TRUE, FALSE, FALSE, FALSE, FALSE)
    BY Perfiles
  <2> QED BY <1>u, <2>1, <2>2, FamiliasDe, ClasesNombradas DEF Perfil
<1>3. ASSUME NEW p \in EnAlguno(LugaresFin) PROVE p \notin EnAlguno(LugaresMmp)
  <2>1. PICK l \in LugaresFin : p \in Contenido(l)
    BY DEF EnAlguno
  <2>2. l \in Lugares /\ l \notin LugaresMmp
    BY DEF LugaresFin, LugaresMmp, Lugares, ColasSts, Colas, Grupos
  <2> QED BY <1>u, <2>1, <2>2, FamiliasDe, ClasesNombradas DEF En
<1> QED BY <1>1, <1>2, <1>3

\* lts takes an MPS slot for a new client and gives it a PCB.
LEMMA PasoAcepta ==
  ASSUME IInv, TInv', NEW p \in Procesos, LtsAcepta(p)
  PROVE  /\ IInv'
         /\ ConMps' = ConMps \cup {p} /\ p \notin ConMps
         /\ ConMmp' = ConMmp /\ ConIot' = ConIot
         /\ Traslado(p, "afuera", "aceptado")
<1>t. TypeOK /\ UnSoloLugar /\ CpuConPcb
  BY DEF IInv
<1>1. Traslado(p, "afuera", "aceptado")
  BY <1>t, PasaTraslada DEF LtsAcepta, Grupos
<1>2. /\ Entra(LugaresMps, p) /\ Entra(LugaresTabla, p) /\ Igual(LugaresMmp)
      /\ Igual(LugaresIot) /\ Igual(LugaresFin) /\ Igual(LugaresSinCodigo)
  <2>1. /\ Perfil("afuera", FALSE, FALSE, FALSE, FALSE, FALSE, TRUE)
        /\ Perfil("aceptado", TRUE, TRUE, FALSE, FALSE, FALSE, TRUE)
    BY Perfiles
  <2> QED BY <1>t, <1>1, <2>1, EfectoMovimiento, ClasesNombradas DEF Perfil
<1>3. /\ p \notin grupo["cpu"] /\ grupo'["cpu"] = grupo["cpu"]
      /\ p \notin grupo["suspendidos"] /\ grupo'["suspendidos"] = grupo["suspendidos"]
  BY <1>t, <1>1, EfectoGrupo DEF GruposVistos
<1>u. UnSoloLugar'
  BY <1>t, <1>1, TrasladoUnSoloLugar
<1>4. /\ ConMps' = ConMps \cup {p} /\ p \notin ConMps
      /\ ConMmp' = ConMmp /\ ConIot' = ConIot
  BY <1>t, <1>2, <1>3
     DEF LtsAcepta, ConMps, ConMmp, ConIot, DebeMmp, TieneIot, Entra, Sale, Igual,
         IInv, CpuCoherente, OcupaCpu, CpuConPcb, TypeOK
<1>5. CpuCoherente'
  BY <1>t, <1>2, <1>3
     DEF IInv, LtsAcepta, CpuCoherente, CpuConPcb, OcupaCpu, Igual, Entra, Sale
<1>6. ProgramaCoherente'
  BY <1>t, <1>2
     DEF IInv, LtsAcepta, ProgramaCoherente, pcbs, Igual, Entra, Sale
<1>7. TablaCoherente' /\ AvisoEsperaReanudar'
  BY <1>t, <1>2, <1>3, <1>4
     DEF IInv, LtsAcepta, TablaCoherente, AvisoEsperaReanudar, pcbs, Entra, Sale, Igual, TypeOK
<1>8. CupoMps' /\ CupoMmp' /\ CupoIot'
  <2>1. CupoMps'
    BY <1>4, CupoMpsToma DEF LtsAcepta
  <2> QED BY <1>4, <2>1 DEF IInv, LtsAcepta, CupoMmp, CupoIot, semaforos
<1>9. IInv'
  BY <1>u, <1>5, <1>6, <1>7, <1>8 DEF IInv, TInv
<1> QED BY <1>4, <1>1, <1>9

\* The program arrives and the PCB goes to pendientes_nuevos.
LEMMA PasoCodigo ==
  ASSUME IInv, TInv', NEW p \in Procesos, LtsCodigo(p)
  PROVE  /\ IInv'
         /\ ConMps' = ConMps /\ ConMmp' = ConMmp /\ ConIot' = ConIot
         /\ Traslado(p, "con_prioridad", "pendientes_nuevos")
<1>t. TypeOK /\ UnSoloLugar /\ CpuConPcb
  BY DEF IInv
<1>1. Traslado(p, "con_prioridad", "pendientes_nuevos")
  BY <1>t, EncolaTraslada DEF LtsCodigo, Grupos, Colas
<1>2. /\ Igual(LugaresMps) /\ Igual(LugaresTabla) /\ Igual(LugaresMmp)
      /\ Igual(LugaresIot) /\ Igual(LugaresFin) /\ Sale(LugaresSinCodigo, p)
  <2>1. /\ Perfil("con_prioridad", TRUE, TRUE, FALSE, FALSE, FALSE, TRUE)
        /\ Perfil("pendientes_nuevos", TRUE, TRUE, FALSE, FALSE, FALSE, FALSE)
    BY Perfiles
  <2> QED BY <1>t, <1>1, <2>1, EfectoMovimiento, ClasesNombradas DEF Perfil
<1>3. /\ p \notin grupo["cpu"] /\ grupo'["cpu"] = grupo["cpu"]
      /\ p \notin grupo["suspendidos"] /\ grupo'["suspendidos"] = grupo["suspendidos"]
  BY <1>t, <1>1, EfectoGrupo DEF GruposVistos
<1>u. UnSoloLugar'
  BY <1>t, <1>1, TrasladoUnSoloLugar
<1>4. /\ ConMps' = ConMps /\ ConMmp' = ConMmp /\ ConIot' = ConIot
  BY <1>t, <1>2, <1>3
     DEF LtsCodigo, ConMps, ConMmp, ConIot, DebeMmp, TieneIot, Entra, Sale, Igual,
         IInv, CpuCoherente, OcupaCpu, CpuConPcb, TypeOK
<1>5. CpuCoherente'
  BY <1>t, <1>2, <1>3
     DEF IInv, LtsCodigo, CpuCoherente, CpuConPcb, OcupaCpu, Igual, Entra, Sale
<1>6. ProgramaCoherente'
  <2>1. PICK c \in Programas : codigo' = [codigo EXCEPT ![p] = c]
    BY DEF LtsCodigo
  <2>2. Len(c) \in Nat /\ Len(c) >= 1
    BY ProgramasAssumption
  <2>3. codigo[p] = <<>> /\ program_counter[p] = 1 /\ Len(codigo[p]) = 0
    BY <1>2 DEF IInv, ProgramaCoherente, Sale
  <2>4. codigo'[p] = c /\ \A r \in Procesos \ {p} : codigo'[r] = codigo[r]
    BY <1>t, <2>1 DEF TypeOK
  <2>5. program_counter' = program_counter /\ cpu' = cpu
    BY DEF LtsCodigo
  <2>6. /\ p \notin EnAlguno(LugaresSinCodigo)' /\ p \notin EnAlguno(LugaresFin)'
        /\ \A r \in Procesos \ {p} :
             /\ r \in EnAlguno(LugaresSinCodigo)' <=> r \in EnAlguno(LugaresSinCodigo)
             /\ r \in EnAlguno(LugaresFin)' <=> r \in EnAlguno(LugaresFin)
    <3>1. p \notin EnAlguno(LugaresFin)
      <4>1. En(p, "con_prioridad") /\ "con_prioridad" \in Lugares
        BY <1>1 DEF Traslado
      <4>2. Perfil("con_prioridad", TRUE, TRUE, FALSE, FALSE, FALSE, TRUE)
        BY Perfiles
      <4> QED BY <1>t, <4>1, <4>2, FamiliasDe, ClasesNombradas DEF Perfil
    <3> QED BY <1>2, <3>1 DEF Sale, Igual
  <2>7. ASSUME NEW r \in Procesos
        PROVE  /\ program_counter'[r] >= 1
               /\ IF r \in EnAlguno(LugaresSinCodigo)'
                    THEN codigo'[r] = <<>> /\ program_counter'[r] = 1
                    ELSE /\ codigo'[r] \in Programas
                         /\ IF r \in EnAlguno(LugaresFin)'
                              THEN program_counter'[r] = Len(codigo'[r]) + 1
                              ELSE program_counter'[r] <= Len(codigo'[r])
    <3>1. CASE r = p
      BY <2>1, <2>2, <2>3, <2>4, <2>5, <2>6, <3>1
    <3>2. CASE r # p
      BY <2>4, <2>5, <2>6, <3>2 DEF IInv, ProgramaCoherente
    <3> QED BY <3>1, <3>2
  <2>8. cpu'.fase = "io_tomada" \/ (cpu'.fase = "avanza" /\ ~cpu'.sigue) =>
          program_counter'[cpu'.pcb] < Len(codigo'[cpu'.pcb])
    <3>1. CASE cpu.pcb = p
      BY <2>3, <2>5, <3>1 DEF IInv, ProgramaCoherente
    <3>2. CASE cpu.pcb # p
      BY <1>t, <2>4, <2>5, <3>2 DEF IInv, ProgramaCoherente, CpuConPcb
    <3> QED BY <3>1, <3>2
  <2> QED BY <2>7, <2>8 DEF ProgramaCoherente
<1>7. TablaCoherente' /\ AvisoEsperaReanudar'
  BY <1>t, <1>2, <1>3, <1>4
     DEF IInv, LtsCodigo, TablaCoherente, AvisoEsperaReanudar, pcbs, Entra, Sale, Igual, TypeOK
<1>8. CupoMps' /\ CupoMmp' /\ CupoIot'
  BY <1>4 DEF IInv, LtsCodigo, CupoMps, CupoMmp, CupoIot, semaforos
<1>9. IInv'
  BY <1>u, <1>5, <1>6, <1>7, <1>8 DEF IInv, TInv
<1> QED BY <1>4, <1>1, <1>9

\* A client answers: its process leaves tabla_suspendidos.
LEMMA PasoReanuda ==
  ASSUME IInv, TInv', NEW p \in Procesos, LtsReanuda(p)
  PROVE  /\ IInv'
         /\ ConMps' = ConMps /\ ConMmp' = ConMmp /\ ConIot' = ConIot
         /\ Traslado(p, "suspendidos", "pendientes_reanudar")
<1>t. TypeOK /\ UnSoloLugar /\ CpuConPcb
  BY DEF IInv
<1>0. p \in grupo["suspendidos"] /\ avisos[p] = 1
      /\ avisos' = [avisos EXCEPT ![p] = 0]
  <2>1. p \in grupo["suspendidos"] /\ avisos[p] = 1
    BY DEF IInv, AvisoEsperaReanudar, LtsReanuda
  <2>2. avisos' = [avisos EXCEPT ![p] = avisos[p] - 1] /\ avisos[p] - 1 = 0
    BY <2>1 DEF LtsReanuda
  <2> QED BY <2>1, <2>2
<1>1. Traslado(p, "suspendidos", "pendientes_reanudar")
  BY <1>t, <1>0, EncolaTraslada DEF LtsReanuda, Grupos, Colas
<1>2. /\ Igual(LugaresMps) /\ Igual(LugaresTabla) /\ Igual(LugaresMmp)
      /\ Igual(LugaresIot) /\ Igual(LugaresFin) /\ Igual(LugaresSinCodigo)
  <2>1. /\ Perfil("suspendidos", TRUE, TRUE, FALSE, FALSE, FALSE, FALSE)
        /\ Perfil("pendientes_reanudar", TRUE, TRUE, FALSE, FALSE, FALSE, FALSE)
    BY Perfiles
  <2> QED BY <1>t, <1>1, <2>1, EfectoMovimiento, ClasesNombradas DEF Perfil
<1>3. /\ p \notin grupo["cpu"] /\ grupo'["cpu"] = grupo["cpu"]
      /\ p \in grupo["suspendidos"] /\ grupo'["suspendidos"] = grupo["suspendidos"] \ {p}
  BY <1>t, <1>1, EfectoGrupo DEF GruposVistos
<1>u. UnSoloLugar'
  BY <1>t, <1>1, TrasladoUnSoloLugar
<1>4. /\ ConMps' = ConMps /\ ConMmp' = ConMmp /\ ConIot' = ConIot
  BY <1>t, <1>2, <1>3
     DEF LtsReanuda, ConMps, ConMmp, ConIot, DebeMmp, TieneIot, Entra, Sale, Igual,
         IInv, CpuCoherente, OcupaCpu, CpuConPcb, TypeOK
<1>5. CpuCoherente'
  BY <1>t, <1>2, <1>3, <1>0
     DEF IInv, LtsReanuda, CpuCoherente, CpuConPcb, OcupaCpu, Igual, Entra, Sale
<1>6. ProgramaCoherente'
  BY <1>t, <1>2
     DEF IInv, LtsReanuda, ProgramaCoherente, pcbs, Igual, Entra, Sale
<1>7. TablaCoherente' /\ AvisoEsperaReanudar'
  BY <1>t, <1>2, <1>3, <1>4, <1>0
     DEF IInv, LtsReanuda, TablaCoherente, AvisoEsperaReanudar, pcbs, Entra, Sale, Igual, TypeOK
<1>8. CupoMps' /\ CupoMmp' /\ CupoIot'
  BY <1>4 DEF IInv, LtsReanuda, CupoMps, CupoMmp, CupoIot, semaforos
<1>9. IInv'
  BY <1>u, <1>5, <1>6, <1>7, <1>8 DEF IInv, TInv
<1> QED BY <1>4, <1>1, <1>9

\* pendientes_nuevos gets memory for a new process.
LEMMA PasoEsperaNuevo ==
  ASSUME IInv, TInv', PendientesEspera("pn", "pn_mmp")
  PROVE  /\ IInv'
         /\ \E p \in Procesos :
              /\ ConMmp' = ConMmp \cup {p} /\ p \notin ConMmp
              /\ ConMps' = ConMps /\ ConIot' = ConIot
              /\ Traslado(p, "pn", "pn_mmp")
<1>t. TypeOK /\ UnSoloLugar /\ CpuConPcb
  BY DEF IInv
<1>p. PICK p \in grupo["pn"] :
        /\ mmp > 0 /\ mmp' = mmp - 1 /\ Pasa(p, "pn", "pn_mmp")
        /\ UNCHANGED <<mps, threads_iot, pcbs, cpu, avisos>>
  BY DEF PendientesEspera
<1>0. p \in grupo["pn"] /\ Pasa(p, "pn", "pn_mmp") /\ p \in Procesos
  BY <1>t, <1>p DEF TypeOK, Grupos
<1>1. Traslado(p, "pn", "pn_mmp")
  BY <1>t, <1>0, PasaTraslada DEF Grupos
<1>f. p \notin EnAlguno(LugaresFin)
  BY <1>t, <1>1, FamiliasDe, ClasesNombradas, Perfiles DEF Traslado, Perfil
<1>2. /\ Igual(LugaresMps) /\ Igual(LugaresTabla) /\ Entra(LugaresMmp, p)
      /\ Igual(LugaresIot) /\ Igual(LugaresFin) /\ Igual(LugaresSinCodigo)
  <2>1. /\ Perfil("pn", TRUE, TRUE, FALSE, FALSE, FALSE, FALSE)
        /\ Perfil("pn_mmp", TRUE, TRUE, TRUE, FALSE, FALSE, FALSE)
    BY Perfiles
  <2> QED BY <1>t, <1>1, <2>1, EfectoMovimiento, ClasesNombradas DEF Perfil
<1>3. /\ p \notin grupo["cpu"] /\ grupo'["cpu"] = grupo["cpu"]
      /\ p \notin grupo["suspendidos"] /\ grupo'["suspendidos"] = grupo["suspendidos"]
  BY <1>t, <1>1, EfectoGrupo DEF GruposVistos
<1>u. UnSoloLugar'
  BY <1>t, <1>1, TrasladoUnSoloLugar
<1>4. /\ ConMmp' = ConMmp \cup {p} /\ p \notin ConMmp
      /\ ConMps' = ConMps /\ ConIot' = ConIot
  BY <1>t, <1>2, <1>3, <1>p, <1>f
     DEF PendientesEspera, ConMps, ConMmp, ConIot, DebeMmp, TieneIot, Entra, Sale, Igual,
         IInv, CpuCoherente, OcupaCpu, CpuConPcb, TypeOK
<1>5. CpuCoherente'
  BY <1>t, <1>2, <1>3, <1>p
     DEF IInv, PendientesEspera, CpuCoherente, CpuConPcb, OcupaCpu, Igual, Entra, Sale
<1>6. ProgramaCoherente'
  BY <1>t, <1>2, <1>p
     DEF IInv, PendientesEspera, ProgramaCoherente, pcbs, Igual, Entra, Sale
<1>7. TablaCoherente' /\ AvisoEsperaReanudar'
  BY <1>t, <1>2, <1>3, <1>4, <1>p
     DEF IInv, PendientesEspera, TablaCoherente, AvisoEsperaReanudar, pcbs, Entra, Sale, Igual, TypeOK
<1>8. CupoMps' /\ CupoMmp' /\ CupoIot'
  <2>1. CupoMmp'
    BY <1>4, <1>p, CupoMmpToma DEF PendientesEspera
  <2> QED BY <1>4, <1>p, <2>1 DEF IInv, PendientesEspera, CupoMps, CupoIot, semaforos
<1>9. IInv'
  BY <1>u, <1>5, <1>6, <1>7, <1>8 DEF IInv, TInv
<1>10. p \in Procesos
  BY <1>1 DEF Traslado
<1> QED BY <1>4, <1>1, <1>9, <1>10

\* pendientes_reanudar gets memory for a resumed process.
LEMMA PasoEsperaReanudado ==
  ASSUME IInv, TInv', PendientesEspera("pr", "pr_mmp")
  PROVE  /\ IInv'
         /\ \E p \in Procesos :
              /\ ConMmp' = ConMmp \cup {p} /\ p \notin ConMmp
              /\ ConMps' = ConMps /\ ConIot' = ConIot
              /\ Traslado(p, "pr", "pr_mmp")
<1>t. TypeOK /\ UnSoloLugar /\ CpuConPcb
  BY DEF IInv
<1>p. PICK p \in grupo["pr"] :
        /\ mmp > 0 /\ mmp' = mmp - 1 /\ Pasa(p, "pr", "pr_mmp")
        /\ UNCHANGED <<mps, threads_iot, pcbs, cpu, avisos>>
  BY DEF PendientesEspera
<1>0. p \in grupo["pr"] /\ Pasa(p, "pr", "pr_mmp") /\ p \in Procesos
  BY <1>t, <1>p DEF TypeOK, Grupos
<1>1. Traslado(p, "pr", "pr_mmp")
  BY <1>t, <1>0, PasaTraslada DEF Grupos
<1>f. p \notin EnAlguno(LugaresFin)
  BY <1>t, <1>1, FamiliasDe, ClasesNombradas, Perfiles DEF Traslado, Perfil
<1>2. /\ Igual(LugaresMps) /\ Igual(LugaresTabla) /\ Entra(LugaresMmp, p)
      /\ Igual(LugaresIot) /\ Igual(LugaresFin) /\ Igual(LugaresSinCodigo)
  <2>1. /\ Perfil("pr", TRUE, TRUE, FALSE, FALSE, FALSE, FALSE)
        /\ Perfil("pr_mmp", TRUE, TRUE, TRUE, FALSE, FALSE, FALSE)
    BY Perfiles
  <2> QED BY <1>t, <1>1, <2>1, EfectoMovimiento, ClasesNombradas DEF Perfil
<1>3. /\ p \notin grupo["cpu"] /\ grupo'["cpu"] = grupo["cpu"]
      /\ p \notin grupo["suspendidos"] /\ grupo'["suspendidos"] = grupo["suspendidos"]
  BY <1>t, <1>1, EfectoGrupo DEF GruposVistos
<1>u. UnSoloLugar'
  BY <1>t, <1>1, TrasladoUnSoloLugar
<1>4. /\ ConMmp' = ConMmp \cup {p} /\ p \notin ConMmp
      /\ ConMps' = ConMps /\ ConIot' = ConIot
  BY <1>t, <1>2, <1>3, <1>p, <1>f
     DEF PendientesEspera, ConMps, ConMmp, ConIot, DebeMmp, TieneIot, Entra, Sale, Igual,
         IInv, CpuCoherente, OcupaCpu, CpuConPcb, TypeOK
<1>5. CpuCoherente'
  BY <1>t, <1>2, <1>3, <1>p
     DEF IInv, PendientesEspera, CpuCoherente, CpuConPcb, OcupaCpu, Igual, Entra, Sale
<1>6. ProgramaCoherente'
  BY <1>t, <1>2, <1>p
     DEF IInv, PendientesEspera, ProgramaCoherente, pcbs, Igual, Entra, Sale
<1>7. TablaCoherente' /\ AvisoEsperaReanudar'
  BY <1>t, <1>2, <1>3, <1>4, <1>p
     DEF IInv, PendientesEspera, TablaCoherente, AvisoEsperaReanudar, pcbs, Entra, Sale, Igual, TypeOK
<1>8. CupoMps' /\ CupoMmp' /\ CupoIot'
  <2>1. CupoMmp'
    BY <1>4, <1>p, CupoMmpToma DEF PendientesEspera
  <2> QED BY <1>4, <1>p, <2>1 DEF IInv, PendientesEspera, CupoMps, CupoIot, semaforos
<1>9. IInv'
  BY <1>u, <1>5, <1>6, <1>7, <1>8 DEF IInv, TInv
<1>10. p \in Procesos
  BY <1>1 DEF Traslado
<1> QED BY <1>4, <1>1, <1>9, <1>10

\* bloqueados_a_io gets an I/O thread.
LEMMA PasoBloqueadosEspera ==
  ASSUME IInv, TInv', BloqueadosEspera
  PROVE  /\ IInv'
         /\ \E p \in Procesos :
              /\ ConIot' = ConIot \cup {p} /\ p \notin ConIot
              /\ ConMps' = ConMps /\ ConMmp' = ConMmp
              /\ Traslado(p, "bio", "bio_iot")
<1>t. TypeOK /\ UnSoloLugar /\ CpuConPcb
  BY DEF IInv
<1>p. PICK p \in grupo["bio"] :
        /\ threads_iot > 0 /\ threads_iot' = threads_iot - 1
        /\ Pasa(p, "bio", "bio_iot") /\ UNCHANGED <<mps, mmp, pcbs, cpu, avisos>>
  BY DEF BloqueadosEspera
<1>1. Traslado(p, "bio", "bio_iot")
  BY <1>t, <1>p, PasaTraslada DEF Grupos
<1>2. /\ Igual(LugaresMps) /\ Igual(LugaresTabla) /\ Igual(LugaresMmp)
      /\ Entra(LugaresIot, p) /\ Igual(LugaresFin) /\ Igual(LugaresSinCodigo)
  <2>1. /\ Perfil("bio", TRUE, TRUE, TRUE, FALSE, FALSE, FALSE)
        /\ Perfil("bio_iot", TRUE, TRUE, TRUE, TRUE, FALSE, FALSE)
    BY Perfiles
  <2> QED BY <1>t, <1>1, <2>1, EfectoMovimiento, ClasesNombradas DEF Perfil
<1>3. /\ p \notin grupo["cpu"] /\ grupo'["cpu"] = grupo["cpu"]
      /\ p \notin grupo["suspendidos"] /\ grupo'["suspendidos"] = grupo["suspendidos"]
  BY <1>t, <1>1, EfectoGrupo DEF GruposVistos
<1>u. UnSoloLugar'
  BY <1>t, <1>1, TrasladoUnSoloLugar
<1>4. /\ ConIot' = ConIot \cup {p} /\ p \notin ConIot
      /\ ConMps' = ConMps /\ ConMmp' = ConMmp
  BY <1>t, <1>2, <1>3, <1>p
     DEF BloqueadosEspera, ConMps, ConMmp, ConIot, DebeMmp, TieneIot, Entra, Sale, Igual,
         IInv, CpuCoherente, OcupaCpu, CpuConPcb, TypeOK
<1>5. CpuCoherente'
  BY <1>t, <1>2, <1>3, <1>p
     DEF IInv, BloqueadosEspera, CpuCoherente, CpuConPcb, OcupaCpu, Igual, Entra, Sale
<1>6. ProgramaCoherente'
  BY <1>t, <1>2, <1>p
     DEF IInv, BloqueadosEspera, ProgramaCoherente, pcbs, Igual, Entra, Sale
<1>7. TablaCoherente' /\ AvisoEsperaReanudar'
  BY <1>t, <1>2, <1>3, <1>4, <1>p
     DEF IInv, BloqueadosEspera, TablaCoherente, AvisoEsperaReanudar, pcbs, Entra, Sale, Igual, TypeOK
<1>8. CupoMps' /\ CupoMmp' /\ CupoIot'
  <2>1. CupoIot'
    BY <1>4, <1>p, CupoIotToma DEF BloqueadosEspera
  <2> QED BY <1>4, <1>p, <2>1 DEF IInv, BloqueadosEspera, CupoMps, CupoMmp, semaforos
<1>9. IInv'
  BY <1>u, <1>5, <1>6, <1>7, <1>8 DEF IInv, TInv
<1>10. p \in Procesos
  BY <1>1 DEF Traslado
<1> QED BY <1>4, <1>1, <1>9, <1>10

\* ejecutar_io returns its I/O thread.
LEMMA PasoIoTermina ==
  ASSUME IInv, TInv', NEW p \in Procesos, IoTermina(p)
  PROVE  /\ IInv'
         /\ ConIot' = ConIot \ {p} /\ p \in ConIot
         /\ ConMps' = ConMps /\ ConMmp' = ConMmp
         /\ Traslado(p, "ios", "ios_post")
<1>t. TypeOK /\ UnSoloLugar /\ CpuConPcb
  BY DEF IInv
<1>1. Traslado(p, "ios", "ios_post")
  BY <1>t, PasaTraslada DEF IoTermina, Grupos
<1>2. /\ Igual(LugaresMps) /\ Igual(LugaresTabla) /\ Igual(LugaresMmp)
      /\ Sale(LugaresIot, p) /\ Igual(LugaresFin) /\ Igual(LugaresSinCodigo)
  <2>1. /\ Perfil("ios", TRUE, TRUE, TRUE, TRUE, FALSE, FALSE)
        /\ Perfil("ios_post", TRUE, TRUE, TRUE, FALSE, FALSE, FALSE)
    BY Perfiles
  <2> QED BY <1>t, <1>1, <2>1, EfectoMovimiento, ClasesNombradas DEF Perfil
<1>3. /\ p \notin grupo["cpu"] /\ grupo'["cpu"] = grupo["cpu"]
      /\ p \notin grupo["suspendidos"] /\ grupo'["suspendidos"] = grupo["suspendidos"]
  BY <1>t, <1>1, EfectoGrupo DEF GruposVistos
<1>u. UnSoloLugar'
  BY <1>t, <1>1, TrasladoUnSoloLugar
<1>4. /\ ConIot' = ConIot \ {p} /\ p \in ConIot
      /\ ConMps' = ConMps /\ ConMmp' = ConMmp
  BY <1>t, <1>2, <1>3
     DEF IoTermina, ConMps, ConMmp, ConIot, DebeMmp, TieneIot, Entra, Sale, Igual,
         IInv, CpuCoherente, OcupaCpu, CpuConPcb, TypeOK
<1>5. CpuCoherente'
  BY <1>t, <1>2, <1>3
     DEF IInv, IoTermina, CpuCoherente, CpuConPcb, OcupaCpu, Igual, Entra, Sale
<1>6. ProgramaCoherente'
  BY <1>t, <1>2
     DEF IInv, IoTermina, ProgramaCoherente, pcbs, Igual, Entra, Sale
<1>7. TablaCoherente' /\ AvisoEsperaReanudar'
  BY <1>t, <1>2, <1>3, <1>4
     DEF IInv, IoTermina, TablaCoherente, AvisoEsperaReanudar, pcbs, Entra, Sale, Igual, TypeOK
<1>8. CupoMps' /\ CupoMmp' /\ CupoIot'
  <2>1. CupoIot'
    BY <1>4, CupoIotDevuelve DEF IoTermina
  <2> QED BY <1>4, <2>1 DEF IInv, IoTermina, CupoMps, CupoMmp, semaforos
<1>9. IInv'
  BY <1>u, <1>5, <1>6, <1>7, <1>8 DEF IInv, TInv
<1> QED BY <1>4, <1>1, <1>9

\* finalizados forgets a PCB.
LEMMA PasoFinTabla ==
  ASSUME IInv, TInv', FinTabla
  PROVE  /\ IInv'
         /\ \E p \in Procesos :
              /\ ConMps' = ConMps /\ ConMmp' = ConMmp /\ ConIot' = ConIot
              /\ Traslado(p, "fin", "fin_tabla")
<1>t. TypeOK /\ UnSoloLugar /\ CpuConPcb
  BY DEF IInv
<1>p. PICK p \in grupo["fin"] :
        /\ tabla_procesos' = tabla_procesos \ {p} /\ Pasa(p, "fin", "fin_tabla")
        /\ UNCHANGED <<semaforos, codigo, program_counter, cpu, avisos>>
  BY DEF FinTabla
<1>1. Traslado(p, "fin", "fin_tabla")
  BY <1>t, <1>p, PasaTraslada DEF Grupos
<1>2. /\ Igual(LugaresMps) /\ Sale(LugaresTabla, p) /\ Igual(LugaresMmp)
      /\ Igual(LugaresIot) /\ Igual(LugaresFin) /\ Igual(LugaresSinCodigo)
  <2>1. /\ Perfil("fin", TRUE, TRUE, FALSE, FALSE, TRUE, FALSE)
        /\ Perfil("fin_tabla", TRUE, FALSE, FALSE, FALSE, TRUE, FALSE)
    BY Perfiles
  <2> QED BY <1>t, <1>1, <2>1, EfectoMovimiento, ClasesNombradas DEF Perfil
<1>3. /\ p \notin grupo["cpu"] /\ grupo'["cpu"] = grupo["cpu"]
      /\ p \notin grupo["suspendidos"] /\ grupo'["suspendidos"] = grupo["suspendidos"]
  BY <1>t, <1>1, EfectoGrupo DEF GruposVistos
<1>u. UnSoloLugar'
  BY <1>t, <1>1, TrasladoUnSoloLugar
<1>4. /\ ConMps' = ConMps /\ ConMmp' = ConMmp /\ ConIot' = ConIot
  BY <1>t, <1>2, <1>3, <1>p
     DEF FinTabla, ConMps, ConMmp, ConIot, DebeMmp, TieneIot, Entra, Sale, Igual,
         IInv, CpuCoherente, OcupaCpu, CpuConPcb, TypeOK
<1>5. CpuCoherente'
  BY <1>t, <1>2, <1>3, <1>p
     DEF IInv, FinTabla, CpuCoherente, CpuConPcb, OcupaCpu, Igual, Entra, Sale
<1>6. ProgramaCoherente'
  BY <1>t, <1>2, <1>p
     DEF IInv, FinTabla, ProgramaCoherente, pcbs, Igual, Entra, Sale
<1>7. TablaCoherente' /\ AvisoEsperaReanudar'
  BY <1>t, <1>2, <1>3, <1>4, <1>p
     DEF IInv, FinTabla, TablaCoherente, AvisoEsperaReanudar, pcbs, Entra, Sale, Igual, TypeOK
<1>8. CupoMps' /\ CupoMmp' /\ CupoIot'
  BY <1>4, <1>p DEF IInv, FinTabla, CupoMps, CupoMmp, CupoIot, semaforos
<1>9. IInv'
  BY <1>u, <1>5, <1>6, <1>7, <1>8 DEF IInv, TInv
<1>10. p \in Procesos
  BY <1>1 DEF Traslado
<1> QED BY <1>4, <1>1, <1>9, <1>10

\* finalizados returns the MPS slot.
LEMMA PasoFinMps ==
  ASSUME IInv, TInv', FinMps
  PROVE  /\ IInv'
         /\ \E p \in Procesos :
              /\ ConMps' = ConMps \ {p} /\ p \in ConMps
              /\ ConMmp' = ConMmp /\ ConIot' = ConIot
              /\ Traslado(p, "fin_tabla", "fin_mps")
<1>t. TypeOK /\ UnSoloLugar /\ CpuConPcb
  BY DEF IInv
<1>p. PICK p \in grupo["fin_tabla"] :
        /\ mps' = mps + 1 /\ Pasa(p, "fin_tabla", "fin_mps")
        /\ UNCHANGED <<mmp, threads_iot, pcbs, cpu, avisos>>
  BY DEF FinMps
<1>1. Traslado(p, "fin_tabla", "fin_mps")
  BY <1>t, <1>p, PasaTraslada DEF Grupos
<1>2. /\ Sale(LugaresMps, p) /\ Igual(LugaresTabla) /\ Igual(LugaresMmp)
      /\ Igual(LugaresIot) /\ Igual(LugaresFin) /\ Igual(LugaresSinCodigo)
  <2>1. /\ Perfil("fin_tabla", TRUE, FALSE, FALSE, FALSE, TRUE, FALSE)
        /\ Perfil("fin_mps", FALSE, FALSE, FALSE, FALSE, TRUE, FALSE)
    BY Perfiles
  <2> QED BY <1>t, <1>1, <2>1, EfectoMovimiento, ClasesNombradas DEF Perfil
<1>3. /\ p \notin grupo["cpu"] /\ grupo'["cpu"] = grupo["cpu"]
      /\ p \notin grupo["suspendidos"] /\ grupo'["suspendidos"] = grupo["suspendidos"]
  BY <1>t, <1>1, EfectoGrupo DEF GruposVistos
<1>u. UnSoloLugar'
  BY <1>t, <1>1, TrasladoUnSoloLugar
<1>4. /\ ConMps' = ConMps \ {p} /\ p \in ConMps
      /\ ConMmp' = ConMmp /\ ConIot' = ConIot
  BY <1>t, <1>2, <1>3, <1>p
     DEF FinMps, ConMps, ConMmp, ConIot, DebeMmp, TieneIot, Entra, Sale, Igual,
         IInv, CpuCoherente, OcupaCpu, CpuConPcb, TypeOK
<1>5. CpuCoherente'
  BY <1>t, <1>2, <1>3, <1>p
     DEF IInv, FinMps, CpuCoherente, CpuConPcb, OcupaCpu, Igual, Entra, Sale
<1>6. ProgramaCoherente'
  BY <1>t, <1>2, <1>p
     DEF IInv, FinMps, ProgramaCoherente, pcbs, Igual, Entra, Sale
<1>7. TablaCoherente' /\ AvisoEsperaReanudar'
  BY <1>t, <1>2, <1>3, <1>4, <1>p
     DEF IInv, FinMps, TablaCoherente, AvisoEsperaReanudar, pcbs, Entra, Sale, Igual, TypeOK
<1>8. CupoMps' /\ CupoMmp' /\ CupoIot'
  <2>1. CupoMps'
    BY <1>4, <1>p, CupoMpsDevuelve DEF FinMps
  <2> QED BY <1>4, <1>p, <2>1 DEF IInv, FinMps, CupoMmp, CupoIot, semaforos
<1>9. IInv'
  BY <1>u, <1>5, <1>6, <1>7, <1>8 DEF IInv, TInv
<1>10. p \in Procesos
  BY <1>1 DEF Traslado
<1> QED BY <1>4, <1>1, <1>9, <1>10

\* procer dispatches a ready process.
LEMMA PasoToma ==
  ASSUME IInv, TInv', ProcerToma
  PROVE  /\ IInv'
         /\ \E p \in Procesos :
              /\ ConMps' = ConMps /\ ConMmp' = ConMmp /\ ConIot' = ConIot
              /\ Traslado(p, "listos", "cpu")
<1>t. TypeOK /\ UnSoloLugar /\ CpuConPcb
  BY DEF IInv
<1>p. PICK p \in grupo["listos"] :
        /\ cpu.fase = "espera" /\ Pasa(p, "listos", "cpu")
        /\ cpu' = [fase |-> "ejecuta", pcb |-> p, sigue |-> TRUE, rafaga |-> 0]
        /\ UNCHANGED <<semaforos, pcbs, avisos>>
  BY DEF ProcerToma
<1>1. Traslado(p, "listos", "cpu")
  BY <1>t, <1>p, PasaTraslada DEF Grupos
<1>2. /\ Igual(LugaresMps) /\ Igual(LugaresTabla) /\ Igual(LugaresMmp)
      /\ Igual(LugaresIot) /\ Igual(LugaresFin) /\ Igual(LugaresSinCodigo)
  <2>1. /\ Perfil("listos", TRUE, TRUE, TRUE, FALSE, FALSE, FALSE)
        /\ Perfil("cpu", TRUE, TRUE, TRUE, FALSE, FALSE, FALSE)
    BY Perfiles
  <2> QED BY <1>t, <1>1, <2>1, EfectoMovimiento, ClasesNombradas DEF Perfil
<1>3. /\ p \notin grupo["cpu"] /\ grupo'["cpu"] = grupo["cpu"] \cup {p}
      /\ p \notin grupo["suspendidos"] /\ grupo'["suspendidos"] = grupo["suspendidos"]
  BY <1>t, <1>1, EfectoGrupo DEF GruposVistos
<1>u. UnSoloLugar'
  BY <1>t, <1>1, TrasladoUnSoloLugar
<1>4. /\ ConMps' = ConMps /\ ConMmp' = ConMmp /\ ConIot' = ConIot
  BY <1>t, <1>2, <1>3, <1>p
     DEF ProcerToma, ConMps, ConMmp, ConIot, DebeMmp, TieneIot, Entra, Sale, Igual,
         IInv, CpuCoherente, OcupaCpu, CpuConPcb, TypeOK
<1>5. CpuCoherente'
  BY <1>t, <1>2, <1>3, <1>p
     DEF IInv, ProcerToma, CpuCoherente, CpuConPcb, OcupaCpu, Igual, Entra, Sale
<1>6. ProgramaCoherente'
  BY <1>t, <1>2, <1>p
     DEF IInv, ProcerToma, ProgramaCoherente, pcbs, Igual, Entra, Sale
<1>7. TablaCoherente' /\ AvisoEsperaReanudar'
  BY <1>t, <1>2, <1>3, <1>4, <1>p
     DEF IInv, ProcerToma, TablaCoherente, AvisoEsperaReanudar, pcbs, Entra, Sale, Igual, TypeOK
<1>8. CupoMps' /\ CupoMmp' /\ CupoIot'
  BY <1>4, <1>p DEF IInv, ProcerToma, CupoMps, CupoMmp, CupoIot, semaforos
<1>9. IInv'
  BY <1>u, <1>5, <1>6, <1>7, <1>8 DEF IInv, TInv
<1>10. p \in Procesos
  BY <1>1 DEF Traslado
<1> QED BY <1>4, <1>1, <1>9, <1>10

\* A blocking I/O gives the PCB to bloqueados_a_io.
LEMMA PasoEjecutaIo ==
  ASSUME SinIoFinal, IInv, TInv', EjecutaIo
  PROVE  /\ IInv'
         /\ ConMps' = ConMps /\ ConMmp' = ConMmp /\ ConIot' = ConIot
         /\ Traslado(cpu.pcb, "cpu", "bloqueados")
<1>t. TypeOK /\ UnSoloLugar /\ CpuConPcb
  BY DEF IInv
<1>c. /\ cpu = [fase |-> cpu.fase, pcb |-> cpu.pcb, sigue |-> cpu.sigue,
                rafaga |-> cpu.rafaga]
      /\ cpu.pcb \in Procesos /\ cpu.pcb \in grupo["cpu"] /\ grupo["cpu"] = {cpu.pcb}
  <2>1. cpu = [fase |-> cpu.fase, pcb |-> cpu.pcb, sigue |-> cpu.sigue,
               rafaga |-> cpu.rafaga]
    BY <1>t DEF TypeOK
  <2>2. OcupaCpu /\ cpu.pcb \in Procesos
    BY <1>t DEF EjecutaIo, OcupaCpu, CpuConPcb
  <2>3. grupo["cpu"] = {cpu.pcb}
    BY <2>2 DEF IInv, CpuCoherente
  <2> QED BY <2>1, <2>2, <2>3
<1>v. /\ cpu.pcb \notin EnAlguno(LugaresFin) /\ cpu.pcb \notin EnAlguno(LugaresIot)
      /\ cpu.pcb \notin EnAlguno(LugaresSinCodigo) /\ cpu.pcb \in EnAlguno(LugaresMmp)
      /\ cpu.pcb \notin grupo["suspendidos"]
  BY <1>c, FamiliasVistas
<1>k. /\ codigo[cpu.pcb] \in Programas
      /\ program_counter[cpu.pcb] \in Nat /\ program_counter[cpu.pcb] >= 1
      /\ program_counter[cpu.pcb] <= Len(codigo[cpu.pcb])
      /\ codigo[cpu.pcb] \in Seq(Efectos)
  BY <1>t, <1>c, <1>v DEF IInv, ProgramaCoherente, TypeOK
<1>n. program_counter[cpu.pcb] < Len(codigo[cpu.pcb])
  <2>1. codigo[cpu.pcb][program_counter[cpu.pcb]] # "cpu"
    BY DEF EjecutaIo, Instruccion
  <2>2. program_counter[cpu.pcb] # Len(codigo[cpu.pcb])
    BY <1>k, <2>1 DEF SinIoFinal
  <2> QED BY <1>k, <2>2
<1>1. Traslado(cpu.pcb, "cpu", "bloqueados")
  BY <1>t, <1>c, EncolaTraslada DEF EjecutaIo, Grupos, Colas
<1>2. /\ Igual(LugaresMps) /\ Igual(LugaresTabla) /\ Igual(LugaresMmp)
      /\ Igual(LugaresIot) /\ Igual(LugaresFin) /\ Igual(LugaresSinCodigo)
  <2>1. /\ Perfil("cpu", TRUE, TRUE, TRUE, FALSE, FALSE, FALSE)
        /\ Perfil("bloqueados", TRUE, TRUE, TRUE, FALSE, FALSE, FALSE)
    BY Perfiles
  <2> QED BY <1>t, <1>1, <2>1, EfectoMovimiento, ClasesNombradas DEF Perfil
<1>3. /\ cpu.pcb \in grupo["cpu"] /\ grupo'["cpu"] = grupo["cpu"] \ {cpu.pcb}
      /\ cpu.pcb \notin grupo["suspendidos"] /\ grupo'["suspendidos"] = grupo["suspendidos"]
  BY <1>t, <1>1, EfectoGrupo DEF GruposVistos
<1>u. UnSoloLugar'
  BY <1>t, <1>1, TrasladoUnSoloLugar
<1>4. /\ ConMps' = ConMps /\ ConMmp' = ConMmp /\ ConIot' = ConIot
  BY <1>t, <1>2, <1>3, <1>c
     DEF EjecutaIo, ConMps, ConMmp, ConIot, DebeMmp, TieneIot, Entra, Sale, Igual,
         IInv, CpuCoherente, OcupaCpu, CpuConPcb, TypeOK
<1>5. CpuCoherente'
  BY <1>t, <1>2, <1>3, <1>c
     DEF IInv, EjecutaIo, CpuCoherente, CpuConPcb, OcupaCpu, Igual, Entra, Sale
<1>6. ProgramaCoherente'
  BY <1>t, <1>2, <1>n, <1>c
     DEF IInv, EjecutaIo, ProgramaCoherente, pcbs, Igual, Entra, Sale
<1>7. TablaCoherente' /\ AvisoEsperaReanudar'
  BY <1>t, <1>2, <1>3, <1>4
     DEF IInv, EjecutaIo, TablaCoherente, AvisoEsperaReanudar, pcbs, Entra, Sale, Igual, TypeOK
<1>8. CupoMps' /\ CupoMmp' /\ CupoIot'
  BY <1>4 DEF IInv, EjecutaIo, CupoMps, CupoMmp, CupoIot, semaforos
<1>9. IInv'
  BY <1>u, <1>5, <1>6, <1>7, <1>8 DEF IInv, TInv
<1> QED BY <1>4, <1>1, <1>9

\* A non-blocking I/O gives the PCB and its I/O thread to lanzar_ios.
LEMMA PasoEncolaIoNoBloqueante ==
  ASSUME IInv, TInv', EncolaIoNoBloqueante
  PROVE  /\ IInv'
         /\ ConMps' = ConMps /\ ConMmp' = ConMmp /\ ConIot' = ConIot
         /\ Traslado(cpu.pcb, "cpu", "io")
<1>t. TypeOK /\ UnSoloLugar /\ CpuConPcb
  BY DEF IInv
<1>c. /\ cpu = [fase |-> cpu.fase, pcb |-> cpu.pcb, sigue |-> cpu.sigue,
                rafaga |-> cpu.rafaga]
      /\ cpu.pcb \in Procesos /\ cpu.pcb \in grupo["cpu"] /\ grupo["cpu"] = {cpu.pcb}
  <2>1. cpu = [fase |-> cpu.fase, pcb |-> cpu.pcb, sigue |-> cpu.sigue,
               rafaga |-> cpu.rafaga]
    BY <1>t DEF TypeOK
  <2>2. OcupaCpu /\ cpu.pcb \in Procesos
    BY <1>t DEF EncolaIoNoBloqueante, OcupaCpu, CpuConPcb
  <2>3. grupo["cpu"] = {cpu.pcb}
    BY <2>2 DEF IInv, CpuCoherente
  <2> QED BY <2>1, <2>2, <2>3
<1>v. /\ cpu.pcb \notin EnAlguno(LugaresFin) /\ cpu.pcb \notin EnAlguno(LugaresIot)
      /\ cpu.pcb \notin EnAlguno(LugaresSinCodigo) /\ cpu.pcb \in EnAlguno(LugaresMmp)
      /\ cpu.pcb \notin grupo["suspendidos"]
  BY <1>c, FamiliasVistas
<1>1. Traslado(cpu.pcb, "cpu", "io")
  BY <1>t, <1>c, EncolaTraslada DEF EncolaIoNoBloqueante, Grupos, Colas
<1>2. /\ Igual(LugaresMps) /\ Igual(LugaresTabla) /\ Igual(LugaresMmp)
      /\ Entra(LugaresIot, cpu.pcb) /\ Igual(LugaresFin) /\ Igual(LugaresSinCodigo)
  <2>1. /\ Perfil("cpu", TRUE, TRUE, TRUE, FALSE, FALSE, FALSE)
        /\ Perfil("io", TRUE, TRUE, TRUE, TRUE, FALSE, FALSE)
    BY Perfiles
  <2> QED BY <1>t, <1>1, <2>1, EfectoMovimiento, ClasesNombradas DEF Perfil
<1>3. /\ cpu.pcb \in grupo["cpu"] /\ grupo'["cpu"] = grupo["cpu"] \ {cpu.pcb}
      /\ cpu.pcb \notin grupo["suspendidos"] /\ grupo'["suspendidos"] = grupo["suspendidos"]
  BY <1>t, <1>1, EfectoGrupo DEF GruposVistos
<1>u. UnSoloLugar'
  BY <1>t, <1>1, TrasladoUnSoloLugar
<1>4. /\ ConMps' = ConMps /\ ConMmp' = ConMmp /\ ConIot' = ConIot
  BY <1>t, <1>2, <1>3, <1>c
     DEF EncolaIoNoBloqueante, ConMps, ConMmp, ConIot, DebeMmp, TieneIot, Entra, Sale, Igual,
         IInv, CpuCoherente, OcupaCpu, CpuConPcb, TypeOK
<1>5. CpuCoherente'
  BY <1>t, <1>2, <1>3, <1>c
     DEF IInv, EncolaIoNoBloqueante, CpuCoherente, CpuConPcb, OcupaCpu, Igual, Entra, Sale
<1>6. ProgramaCoherente'
  BY <1>t, <1>2, <1>c
     DEF IInv, EncolaIoNoBloqueante, ProgramaCoherente, pcbs, Igual, Entra, Sale
<1>7. TablaCoherente' /\ AvisoEsperaReanudar'
  BY <1>t, <1>2, <1>3, <1>4
     DEF IInv, EncolaIoNoBloqueante, TablaCoherente, AvisoEsperaReanudar, pcbs, Entra, Sale, Igual, TypeOK
<1>8. CupoMps' /\ CupoMmp' /\ CupoIot'
  BY <1>4 DEF IInv, EncolaIoNoBloqueante, CupoMps, CupoMmp, CupoIot, semaforos
<1>9. IInv'
  BY <1>u, <1>5, <1>6, <1>7, <1>8 DEF IInv, TInv
<1> QED BY <1>4, <1>1, <1>9

\* procer puts the PCB in tabla_suspendidos, its memory still taken.
LEMMA PasoSuspende ==
  ASSUME IInv, TInv', DecideSuspender
  PROVE  /\ IInv'
         /\ ConMps' = ConMps /\ ConMmp' = ConMmp /\ ConIot' = ConIot
         /\ Traslado(cpu.pcb, "cpu", "suspendidos")
<1>t. TypeOK /\ UnSoloLugar /\ CpuConPcb
  BY DEF IInv
<1>c. /\ cpu = [fase |-> cpu.fase, pcb |-> cpu.pcb, sigue |-> cpu.sigue,
                rafaga |-> cpu.rafaga]
      /\ cpu.pcb \in Procesos /\ cpu.pcb \in grupo["cpu"] /\ grupo["cpu"] = {cpu.pcb}
  <2>1. cpu = [fase |-> cpu.fase, pcb |-> cpu.pcb, sigue |-> cpu.sigue,
               rafaga |-> cpu.rafaga]
    BY <1>t DEF TypeOK
  <2>2. OcupaCpu /\ cpu.pcb \in Procesos
    BY <1>t DEF DecideSuspender, OcupaCpu, CpuConPcb
  <2>3. grupo["cpu"] = {cpu.pcb}
    BY <2>2 DEF IInv, CpuCoherente
  <2> QED BY <2>1, <2>2, <2>3
<1>v. /\ cpu.pcb \notin EnAlguno(LugaresFin) /\ cpu.pcb \notin EnAlguno(LugaresIot)
      /\ cpu.pcb \notin EnAlguno(LugaresSinCodigo) /\ cpu.pcb \in EnAlguno(LugaresMmp)
      /\ cpu.pcb \notin grupo["suspendidos"]
  BY <1>c, FamiliasVistas
<1>a. avisos[cpu.pcb] = 0
  BY <1>t, <1>c, <1>v DEF IInv, AvisoEsperaReanudar, TypeOK
<1>1. Traslado(cpu.pcb, "cpu", "suspendidos")
  BY <1>t, <1>c, PasaTraslada DEF DecideSuspender, Grupos
<1>2. /\ Igual(LugaresMps) /\ Igual(LugaresTabla) /\ Sale(LugaresMmp, cpu.pcb)
      /\ Igual(LugaresIot) /\ Igual(LugaresFin) /\ Igual(LugaresSinCodigo)
  <2>1. /\ Perfil("cpu", TRUE, TRUE, TRUE, FALSE, FALSE, FALSE)
        /\ Perfil("suspendidos", TRUE, TRUE, FALSE, FALSE, FALSE, FALSE)
    BY Perfiles
  <2> QED BY <1>t, <1>1, <2>1, EfectoMovimiento, ClasesNombradas DEF Perfil
<1>3. /\ cpu.pcb \in grupo["cpu"] /\ grupo'["cpu"] = grupo["cpu"] \ {cpu.pcb}
      /\ cpu.pcb \notin grupo["suspendidos"] /\ grupo'["suspendidos"] = grupo["suspendidos"] \cup {cpu.pcb}
  BY <1>t, <1>1, EfectoGrupo DEF GruposVistos
<1>u. UnSoloLugar'
  BY <1>t, <1>1, TrasladoUnSoloLugar
<1>4. /\ ConMps' = ConMps /\ ConMmp' = ConMmp /\ ConIot' = ConIot
  BY <1>t, <1>2, <1>3, <1>c
     DEF DecideSuspender, ConMps, ConMmp, ConIot, DebeMmp, TieneIot, Entra, Sale, Igual,
         IInv, CpuCoherente, OcupaCpu, CpuConPcb, TypeOK
<1>5. CpuCoherente'
  BY <1>t, <1>2, <1>3, <1>c, <1>a
     DEF IInv, DecideSuspender, CpuCoherente, CpuConPcb, OcupaCpu, Igual, Entra, Sale
<1>6. ProgramaCoherente'
  BY <1>t, <1>2, <1>c
     DEF IInv, DecideSuspender, ProgramaCoherente, pcbs, Igual, Entra, Sale
<1>7. TablaCoherente' /\ AvisoEsperaReanudar'
  BY <1>t, <1>2, <1>3, <1>4, <1>c
     DEF IInv, DecideSuspender, TablaCoherente, AvisoEsperaReanudar, pcbs, Entra, Sale, Igual, TypeOK
<1>8. CupoMps' /\ CupoMmp' /\ CupoIot'
  BY <1>4 DEF IInv, DecideSuspender, CupoMps, CupoMmp, CupoIot, semaforos
<1>9. IInv'
  BY <1>u, <1>5, <1>6, <1>7, <1>8 DEF IInv, TInv
<1> QED BY <1>4, <1>1, <1>9

\* procer gives the PCB back at the end of its quantum.
LEMMA PasoFinQuantum ==
  ASSUME IInv, TInv', DecideFinQuantum
  PROVE  /\ IInv'
         /\ ConMps' = ConMps /\ ConMmp' = ConMmp /\ ConIot' = ConIot
         /\ Traslado(cpu.pcb, "cpu", "fin_quantum")
<1>t. TypeOK /\ UnSoloLugar /\ CpuConPcb
  BY DEF IInv
<1>c. /\ cpu = [fase |-> cpu.fase, pcb |-> cpu.pcb, sigue |-> cpu.sigue,
                rafaga |-> cpu.rafaga]
      /\ cpu.pcb \in Procesos /\ cpu.pcb \in grupo["cpu"] /\ grupo["cpu"] = {cpu.pcb}
  <2>1. cpu = [fase |-> cpu.fase, pcb |-> cpu.pcb, sigue |-> cpu.sigue,
               rafaga |-> cpu.rafaga]
    BY <1>t DEF TypeOK
  <2>2. OcupaCpu /\ cpu.pcb \in Procesos
    BY <1>t DEF DecideFinQuantum, OcupaCpu, CpuConPcb
  <2>3. grupo["cpu"] = {cpu.pcb}
    BY <2>2 DEF IInv, CpuCoherente
  <2> QED BY <2>1, <2>2, <2>3
<1>v. /\ cpu.pcb \notin EnAlguno(LugaresFin) /\ cpu.pcb \notin EnAlguno(LugaresIot)
      /\ cpu.pcb \notin EnAlguno(LugaresSinCodigo) /\ cpu.pcb \in EnAlguno(LugaresMmp)
      /\ cpu.pcb \notin grupo["suspendidos"]
  BY <1>c, FamiliasVistas
<1>1. Traslado(cpu.pcb, "cpu", "fin_quantum")
  BY <1>t, <1>c, EncolaTraslada DEF DecideFinQuantum, Grupos, Colas
<1>2. /\ Igual(LugaresMps) /\ Igual(LugaresTabla) /\ Igual(LugaresMmp)
      /\ Igual(LugaresIot) /\ Igual(LugaresFin) /\ Igual(LugaresSinCodigo)
  <2>1. /\ Perfil("cpu", TRUE, TRUE, TRUE, FALSE, FALSE, FALSE)
        /\ Perfil("fin_quantum", TRUE, TRUE, TRUE, FALSE, FALSE, FALSE)
    BY Perfiles
  <2> QED BY <1>t, <1>1, <2>1, EfectoMovimiento, ClasesNombradas DEF Perfil
<1>3. /\ cpu.pcb \in grupo["cpu"] /\ grupo'["cpu"] = grupo["cpu"] \ {cpu.pcb}
      /\ cpu.pcb \notin grupo["suspendidos"] /\ grupo'["suspendidos"] = grupo["suspendidos"]
  BY <1>t, <1>1, EfectoGrupo DEF GruposVistos
<1>u. UnSoloLugar'
  BY <1>t, <1>1, TrasladoUnSoloLugar
<1>4. /\ ConMps' = ConMps /\ ConMmp' = ConMmp /\ ConIot' = ConIot
  BY <1>t, <1>2, <1>3, <1>c
     DEF DecideFinQuantum, ConMps, ConMmp, ConIot, DebeMmp, TieneIot, Entra, Sale, Igual,
         IInv, CpuCoherente, OcupaCpu, CpuConPcb, TypeOK
<1>5. CpuCoherente'
  BY <1>t, <1>2, <1>3, <1>c
     DEF IInv, DecideFinQuantum, CpuCoherente, CpuConPcb, OcupaCpu, Igual, Entra, Sale
<1>6. ProgramaCoherente'
  BY <1>t, <1>2, <1>c
     DEF IInv, DecideFinQuantum, ProgramaCoherente, pcbs, Igual, Entra, Sale
<1>7. TablaCoherente' /\ AvisoEsperaReanudar'
  BY <1>t, <1>2, <1>3, <1>4
     DEF IInv, DecideFinQuantum, TablaCoherente, AvisoEsperaReanudar, pcbs, Entra, Sale, Igual, TypeOK
<1>8. CupoMps' /\ CupoMmp' /\ CupoIot'
  BY <1>4 DEF IInv, DecideFinQuantum, CupoMps, CupoMmp, CupoIot, semaforos
<1>9. IInv'
  BY <1>u, <1>5, <1>6, <1>7, <1>8 DEF IInv, TInv
<1> QED BY <1>4, <1>1, <1>9

\* The last instruction hands the PCB to finalizados, its memory still taken.
LEMMA PasoAvanzaFin ==
  ASSUME IInv, TInv', Avanza, program_counter[cpu.pcb] = Len(codigo[cpu.pcb])
  PROVE  /\ IInv'
         /\ ConMps' = ConMps /\ ConMmp' = ConMmp /\ ConIot' = ConIot
         /\ Traslado(cpu.pcb, "cpu", "fin_programa")
<1>t. TypeOK /\ UnSoloLugar /\ CpuConPcb
  BY DEF IInv
<1>e. /\ Encola(cpu.pcb, "cpu", "fin_programa")
      /\ cpu.fase = "avanza" /\ cpu' = [cpu EXCEPT !.fase = "fin_mmp"]
      /\ program_counter' = [program_counter EXCEPT ![cpu.pcb] = @ + 1]
      /\ UNCHANGED <<semaforos, tabla_procesos, codigo, avisos>>
  BY DEF Avanza
<1>s. cpu.sigue
  <2>1. cpu.pcb \in Procesos
    BY <1>t, <1>e DEF CpuConPcb
  <2>2. program_counter[cpu.pcb] \in Nat
    BY <1>t, <2>1 DEF TypeOK
  <2>3. ~cpu.sigue => program_counter[cpu.pcb] < Len(codigo[cpu.pcb])
    BY <1>e DEF IInv, ProgramaCoherente
  <2> QED BY <2>2, <2>3
<1>c. /\ cpu = [fase |-> cpu.fase, pcb |-> cpu.pcb, sigue |-> cpu.sigue,
                rafaga |-> cpu.rafaga]
      /\ cpu.pcb \in Procesos /\ cpu.pcb \in grupo["cpu"] /\ grupo["cpu"] = {cpu.pcb}
  <2>1. cpu = [fase |-> cpu.fase, pcb |-> cpu.pcb, sigue |-> cpu.sigue,
               rafaga |-> cpu.rafaga]
    BY <1>t DEF TypeOK
  <2>2. OcupaCpu /\ cpu.pcb \in Procesos
    BY <1>t, <1>e, <1>s DEF OcupaCpu, CpuConPcb
  <2>3. grupo["cpu"] = {cpu.pcb}
    BY <2>2 DEF IInv, CpuCoherente
  <2> QED BY <2>1, <2>2, <2>3
<1>v. /\ cpu.pcb \notin EnAlguno(LugaresFin) /\ cpu.pcb \notin EnAlguno(LugaresIot)
      /\ cpu.pcb \notin EnAlguno(LugaresSinCodigo) /\ cpu.pcb \in EnAlguno(LugaresMmp)
      /\ cpu.pcb \notin grupo["suspendidos"]
  BY <1>c, FamiliasVistas
<1>k. /\ codigo[cpu.pcb] \in Programas
      /\ program_counter[cpu.pcb] \in Nat /\ program_counter[cpu.pcb] >= 1
      /\ program_counter[cpu.pcb] <= Len(codigo[cpu.pcb])
      /\ codigo[cpu.pcb] \in Seq(Efectos)
  BY <1>t, <1>c, <1>v DEF IInv, ProgramaCoherente, TypeOK
<1>1. Traslado(cpu.pcb, "cpu", "fin_programa")
  BY <1>t, <1>c, <1>e, EncolaTraslada DEF Grupos, Colas
<1>2. /\ Igual(LugaresMps) /\ Igual(LugaresTabla) /\ Sale(LugaresMmp, cpu.pcb)
      /\ Igual(LugaresIot) /\ Entra(LugaresFin, cpu.pcb) /\ Igual(LugaresSinCodigo)
  <2>1. /\ Perfil("cpu", TRUE, TRUE, TRUE, FALSE, FALSE, FALSE)
        /\ Perfil("fin_programa", TRUE, TRUE, FALSE, FALSE, TRUE, FALSE)
    BY Perfiles
  <2> QED BY <1>t, <1>1, <2>1, EfectoMovimiento, ClasesNombradas DEF Perfil
<1>3. /\ cpu.pcb \in grupo["cpu"] /\ grupo'["cpu"] = grupo["cpu"] \ {cpu.pcb}
      /\ cpu.pcb \notin grupo["suspendidos"] /\ grupo'["suspendidos"] = grupo["suspendidos"]
  BY <1>t, <1>1, EfectoGrupo DEF GruposVistos
<1>u. UnSoloLugar'
  BY <1>t, <1>1, TrasladoUnSoloLugar
<1>4. /\ ConMps' = ConMps /\ ConMmp' = ConMmp /\ ConIot' = ConIot
  BY <1>t, <1>2, <1>3, <1>c, <1>e
     DEF Avanza, ConMps, ConMmp, ConIot, DebeMmp, TieneIot, Entra, Sale, Igual,
         IInv, CpuCoherente, OcupaCpu, CpuConPcb, TypeOK
<1>5. CpuCoherente'
  BY <1>t, <1>2, <1>3, <1>c, <1>e
     DEF IInv, Avanza, CpuCoherente, CpuConPcb, OcupaCpu, Igual, Entra, Sale
<1>6. ProgramaCoherente'
  <2>1. /\ program_counter'[cpu.pcb] = program_counter[cpu.pcb] + 1
        /\ \A r \in Procesos \ {cpu.pcb} : program_counter'[r] = program_counter[r]
        /\ codigo' = codigo /\ cpu'.fase = "fin_mmp"
    BY <1>t, <1>c, <1>e DEF TypeOK
  <2>2. ASSUME NEW r \in Procesos
        PROVE  /\ program_counter'[r] >= 1
               /\ IF r \in EnAlguno(LugaresSinCodigo)'
                    THEN codigo'[r] = <<>> /\ program_counter'[r] = 1
                    ELSE /\ codigo'[r] \in Programas
                         /\ IF r \in EnAlguno(LugaresFin)'
                              THEN program_counter'[r] = Len(codigo'[r]) + 1
                              ELSE program_counter'[r] <= Len(codigo'[r])
    <3>1. CASE r = cpu.pcb
      BY <1>2, <1>k, <1>v, <2>1, <3>1 DEF Entra, Igual
    <3>2. CASE r # cpu.pcb
      BY <1>2, <2>1, <3>2 DEF IInv, ProgramaCoherente, Entra, Igual
    <3> QED BY <3>1, <3>2
  <2> QED BY <2>1, <2>2 DEF ProgramaCoherente
<1>7. TablaCoherente' /\ AvisoEsperaReanudar'
  BY <1>t, <1>2, <1>3, <1>4, <1>c, <1>e
     DEF IInv, Avanza, TablaCoherente, AvisoEsperaReanudar, pcbs, Entra, Sale, Igual, TypeOK
<1>8. CupoMps' /\ CupoMmp' /\ CupoIot'
  BY <1>4, <1>e DEF IInv, Avanza, CupoMps, CupoMmp, CupoIot, semaforos
<1>9. IInv'
  BY <1>u, <1>5, <1>6, <1>7, <1>8 DEF IInv, TInv
<1> QED BY <1>4, <1>1, <1>9

\* An instruction that needs no I/O.
LEMMA PasoEjecutaCpu ==
  ASSUME IInv, TInv', EjecutaCpu
  PROVE  /\ IInv'
         /\ ConMps' = ConMps /\ ConMmp' = ConMmp /\ ConIot' = ConIot
<1>t. TypeOK /\ UnSoloLugar /\ CpuConPcb
  BY DEF IInv
<1>1. UNCHANGED <<cola, grupo>>
  BY DEF EjecutaCpu
<1>2. \A C : EnAlguno(C)' = EnAlguno(C)
  BY <1>1, Quietud
<1>u. UnSoloLugar'
  BY <1>1, <1>t DEF UnSoloLugar, En, Contenido
<1>c. cpu = [fase |-> cpu.fase, pcb |-> cpu.pcb, sigue |-> cpu.sigue,
             rafaga |-> cpu.rafaga]
  BY <1>t DEF TypeOK
<1>4. /\ ConMps' = ConMps /\ ConMmp' = ConMmp /\ ConIot' = ConIot
  BY <1>t, <1>2, <1>c
     DEF EjecutaCpu, ConMps, ConMmp, ConIot, DebeMmp, TieneIot, IInv, CpuCoherente
<1>5. CpuCoherente'
  BY <1>t, <1>1, <1>2, <1>c
     DEF IInv, EjecutaCpu, CpuCoherente, CpuConPcb, OcupaCpu, TypeOK
<1>6. ProgramaCoherente'
  BY <1>t, <1>2, <1>c
     DEF IInv, EjecutaCpu, ProgramaCoherente, pcbs
<1>7. TablaCoherente' /\ AvisoEsperaReanudar'
  BY <1>t, <1>1, <1>2, <1>4
     DEF IInv, EjecutaCpu, TablaCoherente, AvisoEsperaReanudar, pcbs, TypeOK
<1>8. CupoMps' /\ CupoMmp' /\ CupoIot'
  BY <1>4 DEF IInv, EjecutaCpu, CupoMps, CupoMmp, CupoIot, semaforos
<1>9. IInv'
  BY <1>u, <1>5, <1>6, <1>7, <1>8 DEF IInv, TInv
<1> QED BY <1>4, <1>9

\* sem_trywait takes an I/O thread for the running process.
LEMMA PasoTomaIot ==
  ASSUME SinIoFinal, IInv, TInv', EjecutaIoNoBloqueante
  PROVE  /\ IInv'
         /\ ConIot' = ConIot \cup {cpu.pcb} /\ cpu.pcb \notin ConIot
         /\ ConMps' = ConMps /\ ConMmp' = ConMmp
<1>t. TypeOK /\ UnSoloLugar /\ CpuConPcb
  BY DEF IInv
<1>1. UNCHANGED <<cola, grupo>>
  BY DEF EjecutaIoNoBloqueante
<1>2. \A C : EnAlguno(C)' = EnAlguno(C)
  BY <1>1, Quietud
<1>u. UnSoloLugar'
  BY <1>1, <1>t DEF UnSoloLugar, En, Contenido
<1>c. cpu = [fase |-> cpu.fase, pcb |-> cpu.pcb, sigue |-> cpu.sigue,
             rafaga |-> cpu.rafaga]
  BY <1>t DEF TypeOK
<1>v. cpu.pcb \in Procesos /\ cpu.pcb \in grupo["cpu"]
  BY <1>t DEF IInv, EjecutaIoNoBloqueante, CpuCoherente, OcupaCpu, CpuConPcb
<1>w. /\ cpu.pcb \notin EnAlguno(LugaresIot) /\ cpu.pcb \notin EnAlguno(LugaresFin)
      /\ cpu.pcb \notin EnAlguno(LugaresSinCodigo)
  BY <1>v, FamiliasVistas
<1>k. /\ codigo[cpu.pcb] \in Programas
      /\ program_counter[cpu.pcb] \in Nat /\ program_counter[cpu.pcb] >= 1
      /\ program_counter[cpu.pcb] <= Len(codigo[cpu.pcb])
      /\ codigo[cpu.pcb] \in Seq(Efectos)
  BY <1>t, <1>v, <1>w DEF IInv, ProgramaCoherente, TypeOK
<1>n. program_counter[cpu.pcb] < Len(codigo[cpu.pcb])
  <2>1. codigo[cpu.pcb][program_counter[cpu.pcb]] # "cpu"
    BY DEF EjecutaIoNoBloqueante, Instruccion
  <2>2. program_counter[cpu.pcb] # Len(codigo[cpu.pcb])
    BY <1>k, <2>1 DEF SinIoFinal
  <2> QED BY <1>k, <2>2
<1>4. /\ ConIot' = ConIot \cup {cpu.pcb} /\ cpu.pcb \notin ConIot
      /\ ConMps' = ConMps /\ ConMmp' = ConMmp
  BY <1>t, <1>2, <1>c, <1>v, <1>w
     DEF EjecutaIoNoBloqueante, ConMps, ConMmp, ConIot, DebeMmp, TieneIot, IInv, CpuCoherente
<1>5. CpuCoherente'
  BY <1>t, <1>1, <1>2, <1>c
     DEF IInv, EjecutaIoNoBloqueante, CpuCoherente, CpuConPcb, OcupaCpu, TypeOK
<1>6. ProgramaCoherente'
  BY <1>t, <1>2, <1>c, <1>n
     DEF IInv, EjecutaIoNoBloqueante, ProgramaCoherente, pcbs
<1>7. TablaCoherente' /\ AvisoEsperaReanudar'
  BY <1>t, <1>1, <1>2, <1>4
     DEF IInv, EjecutaIoNoBloqueante, TablaCoherente, AvisoEsperaReanudar, pcbs, TypeOK
<1>8. CupoMps' /\ CupoMmp' /\ CupoIot'
  <2>1. CupoIot'
    BY <1>4, CupoIotToma DEF EjecutaIoNoBloqueante
  <2> QED BY <1>4, <2>1 DEF IInv, EjecutaIoNoBloqueante, CupoMps, CupoMmp, semaforos
<1>9. IInv'
  BY <1>u, <1>5, <1>6, <1>7, <1>8 DEF IInv, TInv
<1> QED BY <1>4, <1>9

\* sem_trywait finds no I/O thread.
LEMMA PasoFallaIo ==
  ASSUME IInv, TInv', FallaIoNoBloqueante
  PROVE  /\ IInv'
         /\ ConMps' = ConMps /\ ConMmp' = ConMmp /\ ConIot' = ConIot
<1>t. TypeOK /\ UnSoloLugar /\ CpuConPcb
  BY DEF IInv
<1>1. UNCHANGED <<cola, grupo>>
  BY DEF FallaIoNoBloqueante
<1>2. \A C : EnAlguno(C)' = EnAlguno(C)
  BY <1>1, Quietud
<1>u. UnSoloLugar'
  BY <1>1, <1>t DEF UnSoloLugar, En, Contenido
<1>c. cpu = [fase |-> cpu.fase, pcb |-> cpu.pcb, sigue |-> cpu.sigue,
             rafaga |-> cpu.rafaga]
  BY <1>t DEF TypeOK
<1>4. /\ ConMps' = ConMps /\ ConMmp' = ConMmp /\ ConIot' = ConIot
  BY <1>t, <1>2, <1>c
     DEF FallaIoNoBloqueante, ConMps, ConMmp, ConIot, DebeMmp, TieneIot, IInv, CpuCoherente
<1>5. CpuCoherente'
  BY <1>t, <1>1, <1>2, <1>c
     DEF IInv, FallaIoNoBloqueante, CpuCoherente, CpuConPcb, OcupaCpu, TypeOK
<1>6. ProgramaCoherente'
  BY <1>t, <1>2, <1>c
     DEF IInv, FallaIoNoBloqueante, ProgramaCoherente, pcbs
<1>7. TablaCoherente' /\ AvisoEsperaReanudar'
  BY <1>t, <1>1, <1>2, <1>4
     DEF IInv, FallaIoNoBloqueante, TablaCoherente, AvisoEsperaReanudar, pcbs, TypeOK
<1>8. CupoMps' /\ CupoMmp' /\ CupoIot'
  BY <1>4 DEF IInv, FallaIoNoBloqueante, CupoMps, CupoMmp, CupoIot, semaforos
<1>9. IInv'
  BY <1>u, <1>5, <1>6, <1>7, <1>8 DEF IInv, TInv
<1> QED BY <1>4, <1>9

\* An instruction that is not the last of its program.
LEMMA PasoAvanzaSigue ==
  ASSUME IInv, TInv', Avanza, program_counter[cpu.pcb] # Len(codigo[cpu.pcb])
  PROVE  /\ IInv'
         /\ ConMps' = ConMps /\ ConMmp' = ConMmp /\ ConIot' = ConIot
<1>t. TypeOK /\ UnSoloLugar /\ CpuConPcb
  BY DEF IInv
<1>1. UNCHANGED <<cola, grupo>>
  BY DEF Avanza
<1>2. \A C : EnAlguno(C)' = EnAlguno(C)
  BY <1>1, Quietud
<1>u. UnSoloLugar'
  BY <1>1, <1>t DEF UnSoloLugar, En, Contenido
<1>c. cpu = [fase |-> cpu.fase, pcb |-> cpu.pcb, sigue |-> cpu.sigue,
             rafaga |-> cpu.rafaga]
  BY <1>t DEF TypeOK
<1>p. cpu.pcb \in Procesos
  BY <1>t DEF Avanza, CpuConPcb
<1>n. /\ program_counter[cpu.pcb] \in Nat /\ program_counter[cpu.pcb] >= 1
      /\ program_counter[cpu.pcb] < Len(codigo[cpu.pcb])
      /\ Len(codigo[cpu.pcb]) \in Nat
  <2>1. /\ program_counter[cpu.pcb] \in Nat /\ codigo[cpu.pcb] \in Seq(Efectos)
        /\ program_counter[cpu.pcb] >= 1 /\ Len(codigo[cpu.pcb]) \in Nat
    BY <1>t, <1>p DEF IInv, TypeOK, ProgramaCoherente
  <2>2. CASE cpu.sigue
    <3>1. cpu.pcb \in grupo["cpu"]
      BY <2>2 DEF IInv, Avanza, CpuCoherente, OcupaCpu
    <3>2. program_counter[cpu.pcb] <= Len(codigo[cpu.pcb])
      BY <1>p, <3>1, FamiliasVistas DEF IInv, ProgramaCoherente
    <3> QED BY <2>1, <3>2
  <2>3. CASE ~cpu.sigue
    BY <2>1, <2>3 DEF IInv, Avanza, ProgramaCoherente
  <2> QED BY <2>2, <2>3
<1>k. /\ cpu.pcb \notin EnAlguno(LugaresSinCodigo)
      /\ cpu.pcb \notin EnAlguno(LugaresFin)
      /\ codigo[cpu.pcb] \in Programas
  <2>1. codigo[cpu.pcb] # <<>> /\ program_counter[cpu.pcb] # Len(codigo[cpu.pcb]) + 1
    BY <1>n
  <2> QED BY <1>p, <2>1 DEF IInv, ProgramaCoherente
<1>4. /\ ConMps' = ConMps /\ ConMmp' = ConMmp /\ ConIot' = ConIot
  BY <1>t, <1>2, <1>c
     DEF Avanza, ConMps, ConMmp, ConIot, DebeMmp, TieneIot, IInv, CpuCoherente
<1>5. CpuCoherente'
  BY <1>t, <1>1, <1>2, <1>c
     DEF IInv, Avanza, CpuCoherente, CpuConPcb, OcupaCpu, TypeOK
<1>6. ProgramaCoherente'
  <2>1. /\ program_counter'[cpu.pcb] = program_counter[cpu.pcb] + 1
        /\ \A r \in Procesos \ {cpu.pcb} : program_counter'[r] = program_counter[r]
        /\ codigo' = codigo /\ cpu'.fase = "decide"
    BY <1>t, <1>p, <1>c DEF Avanza, TypeOK
  <2>2. ASSUME NEW r \in Procesos
        PROVE  /\ program_counter'[r] >= 1
               /\ IF r \in EnAlguno(LugaresSinCodigo)'
                    THEN codigo'[r] = <<>> /\ program_counter'[r] = 1
                    ELSE /\ codigo'[r] \in Programas
                         /\ IF r \in EnAlguno(LugaresFin)'
                              THEN program_counter'[r] = Len(codigo'[r]) + 1
                              ELSE program_counter'[r] <= Len(codigo'[r])
    <3>1. CASE r = cpu.pcb
      BY <1>2, <1>k, <1>n, <2>1, <3>1
    <3>2. CASE r # cpu.pcb
      BY <1>2, <2>1, <3>2 DEF IInv, ProgramaCoherente
    <3> QED BY <3>1, <3>2
  <2> QED BY <2>1, <2>2 DEF ProgramaCoherente
<1>7. TablaCoherente' /\ AvisoEsperaReanudar'
  BY <1>t, <1>1, <1>2, <1>4
     DEF IInv, Avanza, TablaCoherente, AvisoEsperaReanudar, pcbs, TypeOK
<1>8. CupoMps' /\ CupoMmp' /\ CupoIot'
  BY <1>4 DEF IInv, Avanza, CupoMps, CupoMmp, CupoIot, semaforos
<1>9. IInv'
  BY <1>u, <1>5, <1>6, <1>7, <1>8 DEF IInv, TInv
<1> QED BY <1>4, <1>9

\* procer returns the memory of the process that ended.
LEMMA PasoFinMmp ==
  ASSUME IInv, TInv', FinMmp
  PROVE  /\ IInv'
         /\ ConMmp' = ConMmp \ {cpu.pcb} /\ cpu.pcb \in ConMmp
         /\ ConMps' = ConMps /\ ConIot' = ConIot
<1>t. TypeOK /\ UnSoloLugar /\ CpuConPcb
  BY DEF IInv
<1>1. UNCHANGED <<cola, grupo>>
  BY DEF FinMmp
<1>2. \A C : EnAlguno(C)' = EnAlguno(C)
  BY <1>1, Quietud
<1>u. UnSoloLugar'
  BY <1>1, <1>t DEF UnSoloLugar, En, Contenido
<1>c. cpu = [fase |-> cpu.fase, pcb |-> cpu.pcb, sigue |-> cpu.sigue,
             rafaga |-> cpu.rafaga]
  BY <1>t DEF TypeOK
<1>v. cpu.pcb \in Procesos /\ cpu.pcb \notin EnAlguno(LugaresMmp)
  BY <1>t, FamiliasVistas DEF IInv, FinMmp, CpuCoherente, CpuConPcb
<1>4. /\ ConMmp' = ConMmp \ {cpu.pcb} /\ cpu.pcb \in ConMmp
      /\ ConMps' = ConMps /\ ConIot' = ConIot
  BY <1>t, <1>2, <1>c, <1>v
     DEF FinMmp, ConMps, ConMmp, ConIot, DebeMmp, TieneIot, IInv, CpuCoherente
<1>5. CpuCoherente'
  BY <1>t, <1>1, <1>2, <1>c
     DEF IInv, FinMmp, CpuCoherente, CpuConPcb, OcupaCpu, TypeOK
<1>6. ProgramaCoherente'
  BY <1>t, <1>2, <1>c
     DEF IInv, FinMmp, ProgramaCoherente, pcbs
<1>7. TablaCoherente' /\ AvisoEsperaReanudar'
  BY <1>t, <1>1, <1>2, <1>4
     DEF IInv, FinMmp, TablaCoherente, AvisoEsperaReanudar, pcbs, TypeOK
<1>8. CupoMps' /\ CupoMmp' /\ CupoIot'
  <2>1. CupoMmp'
    BY <1>4, CupoMmpDevuelve DEF FinMmp
  <2> QED BY <1>4, <2>1 DEF IInv, FinMmp, CupoMps, CupoIot, semaforos
<1>9. IInv'
  BY <1>u, <1>5, <1>6, <1>7, <1>8 DEF IInv, TInv
<1> QED BY <1>4, <1>9

\* procer goes on, or leaves the loop without touching the PCB.
LEMMA PasoSeguir ==
  ASSUME IInv, TInv', DecideSeguir
  PROVE  /\ IInv'
         /\ ConMps' = ConMps /\ ConMmp' = ConMmp /\ ConIot' = ConIot
<1>t. TypeOK /\ UnSoloLugar /\ CpuConPcb
  BY DEF IInv
<1>1. UNCHANGED <<cola, grupo>>
  BY DEF DecideSeguir
<1>2. \A C : EnAlguno(C)' = EnAlguno(C)
  BY <1>1, Quietud
<1>u. UnSoloLugar'
  BY <1>1, <1>t DEF UnSoloLugar, En, Contenido
<1>c. cpu = [fase |-> cpu.fase, pcb |-> cpu.pcb, sigue |-> cpu.sigue,
             rafaga |-> cpu.rafaga]
  BY <1>t DEF TypeOK
<1>4. /\ ConMps' = ConMps /\ ConMmp' = ConMmp /\ ConIot' = ConIot
  BY <1>t, <1>2, <1>c
     DEF DecideSeguir, ConMps, ConMmp, ConIot, DebeMmp, TieneIot, IInv, CpuCoherente
<1>5. CpuCoherente'
  BY <1>t, <1>1, <1>2, <1>c
     DEF IInv, DecideSeguir, CpuCoherente, CpuConPcb, OcupaCpu, TypeOK
<1>6. ProgramaCoherente'
  BY <1>t, <1>2, <1>c
     DEF IInv, DecideSeguir, ProgramaCoherente, pcbs
<1>7. TablaCoherente' /\ AvisoEsperaReanudar'
  BY <1>t, <1>1, <1>2, <1>4
     DEF IInv, DecideSeguir, TablaCoherente, AvisoEsperaReanudar, pcbs, TypeOK
<1>8. CupoMps' /\ CupoMmp' /\ CupoIot'
  BY <1>4 DEF IInv, DecideSeguir, CupoMps, CupoMmp, CupoIot, semaforos
<1>9. IInv'
  BY <1>u, <1>5, <1>6, <1>7, <1>8 DEF IInv, TInv
<1> QED BY <1>4, <1>9

\* procer returns the memory of the suspended process.
LEMMA PasoSuspenderMmp ==
  ASSUME IInv, TInv', SuspenderMmp
  PROVE  /\ IInv'
         /\ ConMmp' = ConMmp \ {cpu.pcb} /\ cpu.pcb \in ConMmp
         /\ ConMps' = ConMps /\ ConIot' = ConIot
<1>t. TypeOK /\ UnSoloLugar /\ CpuConPcb
  BY DEF IInv
<1>1. UNCHANGED <<cola, grupo>>
  BY DEF SuspenderMmp
<1>2. \A C : EnAlguno(C)' = EnAlguno(C)
  BY <1>1, Quietud
<1>u. UnSoloLugar'
  BY <1>1, <1>t DEF UnSoloLugar, En, Contenido
<1>c. cpu = [fase |-> cpu.fase, pcb |-> cpu.pcb, sigue |-> cpu.sigue,
             rafaga |-> cpu.rafaga]
  BY <1>t DEF TypeOK
<1>v. /\ cpu.pcb \in Procesos /\ cpu.pcb \in grupo["suspendidos"]
      /\ avisos[cpu.pcb] = 0 /\ cpu.pcb \notin EnAlguno(LugaresMmp)
      /\ cpu.pcb \in EnAlguno(LugaresTabla)
  BY <1>t, FamiliasVistas DEF IInv, SuspenderMmp, CpuCoherente, CpuConPcb
<1>4. /\ ConMmp' = ConMmp \ {cpu.pcb} /\ cpu.pcb \in ConMmp
      /\ ConMps' = ConMps /\ ConIot' = ConIot
  BY <1>t, <1>2, <1>c, <1>v
     DEF SuspenderMmp, ConMps, ConMmp, ConIot, DebeMmp, TieneIot, IInv, CpuCoherente
<1>5. CpuCoherente'
  BY <1>t, <1>1, <1>2, <1>c, <1>v
     DEF IInv, SuspenderMmp, CpuCoherente, CpuConPcb, OcupaCpu, TypeOK
<1>6. ProgramaCoherente'
  BY <1>t, <1>2, <1>c
     DEF IInv, SuspenderMmp, ProgramaCoherente, pcbs
<1>7. TablaCoherente' /\ AvisoEsperaReanudar'
  BY <1>t, <1>1, <1>2, <1>4
     DEF IInv, SuspenderMmp, TablaCoherente, AvisoEsperaReanudar, pcbs, TypeOK
<1>8. CupoMps' /\ CupoMmp' /\ CupoIot'
  <2>1. CupoMmp'
    BY <1>4, CupoMmpDevuelve DEF SuspenderMmp
  <2> QED BY <1>4, <2>1 DEF IInv, SuspenderMmp, CupoMps, CupoIot, semaforos
<1>9. IInv'
  BY <1>u, <1>5, <1>6, <1>7, <1>8 DEF IInv, TInv
<1> QED BY <1>4, <1>9

\* The client is asked to resume its process.
LEMMA PasoSuspenderEnvia ==
  ASSUME IInv, TInv', SuspenderEnvia
  PROVE  /\ IInv'
         /\ ConMps' = ConMps /\ ConMmp' = ConMmp /\ ConIot' = ConIot
<1>t. TypeOK /\ UnSoloLugar /\ CpuConPcb
  BY DEF IInv
<1>1. UNCHANGED <<cola, grupo>>
  BY DEF SuspenderEnvia
<1>2. \A C : EnAlguno(C)' = EnAlguno(C)
  BY <1>1, Quietud
<1>u. UnSoloLugar'
  BY <1>1, <1>t DEF UnSoloLugar, En, Contenido
<1>c. cpu = [fase |-> cpu.fase, pcb |-> cpu.pcb, sigue |-> cpu.sigue,
             rafaga |-> cpu.rafaga]
  BY <1>t DEF TypeOK
<1>v. /\ cpu.pcb \in Procesos /\ cpu.pcb \in grupo["suspendidos"]
      /\ avisos[cpu.pcb] = 0 /\ cpu.pcb \notin EnAlguno(LugaresMmp)
      /\ cpu.pcb \in EnAlguno(LugaresTabla)
  BY <1>t, FamiliasVistas DEF IInv, SuspenderEnvia, CpuCoherente, CpuConPcb
<1>a. /\ avisos'[cpu.pcb] = 1 /\ cpu.pcb \notin ConMmp'
      /\ \A r \in Procesos \ {cpu.pcb} : avisos'[r] = avisos[r]
  BY <1>t, <1>v, <1>2, <1>c DEF SuspenderEnvia, TypeOK, ConMmp, DebeMmp
<1>4. /\ ConMps' = ConMps /\ ConMmp' = ConMmp /\ ConIot' = ConIot
  BY <1>t, <1>2, <1>c
     DEF SuspenderEnvia, ConMps, ConMmp, ConIot, DebeMmp, TieneIot, IInv, CpuCoherente
<1>5. CpuCoherente'
  BY <1>t, <1>1, <1>2, <1>c, <1>v
     DEF IInv, SuspenderEnvia, CpuCoherente, CpuConPcb, OcupaCpu, TypeOK
<1>6. ProgramaCoherente'
  BY <1>t, <1>2, <1>c
     DEF IInv, SuspenderEnvia, ProgramaCoherente, pcbs
<1>7. TablaCoherente' /\ AvisoEsperaReanudar'
  BY <1>t, <1>1, <1>2, <1>4, <1>v, <1>a
     DEF IInv, SuspenderEnvia, TablaCoherente, AvisoEsperaReanudar, pcbs, TypeOK
<1>8. CupoMps' /\ CupoMmp' /\ CupoIot'
  BY <1>4 DEF IInv, SuspenderEnvia, CupoMps, CupoMmp, CupoIot, semaforos
<1>9. IInv'
  BY <1>u, <1>5, <1>6, <1>7, <1>8 DEF IInv, TInv
<1> QED BY <1>4, <1>9

\* procer clears the request it served.
LEMMA PasoSuspenderLimpia ==
  ASSUME IInv, TInv', SuspenderLimpia
  PROVE  /\ IInv'
         /\ ConMps' = ConMps /\ ConMmp' = ConMmp /\ ConIot' = ConIot
<1>t. TypeOK /\ UnSoloLugar /\ CpuConPcb
  BY DEF IInv
<1>1. UNCHANGED <<cola, grupo>>
  BY DEF SuspenderLimpia
<1>2. \A C : EnAlguno(C)' = EnAlguno(C)
  BY <1>1, Quietud
<1>u. UnSoloLugar'
  BY <1>1, <1>t DEF UnSoloLugar, En, Contenido
<1>c. cpu = [fase |-> cpu.fase, pcb |-> cpu.pcb, sigue |-> cpu.sigue,
             rafaga |-> cpu.rafaga]
  BY <1>t DEF TypeOK
<1>4. /\ ConMps' = ConMps /\ ConMmp' = ConMmp /\ ConIot' = ConIot
  BY <1>t, <1>2, <1>c
     DEF SuspenderLimpia, ConMps, ConMmp, ConIot, DebeMmp, TieneIot, IInv, CpuCoherente
<1>5. CpuCoherente'
  BY <1>t, <1>1, <1>2, <1>c
     DEF IInv, SuspenderLimpia, CpuCoherente, CpuConPcb, OcupaCpu, TypeOK
<1>6. ProgramaCoherente'
  BY <1>t, <1>2, <1>c
     DEF IInv, SuspenderLimpia, ProgramaCoherente, pcbs
<1>7. TablaCoherente' /\ AvisoEsperaReanudar'
  BY <1>t, <1>1, <1>2, <1>4
     DEF IInv, SuspenderLimpia, TablaCoherente, AvisoEsperaReanudar, pcbs, TypeOK
<1>8. CupoMps' /\ CupoMmp' /\ CupoIot'
  BY <1>4 DEF IInv, SuspenderLimpia, CupoMps, CupoMmp, CupoIot, semaforos
<1>9. IInv'
  BY <1>u, <1>5, <1>6, <1>7, <1>8 DEF IInv, TInv
<1> QED BY <1>4, <1>9

\* procer counts the instruction and looks at seguir_ejecutando.
LEMMA PasoCuenta ==
  ASSUME IInv, TInv', Cuenta
  PROVE  /\ IInv'
         /\ ConMps' = ConMps /\ ConMmp' = ConMmp /\ ConIot' = ConIot
<1>t. TypeOK /\ UnSoloLugar /\ CpuConPcb
  BY DEF IInv
<1>1. UNCHANGED <<cola, grupo>>
  BY DEF Cuenta
<1>2. \A C : EnAlguno(C)' = EnAlguno(C)
  BY <1>1, Quietud
<1>u. UnSoloLugar'
  BY <1>1, <1>t DEF UnSoloLugar, En, Contenido
<1>c. cpu = [fase |-> cpu.fase, pcb |-> cpu.pcb, sigue |-> cpu.sigue,
             rafaga |-> cpu.rafaga]
  BY <1>t DEF TypeOK
<1>d. /\ cpu.sigue => cpu'.fase = "ejecuta" /\ cpu'.pcb = cpu.pcb
      /\ ~cpu.sigue => cpu'.fase = "espera"
      /\ cpu.fase = "cuenta"
  BY <1>c DEF Cuenta
<1>4. /\ ConMps' = ConMps /\ ConMmp' = ConMmp /\ ConIot' = ConIot
  BY <1>t, <1>2, <1>c, <1>d
     DEF Cuenta, ConMps, ConMmp, ConIot, DebeMmp, TieneIot, IInv, CpuCoherente
<1>5. CpuCoherente'
  BY <1>t, <1>1, <1>2, <1>c, <1>d
     DEF IInv, Cuenta, CpuCoherente, CpuConPcb, OcupaCpu, TypeOK
<1>6. ProgramaCoherente'
  BY <1>t, <1>2, <1>c, <1>d
     DEF IInv, Cuenta, ProgramaCoherente, pcbs
<1>7. TablaCoherente' /\ AvisoEsperaReanudar'
  BY <1>t, <1>1, <1>2, <1>4
     DEF IInv, Cuenta, TablaCoherente, AvisoEsperaReanudar, pcbs, TypeOK
<1>8. CupoMps' /\ CupoMmp' /\ CupoIot'
  BY <1>4 DEF IInv, Cuenta, CupoMps, CupoMmp, CupoIot, semaforos
<1>9. IInv'
  BY <1>u, <1>5, <1>6, <1>7, <1>8 DEF IInv, TInv
<1> QED BY <1>4, <1>9

\* A signal, a reload of pp.conf, or nothing.
LEMMA PasoEntorno ==
  ASSUME IInv, TInv',
         UNCHANGED <<cola, grupo, semaforos, pcbs, cpu, avisos>>
  PROVE  IInv' /\ ConMps' = ConMps /\ ConMmp' = ConMmp
<1>1. UNCHANGED <<cola, grupo>>
  OBVIOUS
<1>2. \A C : EnAlguno(C)' = EnAlguno(C)
  BY <1>1, Quietud
<1>3. UnSoloLugar'
  BY DEF IInv, UnSoloLugar, En, Contenido
<1>4. ConMps' = ConMps /\ ConMmp' = ConMmp /\ ConIot' = ConIot
  BY <1>2 DEF ConMps, ConMmp, ConIot, DebeMmp, TieneIot
<1>5. CpuCoherente' /\ ProgramaCoherente'
  BY <1>2 DEF IInv, CpuCoherente, OcupaCpu, ProgramaCoherente, pcbs
<1>6. TablaCoherente' /\ AvisoEsperaReanudar'
  BY <1>2, <1>4 DEF IInv, TablaCoherente, AvisoEsperaReanudar, pcbs
<1>7. CupoMps' /\ CupoMmp' /\ CupoIot'
  BY <1>4 DEF IInv, CupoMps, CupoMmp, CupoIot, semaforos
<1>8. IInv'
  BY <1>3, <1>5, <1>6, <1>7 DEF IInv, TInv
<1> QED BY <1>4, <1>8

-----------------------------------------------------------------------------
(* The theorems.                                                             *)

\* Every step keeps the inductive invariant: one case per action of Next.
LEMMA PasoIInv ==
  ASSUME SinIoFinal, IInv, [Next]_vars
  PROVE  IInv'
<1>t. TInv'
  BY PasoTipo DEF IInv, TInv
<1>1. CASE Silencioso
  BY <1>t, <1>1, PasoSilencioso
<1>2. ASSUME NEW p \in Procesos, Lts(p) PROVE IInv'
  <2>1. CASE LtsAcepta(p)
    BY <1>t, <2>1, PasoAcepta
  <2>2. CASE LtsRechaza(p)
    BY <1>t, <2>2, PasoRechaza
  <2>5. CASE LtsPrioridad(p)
    BY <1>1, <2>5 DEF Silencioso
  <2>3. CASE LtsCodigo(p)
    BY <1>t, <2>3, PasoCodigo
  <2>4. CASE LtsReanuda(p)
    BY <1>t, <2>4, PasoReanuda
  <2> QED BY <1>2, <2>1, <2>2, <2>3, <2>4, <2>5 DEF Lts
<1>3. ASSUME NEW p \in Procesos, EjecutarIo(p) PROVE IInv'
  <2>1. CASE IoTermina(p)
    BY <1>t, <2>1, PasoIoTermina
  <2>2. CASE IoDevuelve(p)
    BY <1>1, <2>2 DEF Silencioso
  <2> QED BY <1>3, <2>1, <2>2 DEF EjecutarIo
<1>4. CASE PendientesNuevos \/ PendientesReanudar
  <2>1. CASE PendientesEspera("pn", "pn_mmp")
    BY <1>t, <2>1, PasoEsperaNuevo
  <2>2. CASE PendientesEspera("pr", "pr_mmp")
    BY <1>t, <2>2, PasoEsperaReanudado
  <2>3. CASE /\ ~PendientesEspera("pn", "pn_mmp")
             /\ ~PendientesEspera("pr", "pr_mmp")
    BY <1>1, <1>4, <2>3 DEF Silencioso, PendientesNuevos, PendientesReanudar
  <2> QED BY <2>1, <2>2, <2>3
<1>5. CASE Sts \/ LanzarIos
  BY <1>1, <1>5 DEF Silencioso
<1>6. CASE HiloProcer
  <2>1. CASE Avanza
    BY <1>t, <2>1, PasoAvanzaFin, PasoAvanzaSigue
  <2>2. CASE ProcerToma
    BY <1>t, <2>2, PasoToma
  <2>3. CASE EjecutaCpu \/ EjecutaIo
    BY <1>t, <2>3, PasoEjecutaCpu, PasoEjecutaIo
  <2>4. CASE EjecutaIoNoBloqueante \/ EncolaIoNoBloqueante \/ FallaIoNoBloqueante
    BY <1>t, <2>4, PasoTomaIot, PasoEncolaIoNoBloqueante, PasoFallaIo
  <2>5. CASE FinMmp
    BY <1>t, <2>5, PasoFinMmp
  <2>6. CASE DecideSuspender \/ DecideFinQuantum \/ DecideSeguir
    BY <1>t, <2>6, PasoSuspende, PasoFinQuantum, PasoSeguir
  <2>7. CASE SuspenderMmp \/ SuspenderEnvia \/ SuspenderLimpia
    BY <1>t, <2>7, PasoSuspenderMmp, PasoSuspenderEnvia, PasoSuspenderLimpia
  <2>8. CASE Cuenta
    BY <1>t, <2>8, PasoCuenta
  <2> QED BY <1>6, <2>1, <2>2, <2>3, <2>4, <2>5, <2>6, <2>7, <2>8 DEF HiloProcer
<1>7. CASE BloqueadosAIo
  <2>1. CASE BloqueadosEspera
    BY <1>t, <2>1, PasoBloqueadosEspera
  <2>2. CASE BloqueadosSaca \/ BloqueadosEncola
    BY <1>1, <2>2 DEF Silencioso
  <2> QED BY <1>7, <2>1, <2>2 DEF BloqueadosAIo
<1>8. CASE Finalizados
  <2>1. CASE FinTabla
    BY <1>t, <2>1, PasoFinTabla
  <2>2. CASE FinMps
    BY <1>t, <2>2, PasoFinMps
  <2>3. CASE FinSaca \/ FinAvisa \/ FinDestruye
    BY <1>1, <2>3 DEF Silencioso
  <2> QED BY <1>8, <2>1, <2>2, <2>3 DEF Finalizados
<1>9. CASE Senal \/ RecargaInicia \/ RecargaAsigna \/ Reposo \/ UNCHANGED vars
  BY <1>t, <1>9, PasoEntorno
     DEF Senal, RecargaInicia, RecargaAsigna, Reposo, vars
<1> QED BY <1>2, <1>3, <1>4, <1>5, <1>6, <1>7, <1>8, <1>9 DEF Next

\* The initial states satisfy the inductive invariant.
LEMMA InicioIInv == Init => IInv
<1> SUFFICES ASSUME Init PROVE IInv
  OBVIOUS
<1>1. TypeOK /\ CpuConPcb
  <2>1. cpu \in [fase : FasesCpu, pcb : Procesos \cup {Nadie}, sigue : BOOLEAN,
                 rafaga : Nat] /\ CpuConPcb
    BY DEF Init, FasesCpu, CpuConPcb
  <2>2. /\ cola \in [Colas -> Seq(Procesos)]
        /\ grupo \in [Grupos -> SUBSET Procesos]
        /\ codigo \in [Procesos -> Seq(Efectos)]
    BY DEF Init
  <2> QED BY <2>1, <2>2, CuposAssumption, CuantosAssumption DEF Init, TypeOK
<1>2. \A l \in Lugares : Contenido(l) = IF l = "afuera" THEN Procesos ELSE {}
  <2>1. ASSUME NEW l \in Colas PROVE Contenido(l) = {} /\ l # "afuera"
    BY <2>1 DEF Init, Contenido, Rango, Colas
  <2>2. ASSUME NEW l \in Grupos PROVE Contenido(l) = grupo[l]
    BY <2>2, ColasOGrupos DEF Contenido
  <2> QED BY <2>1, <2>2 DEF Init, Lugares
<1>3. "afuera" \in Lugares
  BY DEF Lugares, Grupos
<1>4. UnSoloLugar
  BY <1>2, <1>3 DEF Init, UnSoloLugar, En
<1>5. \A C \in Clases : EnAlguno(C) = IF "afuera" \in C THEN Procesos ELSE {}
  BY <1>2, ClasesDeLugares DEF EnAlguno
<1>6. /\ EnAlguno(LugaresMps) = {} /\ EnAlguno(LugaresTabla) = {}
      /\ EnAlguno(LugaresMmp) = {} /\ EnAlguno(LugaresIot) = {}
      /\ EnAlguno(LugaresFin) = {} /\ EnAlguno(LugaresSinCodigo) = Procesos
  BY <1>5, ClasesNombradas, Perfiles DEF Perfil
<1>7. cpu.fase = "espera" /\ cpu.pcb = Nadie
  BY DEF Init
<1>8. ConMps = {} /\ ConMmp = {} /\ ConIot = {}
  BY <1>6, <1>7 DEF ConMps, ConMmp, ConIot, DebeMmp, TieneIot
<1>9. CpuCoherente
  BY <1>7 DEF Init, CpuCoherente, OcupaCpu, Grupos
<1>10. ProgramaCoherente
  BY <1>6, <1>7 DEF Init, ProgramaCoherente
<1>11. TablaCoherente /\ AvisoEsperaReanudar
  BY <1>6 DEF Init, TablaCoherente, AvisoEsperaReanudar
<1>12. CupoMps /\ CupoMmp /\ CupoIot
  BY <1>8, FS_EmptySet, CuposAssumption DEF Init, CupoMps, CupoMmp, CupoIot
<1> QED BY <1>1, <1>4, <1>9, <1>10, <1>11, <1>12 DEF IInv

\* When no program ends in an I/O, the whole inductive invariant holds.
THEOREM Invariante == SinIoFinal => (Spec => []IInv)
<1> SUFFICES ASSUME SinIoFinal PROVE Spec => []IInv
  OBVIOUS
<1>1. Init => IInv
  BY InicioIInv
<1>2. IInv /\ [Next]_vars => IInv'
  BY PasoIInv
<1> QED BY <1>1, <1>2, PTL DEF Spec

\* No PCB is lost or owned twice, whatever the threads, the clients, the
\* signals and the edits of pp.conf do.
THEOREM DuenoUnico == SinIoFinal => (Spec => []UnSoloLugar)
<1> SUFFICES ASSUME SinIoFinal PROVE Spec => []UnSoloLugar
  OBVIOUS
<1>1. IInv => UnSoloLugar
  BY DEF IInv
<1>2. Spec => []IInv
  BY Invariante
<1> QED BY <1>1, <1>2, PTL

\* No slot of the three semaphores leaks or is invented.
THEOREM Cupos == SinIoFinal => (Spec => [](CupoMps /\ CupoMmp /\ CupoIot))
<1> SUFFICES ASSUME SinIoFinal PROVE Spec => [](CupoMps /\ CupoMmp /\ CupoIot)
  OBVIOUS
<1>1. IInv => CupoMps /\ CupoMmp /\ CupoIot
  BY DEF IInv
<1>2. Spec => []IInv
  BY Invariante
<1> QED BY <1>1, <1>2, PTL

\* The answer to a suspension always finds its process suspended.
THEOREM AvisoEncuentra == SinIoFinal => (Spec => []AvisoEsperaReanudar)
<1> SUFFICES ASSUME SinIoFinal PROVE Spec => []AvisoEsperaReanudar
  OBVIOUS
<1>1. IInv => AvisoEsperaReanudar
  BY DEF IInv
<1>2. Spec => []IInv
  BY Invariante
<1> QED BY <1>1, <1>2, PTL

\* finalizados gets a process exactly when its whole program was run.
THEOREM Completo == SinIoFinal => (Spec => []ProgramaCompleto)
<1> SUFFICES ASSUME SinIoFinal PROVE Spec => []ProgramaCompleto
  OBVIOUS
<1>1. IInv => ProgramaCompleto
  <2> SUFFICES ASSUME IInv, NEW p \in Procesos
               PROVE  p \in EnAlguno(LugaresFin) <=>
                        codigo[p] # <<>> /\ program_counter[p] > Len(codigo[p])
    BY DEF ProgramaCompleto
  <2>1. /\ program_counter[p] \in Nat /\ codigo[p] \in Seq(Efectos)
        /\ UnSoloLugar
    BY DEF IInv, TypeOK
  <2>2. PICK l \in Lugares : En(p, l)
    BY <2>1 DEF UnSoloLugar
  <2>3. /\ p \in EnAlguno(LugaresFin) <=> l \in LugaresFin
        /\ p \in EnAlguno(LugaresSinCodigo) <=> l \in LugaresSinCodigo
    BY <2>1, <2>2, FamiliasDe, ClasesNombradas
  <2>4. l \notin LugaresFin \/ l \notin LugaresSinCodigo
    BY DEF LugaresFin, LugaresSinCodigo
  <2>5. CASE p \in EnAlguno(LugaresSinCodigo)
    BY <2>3, <2>4, <2>5 DEF IInv, ProgramaCoherente
  <2>6. CASE p \notin EnAlguno(LugaresSinCodigo)
    <3>1. codigo[p] \in Programas
      BY <2>6 DEF IInv, ProgramaCoherente
    <3>2. codigo[p] # <<>> /\ Len(codigo[p]) \in Nat
      BY <2>1, <3>1, ProgramasAssumption
    <3>3. IF p \in EnAlguno(LugaresFin)
            THEN program_counter[p] = Len(codigo[p]) + 1
            ELSE program_counter[p] <= Len(codigo[p])
      BY <2>6 DEF IInv, ProgramaCoherente
    <3> QED BY <2>1, <3>2, <3>3
  <2> QED BY <2>5, <2>6
<1>2. Spec => []IInv
  BY Invariante
<1> QED BY <1>1, <1>2, PTL

\* No MPS slot leaks and none is invented.
THEOREM CupoMpsSiempre == SinIoFinal => (Spec => []CupoMps)
BY Cupos, PTL

\* No I/O thread leaks and none is invented.
THEOREM CupoIotSiempre == SinIoFinal => (Spec => []CupoIot)
BY Cupos, PTL

\* A PCB that finalizados freed is neither run, suspended nor queued again by
\* procer, which may still point at it.
THEOREM PunteroTardio == SinIoFinal => (Spec => []PunteroAcotado)
<1> SUFFICES ASSUME SinIoFinal PROVE Spec => []PunteroAcotado
  OBVIOUS
<1>1. IInv => PunteroAcotado
  <2> SUFFICES ASSUME IInv, cpu.pcb \in grupo["terminado"]
               PROVE \/ cpu.fase \in {"fin_mmp", "susp_limpia"}
                     \/ cpu.fase \in {"decide", "cuenta"} /\ ~cpu.sigue
    BY DEF PunteroAcotado
  <2>1. /\ cpu.pcb \in Procesos /\ cpu.pcb # Nadie
        /\ cpu.fase \in FasesCpu
    BY NadieAssumption DEF IInv, TypeOK, Grupos
  <2>2. {"terminado", "cpu", "suspendidos"} \subseteq Grupos \cap Lugares
    BY DEF Lugares, Grupos
  <2>3. En(cpu.pcb, "terminado") /\ \A g \in {"cpu", "suspendidos"} : cpu.pcb \notin grupo[g]
    BY <2>1, <2>2, ColasOGrupos DEF IInv, UnSoloLugar, En, Contenido
  <2>4. ~OcupaCpu
    BY <2>3 DEF IInv, CpuCoherente
  <2>5. cpu.fase \notin {"susp_mmp", "susp_envia"}
    BY <2>3 DEF IInv, CpuCoherente
  <2>6. ~(cpu.fase = "avanza" /\ ~cpu.sigue)
    <3>1. cpu.pcb \in EnAlguno(LugaresFin)
      BY <2>2, ColasOGrupos DEF EnAlguno, LugaresFin, Contenido
    <3>2. cpu.pcb \notin EnAlguno(LugaresSinCodigo)
      <4>1. \A l \in LugaresSinCodigo : l \in Lugares /\ l # "terminado"
        BY DEF LugaresSinCodigo, Lugares, Grupos
      <4> QED BY <2>2, <2>3, <4>1 DEF IInv, UnSoloLugar, EnAlguno, En
    <3>3. program_counter[cpu.pcb] = Len(codigo[cpu.pcb]) + 1
      BY <2>1, <3>1, <3>2 DEF IInv, ProgramaCoherente
    <3>4. Len(codigo[cpu.pcb]) \in Nat
      BY <2>1 DEF IInv, TypeOK
    <3> QED BY <3>3, <3>4 DEF IInv, ProgramaCoherente
  <2>7. cpu.sigue \in BOOLEAN
    BY DEF IInv, TypeOK
  <2>8. cpu.fase \notin {"ejecuta", "io_tomada"}
    BY <2>4 DEF OcupaCpu
  <2>9. cpu.fase \in {"avanza", "decide", "cuenta"} => ~cpu.sigue
    BY <2>4 DEF OcupaCpu
  <2>10. cpu.fase # "avanza"
    BY <2>6, <2>9, Zenon
  <2>11. cpu.fase # "espera"
    BY <2>1 DEF IInv, CpuConPcb
  <2>12. cpu.fase \in {"decide", "cuenta", "fin_mmp", "susp_limpia"}
    BY <2>1, <2>5, <2>8, <2>10, <2>11 DEF FasesCpu
  <2> QED BY <2>9, <2>12, Zenon
<1>2. Spec => []IInv
  BY Invariante
<1> QED BY <1>1, <1>2, PTL

\* The table never lists more processes than slots are taken, and the memory
\* in use exceeds the system slots in use by one at most.
THEOREM Retrasos == SinIoFinal => (Spec => [](TablaAcotada /\ MemoriaAtrasada))
<1> SUFFICES ASSUME SinIoFinal PROVE Spec => [](TablaAcotada /\ MemoriaAtrasada)
  OBVIOUS
<1>1. IInv => TablaAcotada /\ MemoriaAtrasada
  <2> SUFFICES ASSUME IInv PROVE TablaAcotada /\ MemoriaAtrasada
    OBVIOUS
  <2>1. /\ mps \in Nat /\ mmp \in Nat
        /\ mps + Cardinality(ConMps) = MPS /\ mmp + Cardinality(ConMmp) = MMP
    BY DEF IInv, TypeOK, CupoMps, CupoMmp
  <2>2. IsFiniteSet(ConMps) /\ IsFiniteSet(ConMmp)
    BY TenedoresFinitos DEF IInv
  <2>3. Cardinality(ConMps) \in Nat /\ Cardinality(ConMmp) \in Nat
    BY <2>2, FS_CardinalityType
  <2>4. TablaAcotada
    <3>1. LugaresTabla \subseteq LugaresMps
      BY DEF LugaresTabla
    <3>2. tabla_procesos \in SUBSET ConMps
      BY <3>1 DEF IInv, TablaCoherente, ConMps, EnAlguno
    <3>3. /\ Cardinality(tabla_procesos) <= Cardinality(ConMps)
          /\ IsFiniteSet(tabla_procesos)
      BY <2>2, <3>2, FS_Subset
    <3>4. Cardinality(tabla_procesos) \in Nat
      BY <3>3, FS_CardinalityType
    <3> QED BY <2>1, <2>3, <3>3, <3>4 DEF TablaAcotada
  <2>5. MemoriaAtrasada
    <3>1. LugaresMmp \subseteq LugaresMps
      BY DEF LugaresMmp, LugaresMps, Lugares, ColasSts, Colas, Grupos
    <3>2. ConMmp \in SUBSET (ConMps \cup {cpu.pcb})
      BY <3>1 DEF ConMmp, ConMps, EnAlguno, DebeMmp
    <3>3. /\ IsFiniteSet(ConMps \cup {cpu.pcb})
          /\ Cardinality(ConMps \cup {cpu.pcb}) <= Cardinality(ConMps) + 1
      <4>1. /\ IsFiniteSet(ConMps \cup {cpu.pcb})
            /\ Cardinality(ConMps \cup {cpu.pcb}) =
                 IF cpu.pcb \in ConMps THEN Cardinality(ConMps)
                 ELSE Cardinality(ConMps) + 1
        BY <2>2, FS_AddElement
      <4> QED BY <2>3, <4>1
    <3>4. Cardinality(ConMps \cup {cpu.pcb}) \in Nat
      BY <3>3, FS_CardinalityType
    <3>5. Cardinality(ConMmp) <= Cardinality(ConMps \cup {cpu.pcb})
      BY <3>2, <3>3, FS_Subset
    <3> QED BY <2>1, <2>3, <3>3, <3>4, <3>5 DEF MemoriaAtrasada
  <2> QED BY <2>4, <2>5
<1>2. Spec => []IInv
  BY Invariante
<1> QED BY <1>1, <1>2, PTL

\* tabla_procesos lists no more processes than slots are taken.
THEOREM TablaSiempre == SinIoFinal => (Spec => []TablaAcotada)
BY Retrasos, PTL

-----------------------------------------------------------------------------
(* Procer implements CicloDeVida, for every value of the constants: each     *)
(* step of a thread is one step of the life cycle or none.                   *)

-----------------------------------------------------------------------------
(* The stage of a process, by the place of its PCB.                          *)

EtapaLugar(l) ==
  CASE l = "afuera" -> "nueva"
    [] l = "rechazado" -> "rechazada"
    [] l = "suspendidos" -> "suspendida"
    [] l \in LugaresFin -> "concluida"
    [] OTHER -> "activa"

\* The three groups that name a stage are places, and their own content.
LEMMA GruposDeEtapa ==
  /\ {"afuera", "rechazado", "suspendidos"} \subseteq Lugares \ LugaresFin
  /\ LugaresFin \subseteq Lugares
  /\ Contenido("afuera") = grupo["afuera"]
  /\ Contenido("rechazado") = grupo["rechazado"]
  /\ Contenido("suspendidos") = grupo["suspendidos"]
BY DEF Lugares, Colas, Grupos, LugaresFin, Contenido

\* A process has the stage of the only place that holds it.
LEMMA EtapaEn ==
  ASSUME UnSoloLugar, NEW p \in Procesos, NEW l \in Lugares, En(p, l)
  PROVE  EtapaDe(p) = EtapaLugar(l)
<1>1. /\ p \in grupo["afuera"] <=> l = "afuera"
      /\ p \in grupo["rechazado"] <=> l = "rechazado"
      /\ p \in grupo["suspendidos"] <=> l = "suspendidos"
  BY GruposDeEtapa DEF UnSoloLugar, En
<1>2. p \in EnAlguno(LugaresFin) <=> l \in LugaresFin
  BY GruposDeEtapa DEF UnSoloLugar, En, EnAlguno
<1> QED BY <1>1, <1>2 DEF EtapaDe, EtapaLugar

\* A move changes the stage of the process that moved and of no other.
LEMMA EtapaTraslado ==
  ASSUME UnSoloLugar, UnSoloLugar', NEW p, NEW l, NEW m, Traslado(p, l, m)
  PROVE  /\ p \in Procesos /\ EtapaDe(p) = EtapaLugar(l)
         /\ \A r \in Procesos :
              EtapaDe(r)' = IF r = p THEN EtapaLugar(m) ELSE EtapaDe(r)
<1>1. p \in Procesos /\ l \in Lugares /\ m \in Lugares /\ En(p, l)
  BY DEF Traslado
<1>2. EtapaDe(p) = EtapaLugar(l)
  BY <1>1, EtapaEn
<1>3. ASSUME NEW r \in Procesos, NEW k \in Lugares, En(r, k)'
      PROVE  EtapaDe(r)' = EtapaLugar(k)
  <2>1. /\ r \in grupo'["afuera"] <=> k = "afuera"
        /\ r \in grupo'["rechazado"] <=> k = "rechazado"
        /\ r \in grupo'["suspendidos"] <=> k = "suspendidos"
    <3>1. /\ Contenido("afuera")' = grupo'["afuera"]
          /\ Contenido("rechazado")' = grupo'["rechazado"]
          /\ Contenido("suspendidos")' = grupo'["suspendidos"]
      BY DEF Contenido, Colas
    <3> QED BY <1>3, <3>1, GruposDeEtapa DEF UnSoloLugar, En
  <2>2. r \in EnAlguno(LugaresFin)' <=> k \in LugaresFin
    BY <1>3, GruposDeEtapa DEF UnSoloLugar, En, EnAlguno
  <2> QED BY <2>1, <2>2 DEF EtapaDe, EtapaLugar
<1>4. EtapaDe(p)' = EtapaLugar(m)
  <2>1. En(p, m)'
    BY DEF Traslado, En
  <2> QED BY <1>1, <1>3, <2>1
<1>5. ASSUME NEW r \in Procesos, r # p PROVE EtapaDe(r)' = EtapaDe(r)
  <2>1. PICK k \in Lugares : En(r, k)
    BY DEF UnSoloLugar
  <2>2. En(r, k)'
    BY <1>5, <2>1 DEF Traslado, En
  <2> QED BY <1>3, <2>1, <2>2, EtapaEn
<1> QED BY <1>1, <1>2, <1>4, <1>5

\* Nothing moved: no stage changes.
LEMMA EtapaQuieta ==
  ASSUME UNCHANGED <<cola, grupo>>
  PROVE  \A r : EtapaDe(r)' = EtapaDe(r)
<1>1. EnAlguno(LugaresFin)' = EnAlguno(LugaresFin)
  BY Quietud
<1> QED BY <1>1 DEF EtapaDe

\* A move within one stage that changes no holder is a stutter.
LEMMA MismaEtapa ==
  ASSUME UnSoloLugar, UnSoloLugar', NEW p, NEW l, NEW m, Traslado(p, l, m),
         EtapaLugar(l) = EtapaLugar(m), ConMps' = ConMps, ConMmp' = ConMmp
  PROVE  UNCHANGED Ciclo!vars
<1>1. \A r \in Procesos : EtapaDe(r)' = EtapaDe(r)
  BY EtapaTraslado
<1>2. [r \in Procesos |-> EtapaDe(r)]' = [r \in Procesos |-> EtapaDe(r)]
  BY <1>1
<1> QED BY <1>2 DEF Ciclo!vars

\* A step that moves nothing and changes no holder is a stutter.
LEMMA MismoLugar ==
  ASSUME UNCHANGED <<cola, grupo>>, ConMps' = ConMps, ConMmp' = ConMmp
  PROVE  UNCHANGED Ciclo!vars
<1>1. \A r \in Procesos : EtapaDe(r)' = EtapaDe(r)
  BY EtapaQuieta
<1>2. [r \in Procesos |-> EtapaDe(r)]' = [r \in Procesos |-> EtapaDe(r)]
  BY <1>1
<1> QED BY <1>2 DEF Ciclo!vars

\* A move that changes the stage, as Ciclo!Cambia sees it.
LEMMA CambiaEtapa ==
  ASSUME UnSoloLugar, UnSoloLugar', NEW p, NEW l, NEW m, Traslado(p, l, m)
  PROVE  p \in Procesos /\ Ciclo!Cambia(p, EtapaLugar(l), EtapaLugar(m))
<1>1. /\ p \in Procesos /\ EtapaDe(p) = EtapaLugar(l)
      /\ \A r \in Procesos :
           EtapaDe(r)' = IF r = p THEN EtapaLugar(m) ELSE EtapaDe(r)
  BY EtapaTraslado
<1>2. [r \in Procesos |-> EtapaDe(r)]'
        = [[r \in Procesos |-> EtapaDe(r)] EXCEPT ![p] = EtapaLugar(m)]
  BY <1>1
<1> QED BY <1>1, <1>2 DEF Ciclo!Cambia

\* The stages of the places that the steps below name.
LEMMA EtapasNombradas ==
  /\ EtapaLugar("afuera") = "nueva" /\ EtapaLugar("rechazado") = "rechazada"
  /\ EtapaLugar("suspendidos") = "suspendida"
  /\ EtapaLugar("fin_programa") = "concluida" /\ EtapaLugar("fin") = "concluida"
  /\ EtapaLugar("fin_tabla") = "concluida" /\ EtapaLugar("fin_mps") = "concluida"
  /\ \A l \in {"aceptado", "con_prioridad", "pendientes_nuevos", "pn", "pn_mmp",
               "pendientes_reanudar", "pr", "pr_mmp", "listos", "cpu",
               "bloqueados", "io", "bio", "bio_iot", "ios", "ios_post",
               "fin_quantum"} : EtapaLugar(l) = "activa"
BY DEF EtapaLugar, LugaresFin

\* Places the invariant does not tell apart are of one stage.
LEMMA EtapaInterna ==
  ASSUME NEW l, NEW m, Internos(l, m)
  PROVE  EtapaLugar(l) = EtapaLugar(m)
<1>1. /\ l \in LugaresFin <=> m \in LugaresFin
      /\ {l, m} \cap {"cpu", "suspendidos"} = {}
      /\ {l, m} \cap {"afuera", "rechazado"} = {}
  BY DEF Internos, Indistintos, Clases
<1>2. l # "afuera" /\ l # "rechazado" /\ l # "suspendidos"
  BY <1>1
<1>3. m # "afuera" /\ m # "rechazado" /\ m # "suspendidos"
  BY <1>1
<1> QED BY <1>1, <1>2, <1>3 DEF EtapaLugar

\* The abstract specification counts with the same Cardinality.
LEMMA CardinalidadCiclo == \A S : Ciclo!Cardinality(S) = Cardinality(S)
BY DEF Ciclo!Cardinality, Cardinality

\* The semaphores bound the holders.
LEMMA CuposCiclo ==
  ASSUME IInv
  PROVE  /\ mps > 0 => Cardinality(ConMps) < MPS
         /\ mps = 0 => Cardinality(ConMps) = MPS
         /\ mmp > 0 => Cardinality(ConMmp) < MMP
<1>1. /\ mps \in Nat /\ mps + Cardinality(ConMps) = MPS
      /\ mmp \in Nat /\ mmp + Cardinality(ConMmp) = MMP
  BY DEF IInv, CupoMps, CupoMmp, TypeOK
<1>2. Cardinality(ConMps) \in Nat /\ Cardinality(ConMmp) \in Nat
  BY TenedoresFinitos, FS_CardinalityType DEF IInv
<1> QED BY <1>1, <1>2

-----------------------------------------------------------------------------
(* The steps.                                                                *)

\* Every action of CicloDeVida by a process is a step of it.
LEMMA PasoDeCiclo ==
  ASSUME NEW p \in Procesos,
         \/ Ciclo!Acepta(p) \/ Ciclo!Rechaza(p) \/ Ciclo!Admite(p)
         \/ Ciclo!Suspende(p) \/ Ciclo!Reanuda(p) \/ Ciclo!Concluye(p)
         \/ Ciclo!LiberaMemoria(p) \/ Ciclo!LiberaSistema(p)
  PROVE  Ciclo!Next
BY DEF Ciclo!Next

\* A move between places the invariant does not tell apart is a stutter.
LEMMA CicloSilencioso ==
  ASSUME IInv, TInv', Silencioso
  PROVE  UNCHANGED Ciclo!vars
<1>1. IInv' /\ ConMps' = ConMps /\ ConMmp' = ConMmp
  BY PasoSilencioso
<1>2. PICK p, l, m : Traslado(p, l, m) /\ Internos(l, m)
  BY PasoSilencioso
<1>3. EtapaLugar(l) = EtapaLugar(m)
  BY <1>2, EtapaInterna
<1>4. UnSoloLugar /\ UnSoloLugar'
  BY <1>1 DEF IInv
<1> QED BY <1>1, <1>2, <1>3, <1>4, MismaEtapa

\* accept(): admission and refusal.
LEMMA CicloAcepta ==
  ASSUME IInv, TInv', NEW p \in Procesos, LtsAcepta(p)
  PROVE  Ciclo!Acepta(p)
<1>1. /\ IInv' /\ ConMps' = ConMps \cup {p} /\ ConMmp' = ConMmp
      /\ Traslado(p, "afuera", "aceptado")
  BY PasoAcepta
<1>2. UnSoloLugar /\ UnSoloLugar'
  BY <1>1 DEF IInv
<1>3. Ciclo!Cambia(p, EtapaLugar("afuera"), EtapaLugar("aceptado"))
  BY <1>1, <1>2, CambiaEtapa
<1>4. Ciclo!Cambia(p, "nueva", "activa")
  BY <1>3, EtapasNombradas
<1>5. Cardinality(ConMps) < MPS
  BY CuposCiclo DEF LtsAcepta
<1> QED BY <1>1, <1>4, <1>5, CardinalidadCiclo DEF Ciclo!Acepta

\* accept() with no slot free: a refusal.
LEMMA CicloRechaza ==
  ASSUME IInv, TInv', NEW p \in Procesos, LtsRechaza(p)
  PROVE  Ciclo!Rechaza(p)
<1>1. /\ IInv' /\ ConMps' = ConMps /\ ConMmp' = ConMmp
      /\ Traslado(p, "afuera", "rechazado")
  BY PasoRechaza
<1>2. UnSoloLugar /\ UnSoloLugar'
  BY <1>1 DEF IInv
<1>3. Ciclo!Cambia(p, EtapaLugar("afuera"), EtapaLugar("rechazado"))
  BY <1>1, <1>2, CambiaEtapa
<1>4. Ciclo!Cambia(p, "nueva", "rechazada")
  BY <1>3, EtapasNombradas
<1>5. Cardinality(ConMps) = MPS
  BY CuposCiclo DEF LtsRechaza
<1> QED BY <1>1, <1>4, <1>5, CardinalidadCiclo DEF Ciclo!Rechaza

\* sem_wait(mmp) by either thread: admission to memory.
LEMMA CicloEspera ==
  ASSUME IInv, TInv',
         \/ PendientesEspera("pn", "pn_mmp") \/ PendientesEspera("pr", "pr_mmp")
  PROVE  \E p \in Procesos : Ciclo!Admite(p)
<1>1. mmp > 0
  BY DEF PendientesEspera
<1>2. PICK p \in Procesos :
        /\ ConMmp' = ConMmp \cup {p} /\ p \notin ConMmp /\ ConMps' = ConMps
        /\ Traslado(p, "pn", "pn_mmp") \/ Traslado(p, "pr", "pr_mmp")
  BY PasoEsperaNuevo, PasoEsperaReanudado
<1>3. IInv'
  BY PasoEsperaNuevo, PasoEsperaReanudado
<1>4. UnSoloLugar /\ UnSoloLugar'
  BY <1>3 DEF IInv
<1>5. EtapaDe(p) = "activa" /\ \A r \in Procesos : EtapaDe(r)' = EtapaDe(r)
  <2>1. PICK l, m : /\ Traslado(p, l, m)
                    /\ EtapaLugar(l) = "activa" /\ EtapaLugar(m) = "activa"
    BY <1>2, EtapasNombradas
  <2>2. /\ EtapaDe(p) = EtapaLugar(l)
        /\ \A r \in Procesos :
             EtapaDe(r)' = IF r = p THEN EtapaLugar(m) ELSE EtapaDe(r)
    BY <1>4, <2>1, EtapaTraslado
  <2> QED BY <2>1, <2>2
<1>6. [r \in Procesos |-> EtapaDe(r)]' = [r \in Procesos |-> EtapaDe(r)]
  BY <1>5
<1>7. Cardinality(ConMmp) < MMP
  BY <1>1, CuposCiclo
<1>8. Ciclo!Admite(p)
  BY <1>2, <1>5, <1>6, <1>7, CardinalidadCiclo DEF Ciclo!Admite
<1> QED BY <1>8

\* dictionary_put in tabla_suspendidos.
LEMMA CicloSuspende ==
  ASSUME IInv, TInv', DecideSuspender
  PROVE  \E p \in Procesos : Ciclo!Suspende(p)
<1> DEFINE p == cpu.pcb
<1>1. /\ IInv' /\ ConMps' = ConMps /\ ConMmp' = ConMmp
      /\ Traslado(p, "cpu", "suspendidos")
  BY PasoSuspende
<1>2. UnSoloLugar /\ UnSoloLugar' /\ TypeOK
  BY <1>1 DEF IInv
<1>3. p \in Procesos /\ Ciclo!Cambia(p, EtapaLugar("cpu"), EtapaLugar("suspendidos"))
  BY <1>1, <1>2, CambiaEtapa
<1>4. Ciclo!Cambia(p, "activa", "suspendida")
  BY <1>3, EtapasNombradas
<1>5. p \in ConMmp
  <2>1. p \in Contenido("cpu") /\ "cpu" \in LugaresMmp
    BY <1>1 DEF Traslado, En, LugaresMmp
  <2> QED BY <2>1 DEF ConMmp, EnAlguno
<1>6. Ciclo!Suspende(p)
  BY <1>1, <1>4, <1>5 DEF Ciclo!Suspende
<1> QED BY <1>3, <1>6

\* The answer of the client.
LEMMA CicloReanuda ==
  ASSUME IInv, TInv', NEW p \in Procesos, LtsReanuda(p)
  PROVE  Ciclo!Reanuda(p)
<1>1. /\ IInv' /\ ConMps' = ConMps /\ ConMmp' = ConMmp
      /\ Traslado(p, "suspendidos", "pendientes_reanudar")
  BY PasoReanuda
<1>2. UnSoloLugar /\ UnSoloLugar'
  BY <1>1 DEF IInv
<1>3. Ciclo!Cambia(p, EtapaLugar("suspendidos"), EtapaLugar("pendientes_reanudar"))
  BY <1>1, <1>2, CambiaEtapa
<1>4. Ciclo!Cambia(p, "suspendida", "activa")
  BY <1>3, EtapasNombradas
<1>5. p \notin ConMmp
  BY DEF IInv, AvisoEsperaReanudar, LtsReanuda
<1> QED BY <1>1, <1>4, <1>5 DEF Ciclo!Reanuda

\* The end of the program.
LEMMA CicloConcluye ==
  ASSUME IInv, TInv', Avanza, program_counter[cpu.pcb] = Len(codigo[cpu.pcb])
  PROVE  \E p \in Procesos : Ciclo!Concluye(p)
<1> DEFINE p == cpu.pcb
<1>1. /\ IInv' /\ ConMps' = ConMps /\ ConMmp' = ConMmp
      /\ Traslado(p, "cpu", "fin_programa")
  BY PasoAvanzaFin
<1>2. UnSoloLugar /\ UnSoloLugar'
  BY <1>1 DEF IInv
<1>3. p \in Procesos /\ Ciclo!Cambia(p, EtapaLugar("cpu"), EtapaLugar("fin_programa"))
  BY <1>1, <1>2, CambiaEtapa
<1>4. Ciclo!Cambia(p, "activa", "concluida")
  BY <1>3, EtapasNombradas
<1>5. p \in ConMmp
  <2>1. p \in Contenido("cpu") /\ "cpu" \in LugaresMmp
    BY <1>1 DEF Traslado, En, LugaresMmp
  <2> QED BY <2>1 DEF ConMmp, EnAlguno
<1>6. Ciclo!Concluye(p)
  BY <1>1, <1>4, <1>5 DEF Ciclo!Concluye
<1> QED BY <1>3, <1>6

\* The two sem_post(mmp).
LEMMA CicloLiberaMemoria ==
  ASSUME IInv, TInv', FinMmp \/ SuspenderMmp
  PROVE  \E p \in Procesos : Ciclo!LiberaMemoria(p)
<1> DEFINE p == cpu.pcb
<1>1. /\ ConMps' = ConMps /\ ConMmp' = ConMmp \ {p} /\ p \in ConMmp
  BY PasoFinMmp, PasoSuspenderMmp
<1>2. UNCHANGED <<cola, grupo>>
  BY DEF FinMmp, SuspenderMmp
<1>3. [r \in Procesos |-> EtapaDe(r)]' = [r \in Procesos |-> EtapaDe(r)]
  BY <1>2, EtapaQuieta
<1>4. p \in Procesos /\ UnSoloLugar
  BY DEF IInv, CpuConPcb, FinMmp, SuspenderMmp
<1>5. EtapaDe(p) \in {"suspendida", "concluida"}
  <2>1. CASE FinMmp
    <3>1. PICK l \in LugaresFin : En(p, l)
      BY <2>1 DEF IInv, CpuCoherente, FinMmp, EnAlguno, En
    <3>2. EtapaLugar(l) = "concluida"
      BY GruposDeEtapa DEF EtapaLugar
    <3> QED BY <1>4, <3>1, <3>2, EtapaEn, GruposDeEtapa
  <2>2. CASE SuspenderMmp
    <3>1. En(p, "suspendidos")
      BY <2>2, GruposDeEtapa DEF IInv, CpuCoherente, SuspenderMmp, En
    <3> QED BY <1>4, <3>1, EtapaEn, EtapasNombradas, GruposDeEtapa
  <2> QED BY <2>1, <2>2
<1>6. Ciclo!LiberaMemoria(p)
  BY <1>1, <1>3, <1>4, <1>5 DEF Ciclo!LiberaMemoria
<1> QED BY <1>4, <1>6

\* sem_post(mps).
LEMMA CicloLiberaSistema ==
  ASSUME IInv, TInv', FinMps
  PROVE  \E p \in Procesos : Ciclo!LiberaSistema(p)
<1>1. PICK p \in Procesos :
        /\ ConMps' = ConMps \ {p} /\ p \in ConMps /\ ConMmp' = ConMmp
        /\ Traslado(p, "fin_tabla", "fin_mps")
  BY PasoFinMps
<1>2. IInv'
  BY PasoFinMps
<1>3. UnSoloLugar /\ UnSoloLugar'
  BY <1>2 DEF IInv
<1>4. /\ EtapaDe(p) = EtapaLugar("fin_tabla")
      /\ \A r \in Procesos :
           EtapaDe(r)' = IF r = p THEN EtapaLugar("fin_mps") ELSE EtapaDe(r)
  BY <1>1, <1>3, EtapaTraslado
<1>5. EtapaDe(p) = "concluida" /\ \A r \in Procesos : EtapaDe(r)' = EtapaDe(r)
  BY <1>4, EtapasNombradas
<1>6. [r \in Procesos |-> EtapaDe(r)]' = [r \in Procesos |-> EtapaDe(r)]
  BY <1>5
<1>7. Ciclo!LiberaSistema(p)
  BY <1>1, <1>5, <1>6 DEF Ciclo!LiberaSistema
<1> QED BY <1>7

\* The moves of a PCB that stays active, or stays at its end.
Mueve(p) ==
  \/ Traslado(p, "con_prioridad", "pendientes_nuevos")
  \/ Traslado(p, "bio", "bio_iot") \/ Traslado(p, "ios", "ios_post")
  \/ Traslado(p, "fin", "fin_tabla") \/ Traslado(p, "listos", "cpu")
  \/ Traslado(p, "cpu", "bloqueados") \/ Traslado(p, "cpu", "io")
  \/ Traslado(p, "cpu", "fin_quantum")

\* Those moves are stutters of the life cycle.
LEMMA CicloMueve ==
  ASSUME IInv, IInv', NEW p, Mueve(p), ConMps' = ConMps, ConMmp' = ConMmp
  PROVE  UNCHANGED Ciclo!vars
<1>1. PICK l, m : Traslado(p, l, m) /\ EtapaLugar(l) = EtapaLugar(m)
  BY EtapasNombradas DEF Mueve
<1>2. UnSoloLugar /\ UnSoloLugar'
  BY DEF IInv
<1> QED BY <1>1, <1>2, MismaEtapa

\* A step of procer.
LEMMA CicloHiloProcer ==
  ASSUME SinIoFinal, IInv, TInv', HiloProcer
  PROVE  Ciclo!Next \/ UNCHANGED Ciclo!vars
<1>1. CASE Avanza
  <2>1. CASE program_counter[cpu.pcb] = Len(codigo[cpu.pcb])
    BY <1>1, <2>1, CicloConcluye, PasoDeCiclo
  <2>2. CASE program_counter[cpu.pcb] # Len(codigo[cpu.pcb])
    <3>1. ConMps' = ConMps /\ ConMmp' = ConMmp
      BY <1>1, <2>2, PasoAvanzaSigue
    <3>2. UNCHANGED <<cola, grupo>>
      BY <1>1, <2>2 DEF Avanza
    <3> QED BY <3>1, <3>2, MismoLugar
  <2> QED BY <2>1, <2>2
<1>2. CASE ProcerToma
  <2>1. PICK p : ConMps' = ConMps /\ ConMmp' = ConMmp /\ Mueve(p)
    BY <1>2, PasoToma DEF Mueve
  <2>2. IInv'
    BY <1>2, PasoToma
  <2> QED BY <2>1, <2>2, CicloMueve
<1>3. CASE EjecutaIo \/ EncolaIoNoBloqueante \/ DecideFinQuantum
  <2>1. IInv' /\ ConMps' = ConMps /\ ConMmp' = ConMmp /\ Mueve(cpu.pcb)
    BY <1>3, PasoEjecutaIo, PasoEncolaIoNoBloqueante, PasoFinQuantum DEF Mueve
  <2> QED BY <2>1, CicloMueve
<1>4. CASE DecideSuspender
  BY <1>4, CicloSuspende, PasoDeCiclo
<1>5. CASE FinMmp \/ SuspenderMmp
  BY <1>5, CicloLiberaMemoria, PasoDeCiclo
<1>6. CASE \/ EjecutaCpu \/ EjecutaIoNoBloqueante \/ FallaIoNoBloqueante
           \/ DecideSeguir \/ SuspenderEnvia \/ SuspenderLimpia \/ Cuenta
  <2>1. ConMps' = ConMps /\ ConMmp' = ConMmp
    BY <1>6, PasoEjecutaCpu, PasoTomaIot, PasoFallaIo, PasoSeguir,
       PasoSuspenderEnvia, PasoSuspenderLimpia, PasoCuenta
  <2>2. UNCHANGED <<cola, grupo>>
    BY <1>6 DEF EjecutaCpu, EjecutaIoNoBloqueante, FallaIoNoBloqueante,
                DecideSeguir, SuspenderEnvia, SuspenderLimpia, Cuenta
  <2> QED BY <2>1, <2>2, MismoLugar
<1> QED BY <1>1, <1>2, <1>3, <1>4, <1>5, <1>6 DEF HiloProcer

\* A step of a client, of the LTS or of an I/O thread.
LEMMA CicloCliente ==
  ASSUME IInv, TInv', NEW p \in Procesos, Lts(p) \/ EjecutarIo(p)
  PROVE  Ciclo!Next \/ UNCHANGED Ciclo!vars
<1>1. CASE LtsAcepta(p)
  BY <1>1, CicloAcepta, PasoDeCiclo
<1>2. CASE LtsRechaza(p)
  BY <1>2, CicloRechaza, PasoDeCiclo
<1>3. CASE LtsReanuda(p)
  BY <1>3, CicloReanuda, PasoDeCiclo
<1>4. CASE LtsPrioridad(p) \/ IoDevuelve(p)
  BY <1>4, CicloSilencioso DEF Silencioso
<1>5. CASE LtsCodigo(p) \/ IoTermina(p)
  <2>1. IInv' /\ ConMps' = ConMps /\ ConMmp' = ConMmp /\ Mueve(p)
    BY <1>5, PasoCodigo, PasoIoTermina DEF Mueve
  <2> QED BY <2>1, CicloMueve
<1> QED BY <1>1, <1>2, <1>3, <1>4, <1>5 DEF Lts, EjecutarIo

\* Every step of PROCER is a step of the life cycle or a stutter.
LEMMA PasoCiclo ==
  ASSUME SinIoFinal, IInv, [Next]_vars
  PROVE  [Ciclo!Next]_(Ciclo!vars)
<1>t. TInv'
  BY PasoTipo DEF IInv, TInv
<1>1. CASE \E p \in Procesos : Lts(p) \/ EjecutarIo(p)
  BY <1>t, <1>1, CicloCliente
<1>2. CASE PendientesNuevos \/ PendientesReanudar
  <2>1. CASE PendientesEspera("pn", "pn_mmp") \/ PendientesEspera("pr", "pr_mmp")
    BY <1>t, <2>1, CicloEspera, PasoDeCiclo
  <2>2. CASE \/ PendientesSaca("pendientes_nuevos", "pn", "pn_mmp")
             \/ PendientesEncola("pn_mmp", "nuevos")
             \/ PendientesSaca("pendientes_reanudar", "pr", "pr_mmp")
             \/ PendientesEncola("pr_mmp", "reanudar")
    BY <1>t, <2>2, CicloSilencioso DEF Silencioso
  <2> QED BY <1>2, <2>1, <2>2 DEF PendientesNuevos, PendientesReanudar
<1>3. CASE Sts \/ LanzarIos
  BY <1>t, <1>3, CicloSilencioso DEF Silencioso
<1>4. CASE HiloProcer
  BY <1>t, <1>4, CicloHiloProcer
<1>5. CASE BloqueadosAIo
  <2>1. CASE BloqueadosEspera
    <3>1. PICK p : ConMps' = ConMps /\ ConMmp' = ConMmp /\ Mueve(p)
      BY <1>t, <2>1, PasoBloqueadosEspera DEF Mueve
    <3>2. IInv'
      BY <1>t, <2>1, PasoBloqueadosEspera
    <3> QED BY <3>1, <3>2, CicloMueve
  <2>2. CASE BloqueadosSaca \/ BloqueadosEncola
    BY <1>t, <2>2, CicloSilencioso DEF Silencioso
  <2> QED BY <1>5, <2>1, <2>2 DEF BloqueadosAIo
<1>6. CASE Finalizados
  <2>1. CASE FinTabla
    <3>1. PICK p : ConMps' = ConMps /\ ConMmp' = ConMmp /\ Mueve(p)
      BY <1>t, <2>1, PasoFinTabla DEF Mueve
    <3>2. IInv'
      BY <1>t, <2>1, PasoFinTabla
    <3> QED BY <3>1, <3>2, CicloMueve
  <2>2. CASE FinMps
    BY <1>t, <2>2, CicloLiberaSistema, PasoDeCiclo
  <2>3. CASE FinSaca \/ FinAvisa \/ FinDestruye
    BY <1>t, <2>3, CicloSilencioso DEF Silencioso
  <2> QED BY <1>6, <2>1, <2>2, <2>3 DEF Finalizados
<1>7. CASE Senal \/ RecargaInicia \/ RecargaAsigna \/ Reposo \/ UNCHANGED vars
  <2>1. UNCHANGED <<cola, grupo, semaforos, pcbs, cpu, avisos>>
    BY <1>7 DEF Senal, RecargaInicia, RecargaAsigna, Reposo, vars
  <2>2. ConMps' = ConMps /\ ConMmp' = ConMmp
    BY <1>t, <2>1, PasoEntorno
  <2> QED BY <2>1, <2>2, MismoLugar
<1> QED BY <1>1, <1>2, <1>3, <1>4, <1>5, <1>6, <1>7 DEF Next

\* At the start every process is outside and no slot is taken.
LEMMA InicioCiclo ==
  ASSUME Init
  PROVE  Ciclo!Init
<1>1. IInv /\ UnSoloLugar
  BY InicioIInv DEF IInv
<1>2. ASSUME NEW p \in Procesos PROVE EtapaDe(p) = "nueva"
  <2>1. En(p, "afuera")
    BY <1>2, GruposDeEtapa DEF Init, Grupos, En
  <2> QED BY <1>1, <2>1, EtapaEn, EtapasNombradas, GruposDeEtapa
<1>3. mps = MPS /\ mmp = MMP
  BY DEF Init
<1>4. Cardinality(ConMps) = 0 /\ Cardinality(ConMmp) = 0
  <2>1. mps + Cardinality(ConMps) = MPS /\ mmp + Cardinality(ConMmp) = MMP
    BY <1>1 DEF IInv, CupoMps, CupoMmp
  <2>2. Cardinality(ConMps) \in Nat /\ Cardinality(ConMmp) \in Nat
    BY <1>1, TenedoresFinitos, FS_CardinalityType DEF IInv
  <2> QED BY <1>3, <2>1, <2>2, CuposAssumption
<1>5. ConMps = {} /\ ConMmp = {}
  BY <1>1, <1>4, TenedoresFinitos, FS_EmptySet DEF IInv
<1> QED BY <1>2, <1>5 DEF Ciclo!Init

\* For any processes, capacities and programs (that end in no I/O), with the
\* nine threads, the I/O threads, signals and reloads, PROCER implements the
\* life cycle that CicloDeVida promises.
THEOREM Implementa == SinIoFinal => (Spec => ImplementaCiclo)
<1> SUFFICES ASSUME SinIoFinal PROVE Spec => ImplementaCiclo
  OBVIOUS
<1>1. Init => Ciclo!Init
  BY InicioCiclo
<1>2. IInv /\ [Next]_vars => [Ciclo!Next]_(Ciclo!vars)
  BY PasoCiclo
<1>3. Spec => []IInv
  BY Invariante
<1> QED BY <1>1, <1>2, <1>3, PTL DEF Spec, ImplementaCiclo, Ciclo!Spec
=============================================================================
