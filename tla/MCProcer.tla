------------------------------ MODULE MCProcer ------------------------------
(* Instances of Procer for TLC.                                              *)
EXTENDS ProcerCiclo, TLC


\* Every way in and out of the CPU: plain work, blocking and non-blocking I/O.
MCProgramas == {<<"cpu", "cpu">>, <<"io", "cpu">>, <<"ion", "cpu">>}

\* For the temporal run: work (where a signal suspends, and which a quantum of
\* 2 cuts), I/O, and work.
MCProgramasVida == {<<"cpu", "cpu", "io", "cpu">>}

\* Programs whose last instruction is an I/O.
MCProgramasIoFinal == {<<"cpu", "io">>}

MCSinRecarga == {}

\* pp.conf is edited to FIFO and back to RR, any number of times.
MCRecarga == {0, 2}

MCSimetria == Permutations(Procesos)
=============================================================================
