----------------------------- MODULE MCServidor -----------------------------
(* Instances of Servidor for TLC.                                            *)
EXTENDS Servidor

\* stdin, stdout, stderr, the log and the listener are taken: accept() starts
\* higher, and a PID is never 0.
MCFds == 6..(5 + Cardinality(Clientes))
=============================================================================
