-------------------------------- MODULE Red --------------------------------
(***************************************************************************)
(* network.c: messages with a length before them, over a connection that   *)
(* delivers bytes in order and in pieces of any size.  pi is the sender,   *)
(* which sends a priority, the file of the program and its requests to     *)
(* resume; the LTS receives.                                               *)
(*                                                                         *)
(* A byte is the message it belongs to, its place in it (negative in the   *)
(* header) and, in a header, a digit of the length, the lowest first.      *)
(***************************************************************************)
EXTENDS Integers, SequencesExt

CONSTANTS
  Conversaciones,  \* what a client may send: of each message, whether it is a
                   \* file and how many bytes it has
  H, Base          \* a header has H digits

\* What a digit at the place k of a header, from 0, is worth.
Potencia[k \in 0..H] == IF k = 0 THEN 1 ELSE Base * Potencia[k - 1]

ASSUME RedAssumption ==
  /\ H \in Nat \ {0} /\ Base \in Nat \ {0, 1}
  /\ Conversaciones \subseteq
       Seq([archivo : BOOLEAN, largo : 1..(Potencia[H] - 1)]) \ {<<>>}

VARIABLES
  mensajes,                      \* what this client sends
  actual, porEnviar, emisor,     \* the sender: message, its bytes, how it is
  hilo,                          \* the bytes on their way
  receptor, cabecera, largo, cuerpo, entregados,  \* the receiver
  partida, corto   \* ghosts: a header arrived in pieces, a file was not sent whole

delEmisor == <<mensajes, actual, porEnviar, emisor>>
delReceptor == <<receptor, cabecera, largo, cuerpo, entregados>>
varsRed == <<delEmisor, hilo, delReceptor, partida, corto>>

-----------------------------------------------------------------------------
(* Seeded faults, not used by any action.                                    *)

LargoSinCero(m) == mensajes[m].largo - (IF mensajes[m].archivo THEN 1 ELSE 0)
LargoDeMas(m) == mensajes[m].largo + (IF mensajes[m].archivo THEN 1 ELSE 0)
PideSinDescontar == H

RecibeFinSoloAlEmpezar ==
  /\ receptor = "cabecera" /\ hilo = <<>> /\ emisor = "cerrado"
  /\ receptor' = "cerrado" /\ cuerpo' = <<>>
  /\ UNCHANGED <<delEmisor, hilo, cabecera, largo, entregados, partida, corto>>

-----------------------------------------------------------------------------
\* The length the header says: that of the message, or st_size + 1.
LargoDicho(m) == mensajes[m].largo

Digito(n, k) == (n \div Potencia[k]) % Base

Cabecera(m) == [k \in 1..H |-> [m |-> m, k |-> k - 1 - H,
                                d |-> Digito(LargoDicho(m), k - 1)]]
Cuerpo(m) == [k \in 1..mensajes[m].largo |-> [m |-> m, k |-> k, d |-> 0]]
Trama(m) == Cabecera(m) \o Cuerpo(m)

Prefijo(s, n) == SubSeq(s, 1, n)
Desde(s, n) == SubSeq(s, n + 1, Len(s))

InitRed ==
  /\ mensajes \in Conversaciones
  /\ actual = 1 /\ porEnviar = Trama(1) /\ emisor = "abierto"
  /\ hilo = <<>>
  /\ receptor = "cabecera" /\ cabecera = 0 /\ largo = 0
  /\ cuerpo = <<>> /\ entregados = <<>>
  /\ partida = FALSE /\ corto = FALSE

-----------------------------------------------------------------------------
(* The sender.                                                               *)

EsArchivo == mensajes[actual].archivo
QuedaCuerpo == Len(porEnviar) <= mensajes[actual].largo

\* The first n bytes leave; b of those that are left are given up.
Salen(n, b) ==
  /\ emisor = "abierto" /\ n + b <= Len(porEnviar)
  /\ hilo' = hilo \o Prefijo(porEnviar, n)
  /\ LET resto == Desde(porEnviar, n + b) IN
     IF resto # <<>>
       THEN porEnviar' = resto /\ UNCHANGED <<actual, emisor>>
     ELSE IF actual < Len(mensajes)
       THEN actual' = actual + 1 /\ porEnviar' = Trama(actual + 1) /\ UNCHANGED emisor
     ELSE emisor' = "listo" /\ porEnviar' = <<>> /\ UNCHANGED actual
  /\ corto' = (corto \/ b > 0)
  /\ UNCHANGED <<mensajes, delReceptor, partida>>

\* socket_send, one pass of its loop: it goes on until all is sent.
socket_send ==
  /\ emisor = "abierto" /\ ~EsArchivo
  /\ \E n \in 1..Len(porEnviar) : Salen(n, 0)

\* socket_sendfile, in three calls: the header; what sendfile takes of the file,
\* which is not asked to go on with the rest, and may be nothing after an error;
\* and the '\0', counted in the length.
EnviaCabecera == emisor = "abierto" /\ EsArchivo /\ ~QuedaCuerpo /\ Salen(H, 0)

EnviaArchivo ==
  /\ emisor = "abierto" /\ EsArchivo /\ QuedaCuerpo /\ Len(porEnviar) > 1
  /\ \E n \in 0..(Len(porEnviar) - 1) : Salen(n, Len(porEnviar) - 1 - n)

EnviaCero ==
  /\ emisor = "abierto" /\ EsArchivo /\ Len(porEnviar) = 1 /\ mensajes[actual].largo > 1
  /\ Salen(1, 0)

\* sendfile answers 0 for an empty file, which pi takes for an end: it leaves,
\* as it does when it is killed.
Cierra ==
  /\ emisor' = "cerrado"
  /\ UNCHANGED <<mensajes, actual, porEnviar, hilo, delReceptor, partida, corto>>

ArchivoVacio ==
  emisor = "abierto" /\ EsArchivo /\ QuedaCuerpo /\ mensajes[actual].largo = 1 /\ Cierra

Muere == emisor \in {"abierto", "listo"} /\ Cierra

-----------------------------------------------------------------------------
(* socket_receive.                                                           *)

Recibe(n) ==
  /\ n <= Len(hilo)
  /\ hilo' = Desde(hilo, n)
  /\ UNCHANGED <<delEmisor, corto>>

\* What is left of the header.
Pide == H - cabecera

\* The loop goes on until it has the header; a length of 0 is taken for an end.
TrasCabecera ==
  IF cabecera' < H THEN "cabecera" ELSE IF largo' = 0 THEN "cerrado" ELSE "cuerpo"

\* The bytes of a piece are digits of the length in the first piece.  A byte of
\* a body taken for a digit may have any value.
RecibeCabecera ==
  /\ receptor = "cabecera" /\ cabecera = 0
  /\ \E n \in 1..Pide :
       /\ Recibe(n)
       /\ cabecera' = n
       /\ largo' \in
            {v \in 0..(Potencia[n] - 1) :
               \A k \in 1..n : hilo[k].k < 0 => Digito(v, k - 1) = hilo[k].d}
       /\ partida' = (partida \/ n < H)
       /\ receptor' = TrasCabecera
  /\ UNCHANGED <<cuerpo, entregados>>

\* The next pieces are written cabecera * 4 bytes further on, over what else
\* the stack holds, which is undefined.  PP may die of it; or the receiver takes
\* bytes from then on with no idea of where a message begins, and what it hands
\* over is not followed, until it takes something for an end.
PisaLaPila ==
  /\ receptor = "perdido" \/ (receptor = "cabecera" /\ cabecera # 0)
  /\ \E n \in 1..(IF receptor = "perdido" THEN Len(hilo) ELSE Pide) : Recibe(n)
  /\ receptor' \in {"perdido", "cerrado", "roto"}
  /\ cabecera' = 0 /\ largo' = 0
  /\ UNCHANGED <<cuerpo, entregados, partida>>

RecibeCuerpo ==
  /\ receptor = "cuerpo"
  /\ \E n \in 1..(largo - Len(cuerpo)) :
       /\ Recibe(n)
       /\ LET todo == cuerpo \o Prefijo(hilo, n) IN
          IF Len(todo) < largo
            THEN cuerpo' = todo /\ UNCHANGED <<receptor, cabecera, largo, entregados>>
            ELSE /\ entregados' = Append(entregados, todo)
                 /\ receptor' = "cabecera" /\ cabecera' = 0 /\ largo' = 0
                 /\ cuerpo' = <<>>
  /\ UNCHANGED partida

\* recv answers 0: socket_receive does too, and what it had is freed.
RecibeFin ==
  /\ receptor \in {"cabecera", "cuerpo", "perdido"} /\ hilo = <<>> /\ emisor = "cerrado"
  /\ receptor' = "cerrado" /\ cuerpo' = <<>>
  /\ UNCHANGED <<delEmisor, hilo, cabecera, largo, entregados, partida, corto>>

Envia == \/ socket_send \/ EnviaCabecera \/ EnviaArchivo \/ EnviaCero
         \/ ArchivoVacio
Receptor == RecibeCabecera \/ PisaLaPila \/ RecibeCuerpo \/ RecibeFin

NextRed == Envia \/ Muere \/ Receptor

SpecRed == InitRed /\ [][NextRed]_varsRed

\* The kernel moves what there is to move, and both ends are waiting for it.
EspecJusta == SpecRed /\ WF_varsRed(Envia) /\ WF_varsRed(Receptor)
-----------------------------------------------------------------------------
(* Properties.                                                               *)

\* What socket_receive hands over is, message by message, what was sent: never
\* a part of one, the end of one with the beginning of the next, or nothing.
\* Two things spoil it, and nothing else does: a header that arrives in pieces,
\* and a file that sendfile did not send whole.
Integros ==
  ~partida /\ ~corto =>
    \A i \in DOMAIN entregados : i \in DOMAIN mensajes /\ entregados[i] = Cuerpo(i)

\* If the connection lasts and nothing spoils it, every message arrives.
Llegan ==
  <>( \/ emisor = "cerrado" \/ partida \/ corto
      \/ Len(entregados) = Len(mensajes) )

\* A client that leaves is noticed, whatever it left half sent and however the
\* lengths were misread: the LTS does not wait for it for ever, unless a header
\* in pieces was the end of PP.
SeEntera == emisor = "cerrado" ~> receptor = "cerrado" \/ (partida /\ receptor = "roto")
=============================================================================
