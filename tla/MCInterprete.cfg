SPECIFICATION EspecJusta
CONSTANTS
  Nombres <- MCNombres
  Programas <- MCProgramas
  AnchoLong = 3
  AnchoInt = 2
  MaxPila = 3
INVARIANTS NuncaRoto LlamadasAnidadas NoEjecutaLlamadas
PROPERTIES AsignacionSeLee Termina
CHECK_DEADLOCK FALSE
