CONSTANTS
  p1 = p1
  p2 = p2
  Nadie = Nadie
  Procesos = {p1, p2}
  Programas <- MCProgramasIoFinal
  MPS = 2
  MMP = 2
  THREADS_IOT = 1
  Q_EXP = 0
  CuantosRecarga <- MCSinRecarga
SPECIFICATION Spec
INVARIANTS UnSoloLugar
