CONSTANTS
  p1 = p1
  p2 = p2
  p3 = p3
  Nadie = Nadie
  Procesos = {p1, p2, p3}
  Programas <- MCProgramasVida
  MPS = 3
  MMP = 1
  THREADS_IOT = 1
  Q_EXP = 2
  CuantosRecarga <- MCSinRecarga
SPECIFICATION EspecJusta
INVARIANTS RafagaAcotada
PROPERTIES TodosTerminan ImplementaCiclo
