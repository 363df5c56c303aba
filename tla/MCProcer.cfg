CONSTANTS
  p1 = p1
  p2 = p2
  p3 = p3
  Nadie = Nadie
  Procesos = {p1, p2, p3}
  Programas <- MCProgramas
  MPS = 2
  MMP = 2
  THREADS_IOT = 1
  Q_EXP = 1
  CuantosRecarga <- MCRecarga
SPECIFICATION Spec
SYMMETRY MCSimetria
INVARIANTS UnSoloLugar CupoMps CupoMmp CupoIot AvisoEsperaReanudar
INVARIANTS ProgramaCompleto TablaAcotada MemoriaAtrasada PunteroAcotado
