SPECIFICATION Spec
CONSTANTS
  p1 = p1
  p2 = p2
  p3 = p3
  Nadie = Nadie
  Procesos = {p1, p2, p3}
  Prioridad <- MCPrioridad
  Lineas <- MCLineas
  Instrucciones = 2
  Configuraciones <- MCConfiguraciones
  Recargas = 1
INVARIANTS TypeOK OrdenExplicado LapCompleta
PROPERTY DespachoCorrecto
