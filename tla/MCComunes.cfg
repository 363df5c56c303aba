SPECIFICATION MCEspec
CONSTANTS
  e1 = e1
  e2 = e2
  e3 = e3
  Celdas = {e1, e2, e3}
  Valores = {0, 1, 2}
  Menor <- MCMenor
  Nada = Nada
  Conversaciones <- MCConversaciones
  H = 3
  Base = 2
INVARIANTS CuentaYCadena Integros
PROPERTIES ImplementaSecuencia Llegan SeEntera
CHECK_DEADLOCK FALSE
