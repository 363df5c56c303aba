SPECIFICATION Spec
CONSTANTS
  n1 = n1
  n2 = n2
  n3 = n3
  n4 = n4
  Nodos = {n1, n2, n3, n4}
  Claves = {0, 2, 3}
  Datos = {0, 1}
  Inicial = 2
  MaxTabla = 4
  MaxNulos = 1
  Encuentros = 0
  Nulo = Nulo
SYMMETRY MCSimetria
INVARIANT TamanioEsCantidad
CHECK_DEADLOCK FALSE
