SPECIFICATION Spec
CONSTANTS
  Clientes = {c1, c2}
  Fds <- MCFds
  MPS = 1
  Cortes = {}
  Bandeja = 1
  Nadie = nadie
CHECK_DEADLOCK FALSE
INVARIANT NadieCortado
