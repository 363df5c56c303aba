SPECIFICATION EspecJusta
CONSTANTS
  Clientes = {c1, c2}
  Fds <- MCFds
  MPS = 1
  Cortes = {c1}
  Bandeja = 1
  Nadie = nadie
PROPERTY RechazoJusto
CHECK_DEADLOCK FALSE
