SPECIFICATION EspecJusta
CONSTANTS
  Clientes = {c1, c2, c3}
  Fds <- MCFds
  MPS = 2
  Cortes = {c1}
  Bandeja = 1
  Nadie = nadie
INVARIANTS SinNulo UnActivoPorPid CupoDeServidor MensajesPropios CupoConCliente
PROPERTY TodoClienteSale
CHECK_DEADLOCK FALSE
