SPECIFICATION EspecJusta
CONSTANTS
  Productores = {p1, p2}
  Consumidores = {c1}
  Ordenadores = {o1}
  Elementos = {e1, e2}
  Nulo = nulo
INVARIANTS SemaforoCuenta PopNoEsNulo UnDueno
PROPERTIES EsperaAtendida ImplementaCola
