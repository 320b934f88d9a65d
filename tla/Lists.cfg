SPECIFICATION Spec
CONSTANTS
  NULL = NULL
  Node = {n1, n2, n3, n4}
  fifo = fifo
  sorted = sorted
  Queue <- MCQueue
  Ordered <- MCOrdered
  Order = {1, 2}
INVARIANTS
  LinksSound RingsClosed
PROPERTY
  ImplementsQueues
