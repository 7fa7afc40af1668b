SPECIFICATION Spec
CONSTANTS
  kmain = kmain
  a = a
  b = b
  Threads <- MCThreads
  First = kmain
  Vectors <- MCVectors
PROPERTY HandlerGetsCode
