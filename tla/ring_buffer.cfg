SPECIFICATION RingSpec
CONSTANTS
  Values = {1, 2}
  kCapacity = 3
  IndexModulus = 4
  MaxSpan = 2
  Nothing = Nothing
INVARIANTS SizeIsUsable
PROPERTIES ImplementsFifo
