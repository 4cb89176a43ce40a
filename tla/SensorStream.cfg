SPECIFICATION StreamSpec
CONSTANTS
  Items <- MCItems
  Capacity = 2
  Messages <- MCMessages
  StaticCount = 1
  MaxLosses = 1
PROPERTIES Realigns DecodesWhatWasSent BufferIsQueue
