SPECIFICATION Spec
CONSTANTS
  MaxMessages = 2
  MaxEntries = 2
  MaxRequests = 2
  EspeakAudioQueueMaxSize = 0
INVARIANTS EventsInOrder
PROPERTIES EveryMessageEnds
