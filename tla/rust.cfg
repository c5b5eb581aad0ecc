\* Two requests and one stream while the Context is used and dropped
SPECIFICATION Spec
CONSTANTS
  Requests = {r1, r2}
  Streams = {s}
  MaxEvents = 2
  None = None
INVARIANTS
  TypeOK
  OneInLibrary
  WaitersAreWoken
PROPERTIES
  EveryFutureEnds
  EventsAreTaken
  DropEnds
CHECK_DEADLOCK FALSE
