\* Two transports, two processes, two outputs of the first and one of the second, a buffer of
\* one, one fault.
CONSTANTS
  Transports = {t1, t2}
  BufferSize = 1
  MaxGenerations = 2
  MaxOutput = 2
  MaxFaults = 1
SPECIFICATION FairSpec
INVARIANTS TypeOK NothingLost StoredOnce EndedIsOver
PROPERTIES Reaped
\* The session may end, and nobody has to watch it.
CHECK_DEADLOCK FALSE
