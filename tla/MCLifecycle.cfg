\* Two requests served at a time, the watchdog and the main goroutine.
SPECIFICATION FairSpec
CONSTANTS
  Handlers = {h1, h2}
INVARIANTS
  TypeOK
  NoUseAfterClose
  CleanExitIsDrained
PROPERTIES
  SignalEndsProcess
