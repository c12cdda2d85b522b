\* Two threads and three calls between them, called back or not, in builds
\* whose lock aborts, waits or enters when its owner asks again.
CONSTANTS
  t1 = t1  t2 = t2
  NULL = NULL
  Thread = {t1, t2}
  MaxCalls = 3
  CallBacks = {"get", "set"}
SPECIFICATION Spec
INVARIANTS TypeOK LibraryNeverReenters ExitsUnlocked
PROPERTIES FirstSetterWins CallsReturn
