SPECIFICATION Spec
CONSTANTS
  Threads = {t1, t2, t3}
  NoThread = noThread
PROPERTY FirstComeFirstServed
