SPECIFICATION FairSpec
CONSTANTS
  Task = {t1, t2, t3}
  BuiltIn = BuiltIn
  NoTask = NoTask
INVARIANTS BootstrapsOnce
PROPERTIES DownForGood Configures
