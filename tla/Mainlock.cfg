SPECIFICATION FairSpec
CONSTANT MaxDepth = 1
INVARIANTS
  SectionsLocked
  NoLostWakeup
  JoinFreesLock
PROPERTIES
  ImplementsCoreAccess
  UiServed
  ViceResumes
  ShutdownCompletes
