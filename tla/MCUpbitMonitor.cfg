SPECIFICATION FairSpec
CONSTANTS
  n1 = n1
  n2 = n2
  s1 = s1
  s2 = s2
  Stopper = Stopper
  None = None
  Notices <- MCNotices
  AnnouncedAt <- MCAnnouncedAt
  Savers <- MCSavers
  Window = 0
  Retention = 1
  MaxTime = 2
  MaxSpawned = 1
INVARIANTS
  TriggeredOncePerRun
  TornFileIsMended
PROPERTIES
  FileNeverForgets
  FoundIsAttempted
