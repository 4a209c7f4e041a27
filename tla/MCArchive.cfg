SPECIFICATION Spec
CONSTANTS
  Services <- mcServices
  slug <- mcSlug
  Plain <- mcPlain
  Sick <- mcSick
  Packs <- mcPacks
  Before <- mcBefore
  maxPackFiles = 11
  Faults = 2
  Runs = 2
INVARIANTS TypeOK PackedIsWhole NothingLostUnasked ReaderSeesWhole RetryWorks
CHECK_DEADLOCK FALSE
