SPECIFICATION FairSpec
CONSTANTS
  Chunks = 4
  ImageChunks = 3
  QueueLimit = 2
  DiskMayFail = TRUE
  WriterMayHang = TRUE
INVARIANTS TypeOK NoHoles PublishedIsWhole NothingLeftBehind
PROPERTIES DownloadGoesOn WriterEnds
