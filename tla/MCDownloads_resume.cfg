\* One folder, two downloads, a crash, a failed write: what a resumed download skips.
SPECIFICATION FairSpec
CONSTANTS
  exe = exe  pak = pak
  Folders = {x}
  NoFolder = NoFolder
  Files = {exe, pak}
  NumChunks = 2
  FilesOf <- Layout
  Required = {pak}
  Executable = exe
  Throttle = 1
  MaxDownloads = 2
  MaxOverlap = 0
  MaxRemovals = 1
  MaxCrashes = 1
  MaxFailedWrites = 1
INVARIANTS TypeOK ListedWasWritten
PROPERTIES AnnouncedOrInFlight DownloadEnds
\* The page rests when nobody clicks.
CHECK_DEADLOCK FALSE
