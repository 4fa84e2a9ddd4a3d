\* The toast, against the chunks on disk.
SPECIFICATION Spec
CONSTANTS
  exe = exe  pak = pak
  Folders = {x}
  NoFolder = NoFolder
  Files = {exe, pak}
  NumChunks = 2
  FilesOf <- Layout
  Required = {pak}
  Executable = exe
  Throttle = 1
  MaxDownloads = 1
  MaxOverlap = 0
  MaxRemovals = 0
  MaxCrashes = 0
  MaxFailedWrites = 0
INVARIANT InstalledIsWhole
\* The page rests when nobody clicks.
CHECK_DEADLOCK FALSE
