SPECIFICATION FilesSpec
CONSTANTS
  u1 = u1
  u2 = u2
  lecturesCsv = lecturesCsv
  Order <- MCOrder
  FilesOf <- MCFilesOf
  Directories <- MCDirectories
  Versions = {1, 2}
  MaxEdits = 2
  MaxStarts = 2
CHECK_DEADLOCK FALSE
INVARIANTS
  PassedIsUnaltered
  NoFalseAlarm
  LineageCountsWhatWasWritten
