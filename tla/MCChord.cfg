SPECIFICATION FairSpec
CONSTANTS
  n1 = n1
  n2 = n2
  n3 = n3
  f1 = f1
  f2 = f2
  Nodes = {n1, n2, n3}
  HashMod = 8
  Id <- MCId
  R = 2
  FileId <- MCFileId
  Uploader <- MCUploader
  Threads = {1, 2}
  Files = {f1, f2}
  Long = {}
  Worlds <- MCWorlds
INVARIANTS OneRing NoFileLoss GetReturnsUpload
PROPERTIES RingForms FilesSettle OnlyCrashesLose
