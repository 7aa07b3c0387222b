CONSTANTS
  MaxEvents = 1
  MaxLive = 1
  MaxQueries = 1
  MaxDrops = 1
  RejectCodes = {1006}
SPECIFICATION Spec
PROPERTY
  StreamResumes
