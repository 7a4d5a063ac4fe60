SPECIFICATION Spec
CONSTANTS
  Requests = {r1, r2}
  Workers = {w}
  Authorities = {"GST", "IT"}
  Identified = {"IT"}
  Replies <- SomeReplies
  Overlapping <- Overlaps
  MaxBusy = 2
  MaxDocuments = 1
  MaxFaults = 1
PROPERTIES
  FrozenForLaterUploads
  HumanValueKept
  ReviewSticks
  QueuedIsConcluded
