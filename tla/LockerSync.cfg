CONSTANTS
  MaxEdits = 3
SPECIFICATION Spec
INVARIANTS AccountSound OpenVaultCurrent CleanIsUploaded PushesAgreed
PROPERTIES SyncReleases
CHECK_DEADLOCK FALSE
