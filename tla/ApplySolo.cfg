SPECIFICATION Spec
CONSTANTS
  Rules = {1, 2, 3, 4}
  Domains <- MCDomains
  Meta <- MCMeta
  Sessions = {s1}
  Invocations <- SoloInvocations
  MaxAdmin = 1
INVARIANTS
  TypeOK
  DestructiveOnlyByConsent
  NoWriteBeforeYes
  WaivedFindingsUntouched
  RowsTellTheTruth
  LogTellsTheTruth
CHECK_DEADLOCK FALSE
