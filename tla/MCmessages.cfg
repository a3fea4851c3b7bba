SPECIFICATION Spec
CONSTANTS
  Chars <- TheChars
  RandomIds <- TheIds
  Settings <- TheSettings
  AdminFiles <- TheFiles
  Infos <- TheInfos
  MaxActs = 3
  Payloads <- ThePayloads
  Now <- TheNow
INVARIANTS
  TypeOK
  FramedIsFaithful
  StartsAfterSave
  SenderNeverForged
  InfoSurvives
PROPERTIES
  LoadRestores
CHECK_DEADLOCK FALSE
