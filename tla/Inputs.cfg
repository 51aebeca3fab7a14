\* The algorithms without state, on bounded inputs.
INIT Init
NEXT Next
CHECK_DEADLOCK FALSE
CONSTANTS
  MaxTokens = 5
  MaxText = 6
INVARIANTS
  
  WritesFollowSchema
  ScansFollowGrammar
  EnvelopeIsRead
  ScanFindsOrWaits
