SPECIFICATION ToolSpec
CONSTANTS
  Texts <- MCTexts
  Origins <- MCOrigins
  Images <- MCImages
INVARIANTS
  ReadAsWritten
  ExecutedAsWritten
  ListingAgrees
  PassesAgree
CHECK_DEADLOCK FALSE
