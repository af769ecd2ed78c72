SPECIFICATION Spec
CONSTANTS
  None = None
  Nothing = Nothing
  NotXml = NotXml
  Tag <- MCTag
  Element <- MCElement
  SecretTag <- MCSecretTag
  OrdinaryTag <- MCOrdinaryTag
  Spelled <- MCSpelled
  Lower <- MCLower
  Height <- MCHeight
  MaxHeight <- MCMaxHeight
  MaxDepth = 3
INVARIANT FirstTextWins
INVARIANT SummarySound
INVARIANT SecretsMasked
INVARIANT OrdinaryFieldsShown
CHECK_DEADLOCK FALSE
