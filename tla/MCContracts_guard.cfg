SPECIFICATION Spec
CONSTANTS
  Definitions <- MCDefinitions
  LangItemDefs <- MCLangItemDefs
  Sorts <- MCSorts
  FieldCount <- MCFieldCount
  Programs <- MCMatches
  Envs <- MCEnvs
  Numerals <- MCNumerals
  ExtractBody <- MCExtractBody
INVARIANT GuardsKept
CHECK_DEADLOCK FALSE
