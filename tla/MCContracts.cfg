SPECIFICATION Spec
CONSTANTS
  Definitions <- MCDefinitions
  LangItemDefs <- MCLangItemDefs
  Sorts <- MCSorts
  FieldCount <- MCFieldCount
  Programs <- MCPrograms
  Envs <- MCEnvs
  Numerals <- MCNumerals
  ExtractBody <- MCExtractBody
INVARIANTS
  ContractAssembled
  FlagsAccounted
  MeaningKept
  ResultKept
  OperandsMatch
  PanicsExplained
CHECK_DEADLOCK FALSE
