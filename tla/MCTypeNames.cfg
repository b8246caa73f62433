SPECIFICATION Spec
CONSTANTS
  Programs <- AllPrograms
  Predefs <- PredefNames
  BuiltinIds <- BuiltinTids
  JavaLang <- JavaLangPkg
  JavaLangString <- StringName
  NoAnswer = NoAnswer
INVARIANTS NamesRight BuildErrorsExact FailuresExplained
CHECK_DEADLOCK FALSE
