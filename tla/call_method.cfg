CONSTANTS
  Kind = {"number", "iid", "domstring", "astring", "char_str", "wchar_str", "sized_str", "sized_wstr", "interface", "interface_is", "array", "other"}
  Direction = {"in", "out", "inout", "retval"}
  MaxParams = 3
  Given = {0, 1, 2, 3}
  MAX_XPTC_ARG_COUNT = 16
SPECIFICATION Spec
INVARIANTS
  TypeOK
  ReferencesDropped
  FreedOnce
  FailureIsTold
  LeadingInputsMatch
  ResultsInOrder
  QuietCallsCleanUp
