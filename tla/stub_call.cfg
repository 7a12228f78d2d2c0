SPECIFICATION Spec
CONSTANTS
  Kind = {"number", "char", "char_str", "string", "domstring", "cstring", "iid", "interface", "interface_is", "array", "other"}
  Direction = {"in", "out", "inout", "retval"}
  MaxParams = 3
  MaxValues = 3
INVARIANTS
  TypeOK
  ResultsReachCaller
  
  ReleasedTwice
  FailuresOnlyLeak
  FailuresKeepNumbers
