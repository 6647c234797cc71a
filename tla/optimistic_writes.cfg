SPECIFICATION Spec
CONSTANTS
  a = a
  b = b
  Items = {a, b}
  Nothing = Nothing
  Drawn <- Shared
  Mine <- MyWrites
  Theirs <- TheirWrites
  MaxLag = 1
  MaxFaults = 2
INVARIANTS
  DependentsGoTogether
  AnswersSettle
  ViewAgrees
CHECK_DEADLOCK FALSE
