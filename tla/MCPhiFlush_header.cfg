SPECIFICATION PhiFairSpec
CONSTANTS
  Variables = {"a", "b", "c"}
  Values = {"initial", "sum"}
  Initial = "initial"
  Parents = {"outside", "inside"}
  Outside = "outside"
  Inside = "inside"
  Joins <- MCJoins
  Nothing = "nothing"
  Stale = "stale"
  MaxVisits = 2
  MaxIterations = 3
INVARIANTS
  CopiesAreDeclared
  NeverThrows
PROPERTIES
  ImplementsPhiAssignment
  CompileTerminates
CHECK_DEADLOCK FALSE
