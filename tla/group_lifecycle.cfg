\* Two groups of one container, every order of calls.
SPECIFICATION Spec
CONSTANTS
  Groups = {g1, g2}
  MaxProcesses = 1
  MaxNotifiers = 1
INVARIANTS
  TypeOK
  PointersTellState
  ResultsMatchTask
PROPERTIES
  AnswersAreFinal
