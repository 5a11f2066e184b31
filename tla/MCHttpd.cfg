SPECIFICATION Spec
CONSTANTS
  Conns = {1, 2, 3}
  CONNMAX = 2
INVARIANTS ChildrenKeepTheirSlot AnswersAreEnded
PROPERTIES RequestsAreAnswered KeepsAccepting
