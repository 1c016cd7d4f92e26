SPECIFICATION Spec
CONSTANT MaxBT = 25
INVARIANT ModulesAnswerTheWhole
CHECK_DEADLOCK FALSE
