SPECIFICATION Spec
CONSTANT MaxBT = 25
INVARIANTS ConvertersAgree NumbersExact AcceptedTreesAreSound FilesFitNodes  ModulesExact
CHECK_DEADLOCK FALSE
