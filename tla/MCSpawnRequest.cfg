SPECIFICATION Spec
CONSTANTS
  Programs = {a}
  MaxActions = 5
  MaxArgs = 3
  ActionLists <- ActionsUpTo
  ArgLists <- ArgsUpTo
  Args <- Programs
  Faults <- AnyFault
  Null = Null
CHECK_DEADLOCK FALSE
INVARIANTS RequestInOrder NodesFreed ArgumentsCounted
