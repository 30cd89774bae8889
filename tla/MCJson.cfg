CONSTANTS
  MaxText = 8
  MaxMessage = 4
SPECIFICATION Spec
CHECK_DEADLOCK FALSE
INVARIANT StackIsInBuffer
INVARIANT DeliversInOrder
INVARIANT WholeAreDelivered
