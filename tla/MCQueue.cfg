SPECIFICATION Spec
CONSTANTS
  q1 = q1
  q2 = q2
  a1 = a1
  a2 = a2
  a3 = a3
  NULL = NULL
  QueueId <- MCQueueId
  Item <- MCItem
SYMMETRY Symm
INVARIANTS
  Linked
  ForallInOrder
