SPECIFICATION Spec
CONSTANT MaxPositions = 255
CHECK_DEADLOCK FALSE
INVARIANT OneLenIsExact
