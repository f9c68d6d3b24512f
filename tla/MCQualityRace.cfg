SPECIFICATION Spec
CONSTANTS
  a = a  b = b
  Release = {a, b}
  Earlier = Earlier
  None = None
SYMMETRY Alike
INVARIANTS CollapsedNeverPublished
CHECK_DEADLOCK FALSE
