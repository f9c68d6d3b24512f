SPECIFICATION Spec
CONSTANTS
  a = a  b = b
  Release = {a, b}
  Earlier = Earlier
  None = None
SYMMETRY Alike
INVARIANTS TypeOK GateCarriesOneLabel PublishedHasRows GateMeasuresItsRelease
CHECK_DEADLOCK FALSE
