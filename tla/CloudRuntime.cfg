SPECIFICATION Spec
CONSTANTS
  Webs = {"oldWeb", "newWeb"}
  Workers = {"worker"}
  Jobs = {1, 2}
  Latest = 3
  Ships <- MCShips
INVARIANT SchemaWhole
PROPERTY ServicesComeUp
PROPERTY SweepSpares
PROPERTY ScratchGoes
