\* One store of the control plane at a time.
SPECIFICATION Spec
CONSTANTS
  a1 = a1
  a2 = a2
  g1 = g1
  g2 = g2
SYMMETRY Symmetry
INVARIANTS TypeOK AccessAuthorised ChangesAuthorised LimitsHeld AccountsAgree PlansSound
PROPERTIES EndsStay
CHECK_DEADLOCK FALSE
