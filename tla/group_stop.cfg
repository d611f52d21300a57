\* A group is stopped while another one runs.
SPECIFICATION Spec
CONSTANTS
  Groups = {g1, g2}
  MaxProcesses = 0
  MaxNotifiers = 0
PROPERTIES
  StopsItsProcesses
