CONSTANTS
    Events = {e1, e2, e3, e4, e5}
    MaxTime = 2
SPECIFICATION Spec
PROPERTIES ImplementsAgenda
SYMMETRY EventSymmetry
