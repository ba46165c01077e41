SPECIFICATION Spec
CONSTANTS
    t1 = t1
    t2 = t2
    t3 = t3
    t4 = t4
    t5 = t5
    t6 = t6
    Targets = {t1, t2, t3, t4, t5, t6}
    MaxLoad <- MCMaxLoad
SYMMETRY MCSymmetry
INVARIANT HeapIsRight
PROPERTY IdleConnectionPreferred
