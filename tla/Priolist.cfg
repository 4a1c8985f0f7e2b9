SPECIFICATION Spec
CONSTANTS
    Pipes = {p1, p2, p3, p4}
    NoPipe = NoPipe
    MaxSlots = 3
SYMMETRY PipeSymmetry
INVARIANTS
    PointersConsistent
PROPERTY
    UsesBestReady
