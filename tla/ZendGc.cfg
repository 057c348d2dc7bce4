CONSTANTS
    n1 = n1
    n2 = n2
    n3 = n3
    Node = {n1, n2, n3}
    Destructor = {n1}
    MaxRefs = 3
SPECIFICATION Spec
INVARIANTS
    NoDangling
    RefcountExact
    BufferConsistent
    GarbageIsFound
PROPERTIES
    CollectsAll
    DestructedOnce
SYMMETRY Alike
