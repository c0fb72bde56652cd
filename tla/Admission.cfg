SPECIFICATION Spec
CONSTANTS
    Reqs = {r1, r2, r3, r4}
    Policies <- Reloads
INVARIANTS AdmissionInv QueueBounded
PROPERTY ImplementsSlots
SYMMETRY Sym
