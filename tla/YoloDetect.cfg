SPECIFICATION Spec
CONSTANTS
    InputWidth = 8
    InputHeight = 6
    Boxes = {"a", "b", "c", "d"}
    ClassOf <- MCClassOf
    Score <- MCScore
    Overlap <- MCOverlap
    Sizes <- MCSizes
    NoSize = NoSize
    Place <- MCPlace
INVARIANTS
    BoxesInFrame
    DeliveredInOrder
