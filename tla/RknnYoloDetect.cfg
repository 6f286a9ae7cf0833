SPECIFICATION Spec
CONSTANTS
    Boxes = {"a", "b", "c", "d"}
    ClassOf <- MCClassOf
    Score <- MCScore
    Overlap <- MCOverlap
    Sizes = {"wide", "tall"}
    NoSize = "none"
    Areas = {"centre", "sides", "ends"}
    Covers <- MCCovers
INVARIANTS
    InputOfThisFrame
    ResourcesReleased
    BoxesSuppressed
