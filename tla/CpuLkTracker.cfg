SPECIFICATION Spec
CONSTANTS
    small = small
    large = large
    corner = corner
    wide = wide
    NoSize = NoSize
    NoRoi = NoRoi
    Sizes = {small, large}
    Rois = {corner, wide, NoRoi}
    FitsIn <- MCFitsIn
    MinimumFeatures = 2
    MaxCorners = 4
    Reach = 2
INVARIANTS
    CornersLeft
PROPERTIES
    LostUntilRecaptured
    ImplementsContract
