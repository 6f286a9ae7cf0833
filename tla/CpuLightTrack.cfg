SPECIFICATION LightSpec
CONSTANTS
    small = small
    large = large
    corner = corner
    wide = wide
    NoSize = NoSize
    NoRoi = NoRoi
    NoDir = NoDir
    Sizes = {small, large}
    Rois = {corner, wide, NoRoi}
    Dirs = {d1, d2}
    FitsIn <- MCFitsIn
PROPERTIES
    NonFiniteNeverFollowed
    ImplementsContract
