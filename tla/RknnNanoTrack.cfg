SPECIFICATION TrackerSpec
CONSTANTS
    small = small
    large = large
    corner = corner
    wide = wide
    NoSize = NoSize
    NoRoi = NoRoi
    NoDir = NoDir
    Sizes = {small, large}
    Rois = {corner, wide, NoRoi}
    Dirs = {d1}
    Precisions = {"mixed", "int8", "int4"}
    Resizes = {"auto", "cpu", "gpu"}
    FitsIn <- MCFitsIn
INVARIANTS
    TrackerMatchesSettings
    RunsWithValidSettings
    TemplateFresh
    NothingDangling
    NothingLeaked
    ImageOfThisFrame
    HeadMatchesTemplate
PROPERTIES
    ImplementsContract
