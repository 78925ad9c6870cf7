SPECIFICATION Spec
CONSTANTS
    None = None
    Docs = {d1, d2}
    MaxCalls = 2
    MaxPolls = 1
INVARIANTS WorkIsUnderWay ButtonWritesOffer KnownSlidesExist
PROPERTY GenerationEnds
