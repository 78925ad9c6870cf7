SPECIFICATION Spec
CONSTANTS
    None = None
    Docs = {d1, d2}
    Nodes = {n1, n2}
    MaxCalls = 2
SYMMETRY MCSymmetry
INVARIANTS ControlsTrue PopupIsOwn LoadingIsAsked
PROPERTY LateDocsAreActive
