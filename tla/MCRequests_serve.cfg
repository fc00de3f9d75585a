SPECIFICATION Spec
CONSTANTS
    c1 = c1
    c2 = c2
    Conns = {c1, c2}
    Vms <- MCVms
    Snaps <- MCSnaps
    Tags <- MCTags
    Operations <- AllOperations
    Pieces = {512, 1023, 1024}
    MaxBody = 2560
    FormChars = {"n", "=", "&", "%", "+", " ", "2"}
    JsonChars = {"quote", "backslash", "newline", "tab", "return", "n", "x"}
    Bytes = {1, 127, 128, 255}
    TextNull = null
    MaxText = 3
SYMMETRY MCSymmetry
INVARIANTS
    TypeOK
    ContextsSound
    WholeBody
    ReachesHandler
    TextKept
