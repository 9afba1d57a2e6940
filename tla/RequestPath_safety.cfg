SPECIFICATION Spec
CONSTANTS
    Requests = {r1, r2}
    hello = hello
    look = look
    cat = cat
    dog = dog
    Texts <- MCTexts
    Parts <- MCParts
    Bodies <- MCBodies
    Paths = {p1, p2, p3}
    None = None
    MaxConcurrent = 2
    MaxLitter = 1
    MaxAbandoned = 1
    Modes = {"colab", "mock"}
SYMMETRY Symmetry
INVARIANTS
    PathTypeOK
    AnswersAreOwn
    ContentInOrder
    OutcomeKept
    ScriptsTidied
    WorkIsOwned
PROPERTIES
    ImplementsCompletion
