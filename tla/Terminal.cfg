CONSTANTS
    Blocks = {b1, b2, b3, b4}
    NULL = NULL
    Wild = Wild
    hist_max_size = 2
    Letters = {"a", " "}
    Blank = " "
    LineLen = 3
    AnswerLen = 2
SPECIFICATION Spec
SYMMETRY Addresses
INVARIANTS
    TypeOK
    OneOwner
    ScreenShowsLine
PROPERTIES
    LinesAnswered
    NothingLost
    OverrunsAnswersOnly
    ImplementsLineInput
