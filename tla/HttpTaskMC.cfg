SPECIFICATION Spec
CONSTANTS
    LineMax = 8
    SizeLimit = 27
    Answers <- MCAnswers
    Methods = {"GET", "HEAD", "POST"}
    RetryMax = 1
    RedirectMax = 1
    AgainMax = 1
INVARIANT PiecesEqualWhole
INVARIANT SuccessIsWhole
PROPERTY CalledBackOnce
