SPECIFICATION Spec
CONSTANTS
    screen1 = screen1
    screen2 = screen2
    input = input
    Cast <- MCCast
    Input <- MCInput
    Together <- MCTogether
    MaxAsked = 6
INVARIANTS CastHearsEveryAnswer AnswersAreOwn SavedTokenIsCurrent
PROPERTY AttemptsEnd
CHECK_DEADLOCK FALSE
