\* Five samples in the window, three of their times kept.
CONSTANTS
    N = 5
    Values = {0, 1, 2}
    Times = {t1, t2}
    NoTime = NoTime
SPECIFICATION Spec
INVARIANTS TypeOK MedianOfWindow TimeOfTheMiddle MonotoneAnswersASample
