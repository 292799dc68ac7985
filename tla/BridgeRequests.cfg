SPECIFICATION FairSpec
CONSTANTS
    Tab = {t1}
    Request = {q1, q2}
    MaxLives = 2
INVARIANTS TypeOK OneOutcome NoSessionLeaked OneHello
PROPERTIES ReadyIsHonored EveryRequestAnswered
CHECK_DEADLOCK FALSE
