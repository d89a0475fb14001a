CONSTANTS
    A = A
    B = B
    m1 = m1
    m2 = m2
    Club = {A, B}
    Match = {m1, m2}
    Worker = {w1, w2}
    Desk = Desk
    None = None
    MaxTeam = 3
    MaxFixture = 3
    Home <- MCHome
    Away <- MCAway
    Days <- MCDays
    Name <- MCName
SPECIFICATION MCSpec
CONSTRAINT Modes
SYMMETRY Symmetry
INVARIANTS RefsAreLive TidyIndex NoMixUp
PROPERTIES OneRowStaysOne
CHECK_DEADLOCK FALSE
