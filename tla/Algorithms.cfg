SPECIFICATION Spec
CONSTANTS
    OddsChoices = {10000, 15000, 21234, 60001, 858993}
    Handicaps = {0, 25, 50, 75, 100, 125, 150}
    Scores = {0, 50, 100, 150, 200}
    WORD = 6
    BetNumbers = {0, 1, 2, 3, 4, 5, 6, 7, 8, 9, 10, 11, 12, 13, 14, 15, 16, 17, 18, 19, 20, 21, 22, 23, 24, 100}
    ScanKeys = {1, 2, 3, 4}
INVARIANTS
    AsianIsTwoHalfBets
    SidesAreOpposite
    DiceIsFair
    ScanIsOrdered
