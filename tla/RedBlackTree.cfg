SPECIFICATION MCSpec
CONSTANTS
    Nil = Nil
    Null = Null
    Prices <- Ten
INVARIANTS IsRedBlackTree LevelsInOrder
PROPERTIES HoldsTheLevels FixupEnds
