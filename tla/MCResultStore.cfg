SPECIFICATION ResultSpec
CONSTANTS
    w1 = w1
    w2 = w2
    t1 = t1
    Null = Null
    Writers = {w1, w2}
    Lists <- SomeLists
    IdOf <- RunIds
    Unit = 10
    MaxTries = 2
INVARIANTS OneResultPerKey MetResultFound ToldStands
PROPERTIES FirstResultStands
CHECK_DEADLOCK FALSE
