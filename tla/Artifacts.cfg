SPECIFICATION Spec
CONSTANTS
    w1 = w1
    w2 = w2
    r1 = r1
    long = long
    short = short
    Hole = Hole
    NoFile = NoFile
    Writers <- TwoWriters
    Readers <- OneReader
    Bodies <- TwoBodies
    Size <- TwoAndOne
INVARIANTS TypeOK HashNamesFile CalmGetIsOneBody
PROPERTY GetSettles
