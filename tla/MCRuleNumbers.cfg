SPECIFICATION Spec
CONSTANTS
    i1 = i1
    i2 = i2
    Interactions = {i1, i2}
    MaxRules = 3
SYMMETRY Symmetry
INVARIANTS TypeOK NumbersMeanWhatWasRead WritesHitTheirRule DeletionsAreSaidOnce
