SPECIFICATION MCSpec
CONSTANTS
    c1 = c1
    c2 = c2
    old = old
    new = new
    NoOne = NoOne
    Containers = {c1, c2}
    Images = {old, new}
    Children = {1, 2}
    Corpus <- MCCorpus
    ParentOf <- MCParentOf
    BatchSize = 1
    MaxBegun = 4
    Lexical = {1}
    Variants = 2
    FinalK = 2
INVARIANTS
    ServingIsIndexed
    FailuresHaveCauses
    OmissionsHaveCauses
SYMMETRY Symmetry
CHECK_DEADLOCK FALSE
