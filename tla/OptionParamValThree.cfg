\* Three objects: two that are assigned to each other and one beside them.
CONSTANTS
    Zero = Zero
    x = x
    NoObject = NoObject
    Slots = {s1, s2, s3}
    Contents <- Two
    DefaultParam <- AllSet
SPECIFICATION OSpec
INVARIANTS
    OTypeOK
    TagTellsString
    ReadBack
