SPECIFICATION SimSpec
CONSTANTS
    NumRows = 4
    Images = {"ref", "new"}
    Ref = "ref"
    New = "new"
    Lead = 3
    Damage = {FALSE}
    BodySizes = {1, 2, 3, 4, 6}
INVARIANTS SimTypeOK EndsAsDemanded
