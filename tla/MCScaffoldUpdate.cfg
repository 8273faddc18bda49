\* Two files of the tree, one of the root, and one edit by the user.
SPECIFICATION Spec
CONSTANTS
    TreeFiles = {f1, f2}
    RootFiles = {g1}
    Texts = {a, b}
    Absent = Absent
    MaxEdits = 1
SYMMETRY UpdateSymmetry
INVARIANTS
    TypeOK
    UpdateDelivers
PROPERTY EditsSurviveKnownBase
