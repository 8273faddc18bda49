\* An update after one that preserved an edit.
SPECIFICATION Spec
CONSTANTS
    TreeFiles = {f1}
    RootFiles = {g1}
    Texts = {a, b}
    Absent = Absent
    MaxEdits = 1
PROPERTY PreservedStays
