SPECIFICATION Spec
CONSTANTS
    NotArray = NotArray
    NotString = NotString
    NotJson = NotJson
    NotObject = NotObject
    BadTree = BadTree
    Throws = Throws
    Aborts = Aborts
    Undefined = Undefined
    Nothing = Nothing
    Absent = Absent
    BodiesOf <- MCChaptersOnly
    Launched = {"CPP", "PYTHON"}
    MaxDepth = 2
    MaxWidth = 2
INVARIANTS RequiredFields
