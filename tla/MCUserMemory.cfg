SPECIFICATION Spec
CONSTANTS
    Proc = {p1, p2, p3}
    Frame = {f1, f2, f3, f4, f5}
    Text = {text}
    Data = {data}
    Stack = {stack}
    Value = {x1, x2}
    Program = x1
    Untouched = Untouched
    NoMemory = NoMemory
    MaxLost = 2
SYMMETRY Symmetric
INVARIANTS RefsExact SharedReadOnly
PROPERTIES ImplementsPrivateMemory
CHECK_DEADLOCK FALSE
