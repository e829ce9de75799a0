CONSTANTS
    User = {u1}
    Asked = {9, 10}
    NaN = NaN
    NoRow = NoRow
    Call = {c1}
    Overlapping = FALSE
    MaxPublishes = 4
    MaxFaults = 0
SPECIFICATION Spec
INVARIANT LastPublishIsServed
