\* One account, three codes, two requests at a time.
CONSTANTS
    Ids = {i1, i2, i3}
    Apps = {i3}
    Users = {u1}
    Requests = {r1, r2}
    None = None
SYMMETRY Symmetry
SPECIFICATION Spec
INVARIANTS TypeOK OneChangePerCode OneSessionPerCode SwitchedOnce ResetDropsWhatWasOpen
