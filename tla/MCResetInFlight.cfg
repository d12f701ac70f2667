\* What the recovery notes say of the codes in flight, refuted on one account.
CONSTANTS
    Ids = {i1, i2, i3}
    Apps = {i3}
    Users = {u1}
    Requests = {r1, r2}
    None = None
SYMMETRY Symmetry
SPECIFICATION Spec
PROPERTY ResetEndsSignIns
