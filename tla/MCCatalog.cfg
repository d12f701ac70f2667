SPECIFICATION Spec
CONSTANTS
    u1 = u1  admin = admin
    c1 = c1  c2 = c2
    p1 = p1  p2 = p2
    k1 = k1  k2 = k2
    r1 = r1  r2 = r2
    None = None
    Users = {u1, admin}
    Admins = {admin}
    Characters = {c1, c2}
    Models = {1, 2, 3}
    Personas = {p1, p2}
    Conversations = {k1, k2}
    Requests = {r1, r2}
    ModelNames = {"a", "b"}
    Places = {"x", "y"}
    Tables <- MCTables
SYMMETRY Symmetry
INVARIANTS PersonasInPlace
PROPERTIES ClashOnlyByRace DeletionsStick
