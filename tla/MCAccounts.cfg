\* Up to three accounts and three requests.
CONSTANTS
    u1 = u1
    u2 = u2
    u3 = u3
    n1 = n1
    n2 = n2
    n3 = n3
    m1 = m1
    e1 = e1
    g1 = g1
    g2 = g2
    Users = {u1, u2, u3}
    Requests = {r1, r2, r3}
    Names = {n1, n2, n3}
    Emails = {e1}
    Mobiles = {m1}
    Identities = {g1, g2}
    EmailOf <- MCEmailOf
    Candidates <- MCCandidates
    Tables <- MCTables
    None = None
SYMMETRY Symmetry
SPECIFICATION Spec
INVARIANTS TypeOK IdentityIsAccount PicturesMatchRows ContactsProven SentPreferenceExists UsesAreReal
