\* Attempts: one user with an authenticator and a phone, switching between them,
\* signing in and enrolling.
CONSTANTS
    Ids = {i1, i2, i3}
    Requests = {}
    Users = {u1}
    Destinations = {d1}
    Addresses = {}
    Methods = {"TOTP", "SMS"}
    Purposes = {"login", "verify_contact"}
    None = None
    CodeTTL = 2
    EnrolTTL = 3
    Cooldown = 1
    Window = 3
    Day = 4
    Lockout = 2
    MaxAttempts = 2
    LoginDailyCap = 2
    ResetDailyCap = 1
    DestinationCap = 2
    AddressCap = 2
    SendTimeout = 0
    MaxTime = 4
SYMMETRY Symmetry
SPECIFICATION Spec
INVARIANTS TypeOK AcceptedOnceInTime GuessBudget
