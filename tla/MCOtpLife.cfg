\* The life of a code: one user, two channels, two flows, and the recovery
\* requests of its address.
CONSTANTS
    Ids = {i1, i2, i3}
    Requests = {r1, r2}
    Users = {u1}
    Destinations = {d1}
    Addresses = {a1}
    Methods = {"TOTP", "SMS"}
    Purposes = {"login", "password_reset"}
    None = None
    CodeTTL = 1
    EnrolTTL = 2
    Cooldown = 0
    Window = 1
    Day = 2
    Lockout = 1
    MaxAttempts = 2
    LoginDailyCap = 2
    ResetDailyCap = 2
    DestinationCap = 2
    AddressCap = 1
    SendTimeout = 0
    MaxTime = 1
SYMMETRY Symmetry
SPECIFICATION Spec
INVARIANTS OneCodePerFlow AddressWindow
PROPERTIES HeldCodeSurvives CodesAreSingleUse
