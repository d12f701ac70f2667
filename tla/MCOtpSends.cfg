\* Messages: two users, one shared destination, sign-in and recovery, a provider
\* that may fail one tick after the claim.
CONSTANTS
    Ids = {i1, i2, i3}
    Requests = {}
    Users = {u1, u2}
    Destinations = {d1}
    Addresses = {a1}
    Methods = {"SMS"}
    Purposes = {"login", "password_reset"}
    None = None
    CodeTTL = 2
    EnrolTTL = 3
    Cooldown = 2
    Window = 3
    Day = 4
    Lockout = 2
    MaxAttempts = 2
    LoginDailyCap = 2
    ResetDailyCap = 1
    DestinationCap = 2
    AddressCap = 2
    SendTimeout = 1
    MaxTime = 5
SYMMETRY Symmetry
SPECIFICATION Spec
INVARIANTS DestinationWindow DailyAllowance CooldownKept
