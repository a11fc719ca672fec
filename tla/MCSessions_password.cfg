SPECIFICATION SessionsSpec
CONSTANTS
    Logins = {l1, l2}
    SessionIds = {s1, s2}
    Passwords = {p1, p2}
    MaxSessions = 2
    MaxVersion = 2
    Requests = {r1, r2, r3}
    MaxGeneration = 4
    Calls = {c1, c2}
    CodeLimit = 1
    MaxAttempts = 2
    DailyLimit = 3
    Window = 1
    Ttl = 1
    Day = 2
    MaxTime = 2
    MaxCodes = 3
    Devices = {d1, d2}
    Captchas = {k1}
    AccountLimit = 2
    DeviceLimit = 1
    IpLimit = 2
    FloodLimit = 3
    CaptchaAfterAccount = 1
    CaptchaAfterIp = 2
    MaxLog = 3
SYMMETRY Symmetry
CHECK_DEADLOCK FALSE
INVARIANTS OnlyTheCurrentPassword
