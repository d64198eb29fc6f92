CONSTANTS
    e1 = e1
    e2 = e2
    p1 = p1
    p2 = p2
    pw1 = pw1
    pw2 = pw2
    r1 = r1
    r2 = r2
    Emails = {e1, e2}
    Phones = {p1, p2}
    NoDigits = {p2}
    Passwords = {pw1, pw2}
    Reqs = {r1, r2}
    MaxAttempts = 2
    MaxUsers = 2
    MaxCodes = 3
SPECIFICATION AccountsSpec
INVARIANTS
    IdentityIsUnique
    MailWasRead
    AnnouncedIsThere
SYMMETRY MCSymmetry
