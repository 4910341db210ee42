CONSTANTS
    ann = ann
    bob = bob
    six = six
    sixer = sixer
    long = long
    burak = burak
    abc = abc
    None = None
    Accounts = {ann, bob}
    Passwords = {six, sixer, long}
    Names = {burak, abc}
    Length <- MCLength
    Existing = {ann}
    FirstPassword = six
    FirstName = burak
    Gestures = {"tab", "login", "register", "signOut", "refresh", "picture", "profile", "password", "save"}
    Budget = 4
    Faults = {"fail", "quit", "revoke", "keychain"}
    MaxFaults = 1

SPECIFICATION Spec
CHECK_DEADLOCK FALSE
INVARIANTS
    TypeOK ProfileIsOwn WritesKept ScreenWhenIdle PasswordsChecked
