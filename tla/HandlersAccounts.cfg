\* Two threads create an account, open, check and close sessions.
SPECIFICATION Safety
CONSTANTS
    Name = {"test", "bob"}
    NoName = ""
    Password = {"code"}
    NoPass = ""
    Like <- Exactly
    TestName = "test"
    InitialUsers <- OnlyTest
    InitialComments <- NoComments
    Thread = {t1, t2}
    Op = {"signup", "signin", "checksid", "signout"}
    MaxKeys = 2
    MaxComments = 0
SYMMETRY Threads
INVARIANTS
    TypeOK
    OneGrantPerName
    SignoutEndsSession
PROPERTIES
    SessionLife
