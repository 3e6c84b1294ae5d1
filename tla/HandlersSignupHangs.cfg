\* Two threads sign up the same name.
SPECIFICATION Spec
CONSTANTS
    Name = {"test", "bob"}
    NoName = ""
    Password = {"code"}
    NoPass = ""
    Like <- Exactly
    TestName = "test"
    InitialUsers <- OnlyTest
    InitialComments <- NoComments
    Thread = {t1, t2}
    Op = {"signup"}
    MaxKeys = 0
    MaxComments = 0
PROPERTIES
    SignupAnswered
