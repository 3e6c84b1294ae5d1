\* Every request whose handler repeats no statement is answered.
SPECIFICATION Spec
CONSTANTS
    Name = {"test"}
    NoName = ""
    Password = {"code"}
    NoPass = ""
    Like <- Exactly
    TestName = "test"
    InitialUsers <- OnlyTest
    InitialComments <- Welcome
    Thread = {t1, t2}
    Op = {"signin", "checksid", "signout", "vote", "checkuser"}
    MaxKeys = 1
    MaxComments = 1
PROPERTIES
    RequestsAnswered
