\* One thread serves votes sent with username and password.
SPECIFICATION Safety
CONSTANTS
    Name = {"test", "admin"}
    NoName = ""
    Password = {"code"}
    NoPass = ""
    Like <- Exactly
    TestName = "test"
    InitialUsers <- AdminAndTest
    InitialComments <- Welcome
    Thread = {t1}
    Op = {"vote"}
    MaxKeys = 0
    MaxComments = 1
PROPERTIES
    VoteCountsForVoter
