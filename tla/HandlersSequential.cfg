\* One thread serves every operation, one request at a time.
SPECIFICATION Safety
CONSTANTS
    Name = {"test", "bob", "Bob"}
    NoName = ""
    Password = {"code", "word"}
    NoPass = ""
    Like <- IgnoringCase
    TestName = "test"
    InitialUsers <- OnlyTest
    InitialComments <- NoComments
    Thread = {t1}
    Op = {"signup", "signin", "signout", "post", "vote", "change"}
    MaxKeys = 1
    MaxComments = 1
INVARIANTS
    
    
    
    AuthorsRegistered
    SessionsBelongToAccount
    NoDuplicateVotes

    
    
    
