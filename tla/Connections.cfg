\* Two clients and their threads.
SPECIFICATION Spec
CONSTANTS
    Client = {c1, c2}
    Nobody = Nobody
    Thread = {t1, t2}
    Descriptor = {d1}
    NoHandle = NoHandle
    Want <- Wants
    Size = 3
    Chunk = 2
    Room = 1
INVARIANTS
    TypeOK
    OwnSocket
    LeaksOnlyRefused
    PunctualPayloadWhole
    WholeOrNothing
    TransferInOrder
PROPERTIES
    
    
    StopEnds
