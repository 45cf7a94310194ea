\* Emission to one subscriber.
SPECIFICATION FairSpec
CONSTANTS
    m1 = m1
    m2 = m2
    n1 = n1
    n2 = n2
    None = None
    Names = {n1, n2}
    Messangers <- MCMessangers
    Readers <- MCReaders
    NameOf <- MCNameOf
    MaxMessages = 1
PROPERTIES
    EmittedIsDelivered
