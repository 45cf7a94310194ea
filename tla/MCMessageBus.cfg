\* Two messangers of one name, a name nobody has, and two messages.
SPECIFICATION FairSpec
CONSTANTS
    m1 = m1
    m2 = m2
    n1 = n1
    n2 = n2
    None = None
    Names = {n1, n2}
    Messangers <- MCMessangers
    Readers <- MCReaders
    NameOf <- MCSameName
    MaxMessages = 2
INVARIANTS
    TypeOK
    HeldAreLive
    DeletedOnce
    ListsInOrder
PROPERTIES
    PublishDelivers
    PublishedIsRead
