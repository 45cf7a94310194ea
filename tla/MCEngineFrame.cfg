\* The main thread, two workers, two messangers and one message.
SPECIFICATION FairFrameSpec
CONSTANTS
    w1 = w1
    w2 = w2
    p1 = p1
    p2 = p2
    n1 = n1
    n2 = n2
    f1 = f1
    f2 = f2
    Main = Main
    None = None
    Workers <- MCWorkers
    Processables <- MCProcessables
    Messangers <- MCProcessables
    Readers <- MCReaders
    Loggers <- MCReaders
    Names = {n1, n2}
    NameOf <- MCNameOf
    Files = {f1, f2}
    MaxMessages = 1
    SpuriousWakeups = TRUE
INVARIANTS
    ProcessIsPerformed
    HeldAreLive
    LogFileOwned
PROPERTIES
    BusContract
    MessageIsRead
