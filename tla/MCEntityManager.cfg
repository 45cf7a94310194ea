\* The application's entities; the constructors run in any order.
SPECIFICATION FairSpec
CONSTANTS
    None = None
    Manager <- MCManager
    Messangers <- MCMessangers
    Readers <- MCReaders
    Names <- MCMessangers
    NameOf <- MCNameOf
    Properties <- MCProperties
    RecipientOf <- MCRecipientOf
    Script <- MCScript
    MaxMessages = 8
    MaxPresses = 3
INVARIANTS
    TypeOK
    RegisteredIsShown
    NotifiedInOrder
PROPERTIES
    StillWhileDisplayed
    PressIsReceived
