CONSTANTS
    r1 = r1
    r2 = r2
    Requests <- MCRequests
    SendConfirmDelay = 3
    MaxEntries = 3
SPECIFICATION Spec
INVARIANTS
    TypeOK
    RecipientGate
    ShownIsSent
PROPERTIES
    YesEventuallyEnabled
