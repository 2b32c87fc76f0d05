SPECIFICATION Spec
CONSTANTS
    Users = {"ann", "bob"}
    Requests <- AllRequests
    Owner <- TwoOwners
    AcctNos <- ShortAcctNos
    Threshold = 1000000
    PolicyLimit = 1000000
    MaxAmount = 1500000
    None = "None"
INVARIANTS
    NoUnearnedMoney
    GatesAgree
    ServesTheSubject
    RefusalIsFinal
    IbanIsValid
CHECK_DEADLOCK FALSE
