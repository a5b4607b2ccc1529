SPECIFICATION Spec
CONSTANTS
    Letter = {"e", "d", "p", "t", "x"}
    MaxJoke = 5
    NameToken <- MCNameToken
    SurnameToken <- MCSurnameToken
    Jokes <- MCJokes
    Names <- MCNames
    Surnames <- MCSurnames
CHECK_DEADLOCK FALSE
INVARIANTS WithinBlock TokenReplaced BothReplaced StringsOwned
