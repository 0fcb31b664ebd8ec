CONSTANTS
    Ids <- MCIds
    Tokens <- MCTokens
    TokenOf <- MCTokenOf
    MaxCrashes = 2
SPECIFICATION Spec
INVARIANTS TypeOK StoresAgree SomeCompleteCopy
PROPERTIES ImplementsStore
