SPECIFICATION ChoiceSpec
CONSTANTS
    Selectors <- MCSelectors
    Queries <- MCQueries
    Patterns <- MCPatterns
    ScopeNames = {"none", "s"}
    ExactPathScore = 1000000
CHECK_DEADLOCK FALSE
INVARIANT HandlerOfItsRoute
