SPECIFICATION FairSpec
CONSTANTS
    Thoughts = {t1, t2, t3}
    Nil = Nil
INVARIANTS
    TypeOK
    BatchUpdatesFit
    TableShowsState
    StateHoldsStoredThoughts
    ObserverMatchesState
PROPERTIES
    StoredThoughtsAreShown
