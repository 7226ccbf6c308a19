SPECIFICATION FairSpec
CONSTANTS
    a = a
    n1 = n1
    t1 = t1
    Realms = {a}
    Notifiers = {n1}
    Tokens = {t1}
    RealmOf <- OneRealm
    NotifierOf <- OneNotifier
    Features = {"suppress", "write in callback", "leave unused"}
    MaxVersion = 3
    SizeMax = 7
    None = None
INVARIANTS
    TypeOK
    NothingMissed
    PendingIsNews
    CountIsInside
PROPERTIES
    EveryCallbackHears
