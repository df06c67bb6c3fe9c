CONSTANTS
    Thread = {t1, t2}
    Functor = {f1, f2, f3}
SPECIFICATION FairSpec
INVARIANTS
    TypeOK
    NoLostWakeup
    NoDeafQuit
    ExactlyOnce
PROPERTIES
    QuitReturns
    ImplementsContract
