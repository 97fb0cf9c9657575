SPECIFICATION Spec
CONSTANTS
    a1 = a1
    a2 = a2
    r1 = r1
    None = None
    Answers <- MCAnswers
    Results <- MCResults
    OwnerOf <- MCOwnerOf
    Writers = {t1, t2}
    Waiters = {w1}
INVARIANTS TypeOK NoLostUpdate NoStaleView
PROPERTY ImplementsMailbox
