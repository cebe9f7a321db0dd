SPECIFICATION FairSpec
CONSTANTS
    t1 = t1
    m1 = m1
    m0 = m0
    l1 = l1
    l2 = l2
    d1 = d1
    d2 = d2
    NoId = NoId
    Topic = {t1}
    Msg = {m1}
    TopicOf <- OneTopic
    Listener = {l1, l2}
    DefaultListener = {d1, d2}
    Callback = {l2, d2}
    ListenerId = {0, 1}
    Capacity = 1
    Older = m0
    Busy = {l1}
INVARIANTS
    ListenersServed
PROPERTIES
    PublishReturns
CHECK_DEADLOCK FALSE
