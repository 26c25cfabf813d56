SPECIFICATION FairSpec
CONSTANTS
    r1 = r1
    r2 = r2
    r3 = r3
    k1 = k1
    Requests = {r1, r2, r3}
    Methods <- MCMethods
    Keys = {k1}
    Cooldown = 2
    SendTimeout = 1
    MaxEvents = 2
    MaxRestarts = 1
CHECK_DEADLOCK FALSE
INVARIANTS
    ToldTopicIsUsed
PROPERTIES
    PostsAreSpaced
    EveryRequestAnswered
    EveryEventTaken
