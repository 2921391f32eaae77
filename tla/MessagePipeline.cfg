SPECIFICATION FairSpec
CONSTANTS
    m1 = m1
    m2 = m2
    c1 = c1
    Message = {m1, m2}
    Conversation = {c1}
    ConversationOf <- MCConversationOf
    Handler = {h1, h2}
    Worker = {w1, w2}
    None = None
    MaxAttempts = 2
    MaxStalls = 1
    MaxDeliveries = 2
    MaxHolds = 1
    MaxFaults = 1
INVARIANTS
    OneRowOneJob
    StoredIsQueued
    OneReplyPerRun
PROPERTIES
    OnlyInFlightReplies
    HandOverIsCarriedOut
CHECK_DEADLOCK FALSE
