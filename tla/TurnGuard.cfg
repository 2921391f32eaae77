SPECIFICATION FairSpec
CONSTANTS
    m1 = m1
    m2 = m2
    c1 = c1
    a1 = a1
    a2 = a2
    t1 = t1
    t2 = t2
    t3 = t3
    r1 = r1
    Message = {m1, m2}
    Conversation = {c1}
    ConversationOf <- MCConversationOf
    Agent = {a1, a2}
    Thread = {t1, t2, t3}
    AgentOf <- MCAgentOf
    Text = {r1}
    HandOver = HandOver
    NoResult = NoResult
    Nobody = Nobody
    MaxCalls = 2
    MaxGuardFaults = 2
INVARIANTS
    OneTurnPerConversation
    AnswersAreTheSavedResult
    NoNeedlessTurn
PROPERTIES
    ImplementsTurnOnce
    LockIsFreed
CHECK_DEADLOCK FALSE
