SPECIFICATION MCSpec
CONSTANTS
    Conversations = {"g1", "g2"}
    Messages = {"a", "b"}
    ConvOf <- MCConvOf
    Own = {"a"}
    Text = {"a"}
    None = None
    MaxPicks = 2
INVARIANTS SentWhereMeant UploadStays ListHonest NoGhostScreen 
CHECK_DEADLOCK FALSE
