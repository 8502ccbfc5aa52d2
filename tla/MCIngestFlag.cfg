\* The instance of MCIngest: a lossy cold start, then a clean refresh clears the flag.
CONSTANTS
    text1 = text1
    mine2 = mine2
    a = a
    b = b
    t1 = t1
    t2 = t2
    Chain = {1, 2}
    Conv = {a, b}
    MsgId = {m1}
    Content <- MCContent
    Version <- MCVersion
    Searchable <- MCSearchable
    Sent <- MCSent
    Topic = {topic}
    Other = {o1}
    Target = {t1, t2}
    None = None
    NoTopic = NoTopic
    MaxWrites = 3
SPECIFICATION Spec
PROPERTY FlagClearedOnlyWhenWhole
