CONSTANTS
    Shared <- MCShared
    Includes <- MCIncludes
    Decimal <- MCDecimal
    Dates <- MCDates
    Json <- MCJson
    Markup <- MCMarkup
    Lower <- MCLower
    Collation <- MCCollation
    NameParts <- MCNameParts
    Hash <- MCHash
    ShortLen = 1
    ThreadInlineMax = 3
    DigestWhole = 3
    KeyOrder <- MCKeyOrder
    EntityOf <- MCEntityOf
    Corpus <- MCCorpus
    Profiles <- MCProfiles
    Engines = {"native"}
    MaxWrites = 1
    Limits = {1, 2, 4}
    Chunk = 2
    NamedGroups = 1
    CountedGroups = 2
    NamesShown = 1
    CollapseOver = 1
    Letters <- MCLetters
    NameWords <- MCNameWords
    Stopwords = {"you"}
    Codes = {}
    MinMentions = 2
    WindowLength <- MCWindowLength
    Words <- MCWords
    Windows <- MCWindows
    Asks <- MCAsks
    Now = 4
SPECIFICATION Spec
INVARIANT SearchIsAnswered
CHECK_DEADLOCK FALSE
