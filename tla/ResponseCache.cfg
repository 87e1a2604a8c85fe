CONSTANTS
    news = news
    home = home
    page = page
    list = list
    memo = memo
    Nothing = Nothing
    Tags <- MCTags
    PageKeys = {page, list}
    MemoKeys = {memo}
    TagsOf <- MCTagsOf
    PreviewKeys = {page}
    WriteTags <- MCWriteTags
    Readers = {r1}
    Writers = {w1, w2}
    PageMax = 1
    MemoMax = 1
    MaxData = 2
    MaxPurges = 1
    MaxClears = 1
SPECIFICATION Spec

INVARIANTS
    PurgeIsFinal
    StaleOnlyDuringWrite
    EveryEntryFiled
PROPERTIES
    ImplementsContract Converges
