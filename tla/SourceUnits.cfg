\* times of words, a late recogniser, repeated words
CONSTANTS
    Speech <- Sermon
    Jitter <- Exact
    WordTicks = 3
    WindowWords = 4
    MaxPasses = 2
    minimum_words = 2
    punctuation_minimum_words = 2
    maximum_words = 5
    maximum_duration = 14
    tolerance = 1
    alignDistance = 5
    contextWords = 3
    loopWords = 5
    loopRepeats = 3
    loopCovers = 3
    phraseWords = 2
    loopTail = 1
    MaxResets = 1
SPECIFICATION UnitsSpec
CHECK_DEADLOCK FALSE
INVARIANTS
    SpeechSpelt
PROPERTY StableWordsStay
