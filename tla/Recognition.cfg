SPECIFICATION RSpec
CONSTANTS
  Speakers = {a, b}
  RawTimes = {0, 2, 4, 20, 40}
  MaxRaw = 3
  Gap = 3
  MaxLen = 18
  MinLen = 3
  MinPiece = 1
  Samples = {10, 40}
  QuietSets = {{}, {2, 10, 18, 30}}
  Texts <- Said
  Plain <- Hello
  MaxOdd = 1
  Boilerplate <- Canned
  MaxRepeats = 2
  MaxUnit = 2
  MinSegment = 3
  Glossary <- Terms
  MaxPrompt = 3
  MaxWords = 3
  MaxLetters = 3
CHECK_DEADLOCK FALSE
INVARIANTS MergeKeepsSpeech SplitKeepsAudio StaysExclusive CutInSilence TranscriptIsExact
PROPERTIES RecognitionEnds
