\* Two calls whose handlers may both return one package-level error.
CONSTANTS
  busy = busy  wordy = wordy  odd = odd
  s1 = s1  s2 = s2
  Calls = {s1, s2}
  Codes = {busy, wordy, odd}
  Misspelled = {odd}
  Shared = busy
  Members = {0, 4, 7}
  Catalogues <- Loaded
  TypeBytes <- Weights
  DefaultMaxBytes = 7
  OffendingTypeMaxBytes = 2
  MaxBytes = 6
  MaxObjects = 3
SYMMETRY Symmetry
SPECIFICATION Spec
INVARIANTS TypeOK IdentitySurvives AnswersFit
PROPERTIES ErrorsNeverChange
