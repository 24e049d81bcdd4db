CONSTANTS
  w1 = w1
  w2 = w2
  w3 = w3
  r = r
  Writers = {w1, w2, w3}
  Readers = {r}
  Keys = {0, 3, 9}
  NodeEntries = 3
  Height = 4
  MaxPrefix = 2
  Caps <- SmallCaps
SPECIFICATION LoadedSpec
CONSTRAINT OwnKeys
INVARIANT AnswersRight
