CONSTANTS
  Tabs = {0, 1, 3, 4}
  Watched = {1}
  Characters <- MCCharacters
  Keymaps <- MCKeymaps
  Heights = {1, 2}
  Pages = {10}
  MaxInt = 10
  MaxScrolls = 2
SPECIFICATION Spec
INVARIANTS
  TypeOK
PROPERTIES
  EscLeadsOut
  TypingNeverActs
  ScrollsFromShown
