CONSTANTS
  Tabs = {0}
  Watched = {0}
  Characters <- MCCharacters
  Keymaps <- MCKeymaps
  Heights = {3}
  Pages = {2}
  MaxInt = 10
  MaxScrolls = 2
SPECIFICATION Spec
PROPERTIES
  EndShowsLast
