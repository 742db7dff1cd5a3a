SPECIFICATION Spec
CONSTANTS
  q1 = q1  q2 = q2  pageTree = pageTree  recipe = recipe
  Requests = {q1, q2}
  Trees = {pageTree}
  Recipes = {recipe}
  MaxDeployments = 2
  Hidden = {1, 2, 3, 4}
  Docs = {3, 5, 6}
  MetaFile = 4
  I18n = 2
  ContentDir = 1
  Directories <- AllDirectories
SYMMETRY Symmetry
INVARIANTS  TreeIsComplete
CHECK_DEADLOCK FALSE
