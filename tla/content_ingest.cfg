SPECIFICATION FairGameSpec
CONSTANTS
  m1 = m1  m2 = m2  i1 = i1  i2 = i2
  Mods = {m1, m2}
  Imports = {i1}
  Game = Game  Direct = Direct  Free = Free  Shared = Shared  NoRepo = NoRepo
  NumNames = 4
  Repos <- OfMods
  GameRepos <- OfGame
  Vanilla <- GameFiles
  Modded <- LoaderFiles
  Nothing <- NoFiles
  GameItems = {4}
  MaxRuns = 2
  MaxTrouble = 1
  MaxImports = 2
  Own = {1}
  Trees <- Repositories
  Sources <- ItemSources
  TagItems <- TagContent
  RecipeFiles <- Files
INVARIANTS OneSource DoneIsWhole FlatIsCurrent NoWaitCycle 
INVARIANTS  ListedIsThere
 
CHECK_DEADLOCK FALSE
