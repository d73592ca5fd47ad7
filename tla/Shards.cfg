SPECIFICATION MCSpec
CONSTANTS
  Nets <- MCNets
  Packs <- MCPacks
  Layouts <- MCLayouts
  MaxPacks = 2
  Tables <- MCTables
  Samplings <- MCSamplings
  Prompts <- MCPrompts
  Widths <- MCWidths
  Span = 3
  Shapes <- MCShapes
  Shardings <- MCShardings
  Gradients <- MCGradients
  MaxUpdates = 2
  Levels = 2
  Models <- MCModels
  Sizes = {1, 2, 4}
  HeadDim = 2
  CopyBudget = 6
  MaxSaves = 2
INVARIANT SplitLayerIsWhole
INVARIANT SplitVocabularyIsWhole
INVARIANT ShardingDoesNotShow
INVARIANT RoundTrip
CHECK_DEADLOCK FALSE
