SPECIFICATION Spec
CONSTANTS
  Areas = {"coins", "coinsPlan", "circle", "circleRule", "cards", "halving", "pancakes",
           "pancakePlan", "turn", "turnRule", "boxes", "boxesRule", "forest", "stars",
           "even", "truck", "words", "engine", "compiled", "scan"}
  Unused = Unused
  None = None
  FewCoins = {1, 2, 3}
  MaxWeighs = 2
  CircleSizes = {3, 4}
  CircleCounts = {2, 3}
  CardSizes = {3, 4}
  CardPool = {1, 2, 3, 4, 5}
  StackSizes = {3, 4}
  MaxFlips = 3
  TurnCards = 3
  MaxLog = 6
  BoxSizes = {2, 3}
  BoxApples = {1, 2, 3}
  MaxChecks = 4
  MaxGames = 2
  MaxHeight = 4
  Trees = 3
  MaxCuts = 3
  StarMaps <- FourStars
  MaxAttempts = 4
  EvenClauses = 4
  TruckClauses = 5
  EnginePrograms <- LoopPrograms
  EngineBoxes <- TwoBoxes
  EngineBudget = 7
CONSTRAINT StillWritten
INVARIANTS TypeOK VerdictsAreRight LogsExplain ComputationsAgree
CHECK_DEADLOCK FALSE
