CONSTANTS
  Tasks = {t1, t2}
  NoTask = NoTask
  Prompt = TRUE
  Requests = {"r1", "r2", "r3"}
  Sizes = {2, 3}
  Points = {0, 1, 2}
  MaxSwaths = 2
  Inputs = {"i1", "i2", "i3"}
  NoInputs = NoInputs
  VariantsOf <- MCVariantsOf
  AutoCompare = TRUE
  Segments <- MCSegments
  MaxLength = 3
  ForwardSpeed = 5
  ReverseSpeed = 3
  Acceleration = 2
  Deceleration = 1
  NoPath = NoPath
  Width = 3
  Height = 2
  Resolution = 20
  Radius = 8
  Places <- MCPlaces
  Headings = {0, 1}
  AngularStep = 1
  TurningRadius = 30
  MaxPoses = 3
  MaxSamples = 40
  Grids <- MCGrids
  Moving = {"coverage", "preview", "semantics", "variants", "simulation", "validation"}
SPECIFICATION PlansSpec
INVARIANTS
  OwnPathExecuted PreviewIsOwn LabelsAreOrigins
  ComparedAsLoaded EstimateIsFastest SamplesAreEnough
CHECK_DEADLOCK FALSE
