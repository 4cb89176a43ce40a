SPECIFICATION ControllerSpec
CONSTANTS
  Positions = {p1, p2}
  Speeds = {s1}
  None = None
INVARIANTS LatestIsSent MovesFollowActivation MovesOnlyReady
PROPERTY ActivateIsObeyed
