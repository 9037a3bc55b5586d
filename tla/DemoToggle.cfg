SPECIFICATION FairSpec
CONSTANT MaxClicks = 4
INVARIANT LatestDecides
PROPERTY ClicksReturn
CHECK_DEADLOCK FALSE
