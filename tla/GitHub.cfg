SPECIFICATION FairSpec
CONSTANTS
  Request = {r1, r2}
  NoRequest = none
  Panel = {p1}
  MaxSignIn = 2
CHECK_DEADLOCK FALSE
INVARIANTS SignedOutStays
PROPERTIES ConnectedIsInstalled ActionEnds PanelSettles
