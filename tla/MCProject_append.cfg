SPECIFICATION ProjectSpec
CONSTANTS
  Nodes = {n1}
  Displays = {d1}
  Names = {3, 4, 5}
  IO <- MCIO
  Loaded <- MCLoaded
  LineMax = 5
  FormTexts <- MCTexts
  FormBoxes <- MCBoxes
  Texts = {"", "wide", "huge"}
  Peers = {"p", "q"}
  Points = {0, 1}
  Layers = {1, 2}
  Widgets = {"w"}
  HmiLoaded <- MCHmiLoaded
  Initial <- MCInitial
  Added <- MCAdded
  Drawn <- MCDrawn
  Places = {1, 2}
  Symbols = {"xic", "horz"}
  Clicks = 4
INVARIANT LinksFollow
