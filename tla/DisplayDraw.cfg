\* Two clients draw on a panel of 12 x 3 pixels, rotated or not.
SPECIFICATION Spec
CONSTANTS
  Clients = {c1, c2}
  Devices <- MCDevices
  XRes = 12
  YRes = 3
  HeapSize = 60
  W16 = 64
  W32 = 1024
  Colors = {1}
  Backgrounds = {2}
  Font <- MCFont
  FontHeight = 2
  Rects <- MCRects
  Icons <- MCIcons
  Texts <- MCTexts
  Places <- MCPlaces
  TextLines = {1}
SYMMETRY Symmetry
INVARIANT WritesFit
INVARIANT ReadyIsUsable
INVARIANT AlignedTextWhole
INVARIANT DrawsWhatWasAsked
INVARIANT OwnPixels
CHECK_DEADLOCK FALSE
