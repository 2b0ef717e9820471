CONSTANTS
  PanelWidth = 2
  PanelHeight = 8
  NHor = 1
  NVer = 2
  Depth = 3
  FontWidth = 2
  Font <- MCFont
  Texts <- MCTexts
  Bitmaps <- MCBitmaps
  Scrolls <- MCScrolls
  MaxCalls = 2
SPECIFICATION Spec
INVARIANT TypeOK
PROPERTY PaintsWhatItNames
INVARIANT ScrollsThrough
