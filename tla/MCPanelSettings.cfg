CONSTANTS
  Percents <- MCPercents
  Levels <- MCLevels
  NoValue = NoValue
SPECIFICATION FairSpec
INVARIANT TypeOK
INVARIANT DarkWhileShifting
INVARIANT LitAsSet
PROPERTY BrightnessSettles
PROPERTY SettingsAreRegisters
