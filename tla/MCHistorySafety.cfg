SPECIFICATION Spec
CONSTANTS
  s1 = s1
  s2 = s2
  ls = ls
  cd = cd
  pw = pw
  Shell = {s1, s2}
  Command = {ls, cd, pw}
  Secret = {pw}
  NoFile = NoFile
  NoShell = NoShell
  MaxTries = 2
  MaxFile = 6
  Worlds <- Safety
INVARIANTS OnlyRacedFramesAreLost ViewKeepsUp
PROPERTIES RenameMergesWhatItReplaces
SYMMETRY Alike
