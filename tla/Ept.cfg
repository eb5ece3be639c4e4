SPECIFICATION Spec
CONSTANTS
  Fan = 2
  Top = 8
  LargePages = TRUE
  TweakExe = TRUE
  E820 <- MCE820
  Bars <- MCBars
  Low1M = 6
  StartHpa = 32
  MemSize = 6
  VbarBase = 6
  VbarTop = 8
  FetchCpus = {c1, c2}
  BarCpus = {c2}
  CopyCpus = {c1}
  NoCpu = NoCpu
INVARIANTS
  LargeNotExecutable
  WindowOnlyBars
PROPERTIES
  ImplementsFlatMap
  FetchSucceeds
