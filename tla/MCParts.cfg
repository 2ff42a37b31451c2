CONSTANTS
  None = None
  Unwritten = Unwritten
  Controls = {exposure, whiteBalance}
  Found <- MCFound
  MaxRequests = 3
  MaxOpens = 2
  MayMisread = {1}
  Writers = {w1, w2}
  Size = 2
  WordCount = 2
  MaxRecorded = 4
  Tabs = {1, 2}
  MaxLoads = 2
  Furthest = 12
  Looks <- MCLooks
  Near = 5
  Loose = 7
  MinReads = 2
  MaxGroups = 2
  MaxSides = 2
  MaxFrames = 6
  Faces <- MCFaces
  Edges <- MCEdges
  EdgesOf <- MCEdgesOf
  Turns <- MCTurns
  MaxMoves = 4
  MaxSteps = 3

SPECIFICATION PartsSpec
\* Openings, loads, frames and moves are bounded.
CHECK_DEADLOCK FALSE

INVARIANT PartsTypeOK
INVARIANT NothingLeftOn
INVARIANT ModesPutBack
INVARIANT WhatIsReportedIsSo
INVARIANT NoTornEvent
INVARIANT OneReload
INVARIANT SidesInView
INVARIANT MergedDoesTheSame
PROPERTY LetGoIsOff
