CONSTANTS
  CoreMasks <- MCCoreMasks
  Counters <- MCCounters
  Width = 4
  None = None
  MaxPackets = 3
  MaxResets = 2
SPECIFICATION Spec
INVARIANTS TypeOK CountsSinceAReset ReportIsTrue
VIEW QuietReports
