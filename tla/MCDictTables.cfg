SPECIFICATION Spec
CONSTANTS
  MaxBits = 11
  MaxExplicit = 64
  CustomMin = 64
  Slots = 64
  BatchSize = 16
  FseJobs = {}
  HuffmanJobs = {}
  SequenceJobs <- MCSequenceJobs
  HeaderJobs = {}
  SearchJobs = {}
INVARIANT DictionarySectionDecodes
\* A job ends.
CHECK_DEADLOCK FALSE
