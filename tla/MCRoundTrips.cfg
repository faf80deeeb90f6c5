SPECIFICATION Spec
CONSTANTS
  MaxBits = 11
  MaxExplicit = 64
  CustomMin = 16
  Slots = 64
  BatchSize = 16
  FseJobs <- MCFseJobs
  HuffmanJobs <- MCHuffmanJobs
  SequenceJobs <- MCSequenceJobs
  HeaderJobs <- MCHeaderJobs
  SearchJobs <- MCSearchJobs
INVARIANTS
  FseInverse
  HuffmanInverse
  SequencesInverse
  HeadersInverse
  SearchReproduces
\* A job ends.
CHECK_DEADLOCK FALSE
