CONSTANTS
  Algorithms = {RS256, ES256}
  Kids <- ThreeKids
  Issuers = {"A"}
  MaxRestarts = 1
SYMMETRY AlgorithmSymmetry
SPECIFICATION CliSpec
INVARIANTS ValidMeansPublished PublishedIsFound
