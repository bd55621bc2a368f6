\* Two runs of --write-summary-docs and one run of the checker over one edit;
\* every tree of the instance of a bundle with every list of up to two lines.
CONSTANTS
  Writers = {w1, w2}
  Readers = {r1}
  Lists = {l1, l2}
  Inodes = {f0, f1, f2}
  Committed = f0
  MaxEdits = 1
  Paths <- MCPaths
  FileContents <- MCContents
  Trees <- MCTrees
  SumsFiles <- MCSumsFiles
SPECIFICATION MCSpec
SYMMETRY ListSymmetry
CHECK_DEADLOCK FALSE
INVARIANTS ManifestIsWhole NoStrayTemp SuccessIsInstalled PassIsOfOneManifest PassPinsEvidence ReadsInside WellMadePasses
PROPERTIES ReplacedOnlyBySuccess ImplementsManifestRegister
