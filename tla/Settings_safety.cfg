SPECIFICATION Spec
CONSTANTS
  Unset = Unset
  Bad = Bad
  NaN = NaN
  Texts = {"hello", "bye"}
  CommandLines <- MCCommandLines
  ConfFiles <- MCConfFiles
  FileSystems <- MCFileSystems
  CertPath <- MCCertPath
INVARIANTS
  ValidSettings
  CommandLineWins
