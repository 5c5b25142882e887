\* Every sequence of loads, installs, reloads, enables and disables of two plugins
\* from two directories.
SPECIFICATION InstallSpec
CONSTANTS
  p1 = p1
  p2 = p2
  t1 = t1
  t2 = t2
  c1 = c1
  c2 = c2
  c3 = c3
  Plugin = {p1, p2}
  Tool = {t1, t2}
  Command = {c1, c2, c3}
  Namespace <- Namespaces
  Module <- Modules
  ConfigDisabled = {}
  Path = {"a", "b"}
  Project <- Projects
  AutoInstall = TRUE
  None = None
INVARIANTS
  RegistriesAgree
  InstalledAsRecorded
PROPERTIES
  LostToAConflict
  UpgradesOnly
