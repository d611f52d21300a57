SPECIFICATION Spec
CONSTANTS
  c1 = c1
  c2 = c2
  Clients = {c1, c2}
  Names = {"n0", "n1", "n2"}
  Foreign = {"n0"}
  Leads <- MCLeads
  MaxLinks = 2
  Attempts = 3
  Configs <- MCConfigs
  Patches <- MCPatches
  Mounts <- MCMounts
  SystemDirs <- MCSystemDirs
  Hierarchies <- MCHierarchies
  Host <- MCHost
  MaxCalls = 3
  MaxBuild = 3
  Locals <- MCLocals
  Remotes <- MCRemotes
  Owners = {"user"}
  Modes = {"4755"}
  Roles <- MCRoles
  Inputs <- MCInputs
  Outputs <- MCOutputs
INVARIANTS
  TypeOK
  OneOwnerEach
  FilesAsAsked
  TaskAsBuilt
  CliDelivers
PROPERTIES
  KeptInRoot
CHECK_DEADLOCK FALSE
