\* Three routers, up to four decorators and inclusions; every list of up to four of nine
\* words for eight signatures of commands.
SPECIFICATION RoutesSpec
CONSTANTS
  Router = {"root", "admin", "part"}
  Root = "root"
  Config <- MCConfig
  Bundle <- MCBundle
  Granted = {"llm", "provider_read", "task", "assets", "storage"}
  Service = {"assets", "tasks", "messages"}
  Value <- MCValue
  KnownTypes <- MCKnownTypes
  Word <- MCWord
  Reads <- MCReads
  MaxWords = 4
  NoInline = NoInline
  Nil = Nil
INVARIANTS
  BoundAsMeant
  MountedAsDeclared
  HandlersAreCallable
CHECK_DEADLOCK FALSE
