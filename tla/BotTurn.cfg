\* Two turns and one event in any order, two plugins, two tools that come and go.
SPECIFICATION BotFairSpec
CONSTANTS
  Tool = {"look", "shell"}
  Builtin <- MCBuiltin
  Call <- MCCall
  Permission = {"process"}
  Profile <- MCProfile
  Skill = {1, 2}
  SkillOf <- MCSkillOf
  HasSkills = TRUE
  SandboxAvailable = TRUE
  Request <- MCRequest
  MaxTurns = 2
  MaxCalls = 2
  Plugin = {1, 2}
  Subscribed <- MCSubscribed
  Command <- MCCommand
  Event <- MCEvent
  Admins = {"root"}
  BotRequest <- Plain
  PluginRequest <- OfPlugin
  MayChat = {2}
  MaxEvents = 1
  MaxChanges = 1
INVARIANTS
  RunsArePermitted
  HistoryIsATranscript
  
  AdminsOnly
  HandlersHearOnce
CHECK_DEADLOCK FALSE
PROPERTIES
  Settles
