\* Runs of up to three steps with scarce and ample limits, over two tools of which one
\* retrieves memory, by three requests; one change to the tools.
SPECIFICATION RunSpec
CONSTANTS
  MaxSteps = 3
  MaxCalls = 2
  MaxReplans = 2
  MaxPlan = 2
  Tool <- MCTool
  Builtin = {{"search_memory", "act"}}
  Permission = {}
  Profile <- MCProfile
  Skill = {1}
  SkillOf <- MCSkillOf
  HasSkills = TRUE
  SandboxAvailable = FALSE
  Asked <- MCAsked
  Limits <- MCLimits
  SearchMemory = "search_memory"
  MaxOutput = 2
  MaxObjectives = 2
  MaxChanges = 1
  Obedient = TRUE
INVARIANTS
  ToolBudget
  CallsAreAnswered
  
  RecordIsTrue
PROPERTY Terminates
CHECK_DEADLOCK FALSE
