\* One start and its Stop, for every manifest of up to three entries.
\* A start that failed is over.
CONSTANTS
  core = core  agents = agents  crm = crm  blank = blank
  Modules = {core, agents, crm}
  Base = core
  Blank = blank
  Image = {core, agents}
  Configs <- EveryConfig
SPECIFICATION FairSpec
INVARIANTS TypeOK LeftoversExplained NeedsMet ModulesLoad
PROPERTIES StopEnds
CHECK_DEADLOCK FALSE
