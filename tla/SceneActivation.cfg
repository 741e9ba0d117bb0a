\* Two tools that share a skills directory and one that does not, two scenes;
\* two faults or user edits, at any point of any command.
SPECIFICATION Spec
CONSTANTS
  Tools <- MCTools
  Scenes <- MCScenes
  Declares <- MCDeclares
  SkillsDir <- MCSkillsDir
  Mech <- MCMech
  FileOf <- MCFileOf
  Synced <- MCSynced
  Editable = {"config.toml"}
  MaxFaults = 2
INVARIANTS EffectsRecorded OneScene RemovalsRecorded
PROPERTY NoBlindRevert
