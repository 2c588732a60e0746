\* A skin chosen in a session whose welcome could not be installed.
CONSTANTS
  File = {"factory", "darker.glf", "machinetext.cfg", "clean.fnt", "song"}
  Pack <- MCPack
  Stripped <- MCStripped
  Skins <- MCSkins
  Editable = {"song"}
  Choices = {"Julia"}
SPECIFICATION Spec
INVARIANTS SkinChoicePersists
