\* A file the user saved in a session whose bundle could not be installed.
CONSTANTS
  File = {"factory", "darker.glf", "machinetext.cfg", "clean.fnt", "song"}
  Pack <- MCPack
  Stripped <- MCStripped
  Skins <- MCSkins
  Editable = {"song"}
  Choices = {"Julia"}
SPECIFICATION Spec
PROPERTIES UserFilesPreserved
