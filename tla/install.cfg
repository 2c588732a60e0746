\* Launches fail and lose power at any step; the user saves, deletes, chooses.
CONSTANTS
  File = {"factory", "darker.glf", "machinetext.cfg", "clean.fnt", "song"}
  Pack <- MCPack
  Stripped <- MCStripped
  Skins <- MCSkins
  Editable = {"song"}
  Choices = {"Julia"}
SPECIFICATION Spec
INVARIANTS MarkerMeansComplete CleanLaunchInstalls SettledSkinPersists
PROPERTIES OverridesGone
