SPECIFICATION WorkspaceSpec
CONSTANTS
  Names <- MCNames
  Lines <- MCLines
  Decoded <- MCDecoded
  Pieces <- MCPieces
  Undecodable = {"pass # bad"}
  IgnoreDirs = {"venv"}
  Binary = {"b.png"}
  Python = {"m.py", "n:.py"}
  Other = {"w.js"}
  Colon = {"n:.py"}
  Symbols <- MCSymbols
  Unparsable = {"(("}
  TreeDepth = 3
  TreeEntries = 4
  ListEntries = 3
  BriefDepth = 2
  BriefLines = 3
  ReadLines = 2
  Clones <- MCClones
  Ignores <- MCIgnores
  Writes <- MCWrites
  Patches <- MCPatches
  MaxEdits = 2
CHECK_DEADLOCK FALSE
INVARIANTS
  ShownIsThere
  PatchIsLocal
