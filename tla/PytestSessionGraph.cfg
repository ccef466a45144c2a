CONSTANTS
  f1 = f1
  f2 = f2
  f3 = f3
  own = own
  base = base
  strict = strict
  NoFile = NoFile
  Files = {f1, f2}
  Names = {own, base, strict}
  Pack <- MCPack
  Scripts <- MCScripts
SPECIFICATION Spec
INVARIANT OwnProject
CHECK_DEADLOCK FALSE
