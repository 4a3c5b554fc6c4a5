CONSTANTS
  ListHead = {h1, h2}
  Entry = {e1, e2, e3}
  Null = Null
  MisuseHead = FALSE
SPECIFICATION Spec
INVARIANTS Ring HeadsApart VisitsAll
PROPERTY ImplementsDeque
