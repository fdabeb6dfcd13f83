SPECIFICATION Spec
CONSTANTS
  Requests = {r1}
  Hosts = {h1, h2}
  Operators = {o1, o2}
  None = None
INVARIANTS
  OnlyAllowedPass
  DecisionsAreDurable
