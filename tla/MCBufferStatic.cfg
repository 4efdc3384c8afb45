SPECIFICATION Spec
CONSTANTS
  a = a
  b = b
  Texts <- MCTexts
  Mark = Mark
  Lost = Lost
  Zero = Zero
  Kinds <- MCStatic
  Created = 2
  Slack = 1
  Formats = {1, 2}
  MovesStatic = TRUE
  MaxLimit = 4
PROPERTY StaticFromStart
