SPECIFICATION Spec
CONSTANTS
  a = a
  b = b
  Texts <- MCTexts
  Mark = Mark
  Lost = Lost
  Zero = Zero
  Kinds <- MCKinds
  Created = 2
  Slack = 1
  Formats = {1, 2}
  MovesStatic = FALSE
  MaxLimit = 4
INVARIANT TypeOK
PROPERTIES FormattedWhole ImplementsText
