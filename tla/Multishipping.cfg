\* Templates, methods and libraries in any order; the library may fail.
SPECIFICATION FairSpec
CONSTANTS
  card = card
  klarna = klarna
  ideal = ideal
  None = None
  Renderers = {card, klarna, ideal}
  CardRenderers = {card}
  Pages <- AllPages
  Faults = {"library"}
INVARIANTS
  
  DataCurrent
PROPERTIES
  LoaderReleased
\* The page is left, or stays covered when the library failed.
CHECK_DEADLOCK FALSE
