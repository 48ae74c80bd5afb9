CONSTANTS
  Namespaces = {pds}
  MaxAdded = 3
  MaxLinks = 2
SPECIFICATION Spec
INVARIANTS TypeOK KeptIdsExact LinksCoherent
