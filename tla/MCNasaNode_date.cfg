\* qs is declared once before the loop; earthAssets sets qs.date only when
\* the item gives a date.
CONSTANTS
  NumItems = 2
  MaxListed = 2
SPECIFICATION Spec
INVARIANT QueryDateOwn
