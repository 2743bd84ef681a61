\* The catch and the return decide by the variable download, which the
\* picture sets only after its first request succeeded.
CONSTANTS
  NumItems = 2
  MaxListed = 2
SPECIFICATION Spec
INVARIANT FailedItemsReported
