CONSTANTS
  Orders = {3, 4}
  Keys = {1, 2, 3, 4, 5, 6, 7, 8, 9, 10}
  RowIds = {1, 2}
  MaxSecond = 1
  MaxKey <- MCMaxKey
SPECIFICATION BoundedSpec
INVARIANTS TypeOK SearchFinds RangesExact Balanced
