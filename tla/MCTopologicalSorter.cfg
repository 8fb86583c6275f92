SPECIFICATION SorterSpec
CONSTANTS
  Objects = {a, b, c, d}
SYMMETRY Interchangeable
INVARIANT SortIsTopological
