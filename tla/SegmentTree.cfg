\* Seven ids: enough for a new segment, growth at the end, a merge with the next
\* segment in the middle of two others, and every order of insertion.
CONSTANT Items = {1, 2, 3, 4, 5, 6, 7}
SPECIFICATION Spec
INVARIANTS Canonical CountExact
PROPERTY ImplementsIdSet
