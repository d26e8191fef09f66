\* ffs over 0, -1 and all one- and two-bit words, both shift modes.
SPECIFICATION Spec
INVARIANT FfsMatchesReference
