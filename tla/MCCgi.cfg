SPECIFICATION Spec
INVARIANT CgiFiltered
