SPECIFICATION Spec
INVARIANT NoReleaseOfUnheld
