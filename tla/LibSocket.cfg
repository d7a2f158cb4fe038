CONSTANTS
  NUFILE = 6
  MAXSOCK = 3
  Chans = {1, 2, 3}
SPECIFICATION Spec
INVARIANTS TypeOK TableMatchesKernel CallersView NothingLeaks
