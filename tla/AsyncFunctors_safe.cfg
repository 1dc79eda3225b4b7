SPECIFICATION FunctorsFairSpec
CONSTANTS
  Context = {c1, c2}
  MayQuit = TRUE
  MaxPosts = 3
INVARIANT NoUseAfterDestroy
PROPERTIES SyncWhileWaiting DestructorReturns
CHECK_DEADLOCK FALSE
