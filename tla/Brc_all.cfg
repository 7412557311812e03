\* one user, two telnet sessions and one of the web, all windows excepted
SPECIFICATION Spec
CONSTANTS
  t = t
  u = u
  w = w
  Telnet = {t, u}
  Web = {w}
  Boards = {1, 2, 3}
  MaxNum = 3
  CacheNum = 2
  Mortal = {t, w}
  Full = TRUE
  OldPosts <- SomePosts
  OldNowid <- SomeNowid
  MaxId <- OnePost
  Mixes <- SomeMixes
  Windows = {"insert", "evict", "flag", "update", "disk", "zero", "unlink", "purged", "numbered", "stale"}
INVARIANTS NothingForgotten NothingFalselyRead MarksSorted
\* all sessions may be over
CHECK_DEADLOCK FALSE
