SPECIFICATION ChatSpec
CHECK_DEADLOCK FALSE
CONSTANTS
  People = {"alice", "bob"}
  Does <- Both
  PageSize = 3
  Overlap = 3
  Longest = 1
  Retention = 9
  MaxPosts = 3
  MaxChat = 2
INVARIANT ReadMeansServed
