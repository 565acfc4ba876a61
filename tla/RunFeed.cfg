SPECIFICATION FairSpec
CONSTANTS
  Words = {"a", "b"}
  Colon <- ColonOf
  Ints = {"1", "2"}
  Floats = {"1", "NaN"}
  NaN = "NaN"
  RunIds = {1, 2, 3}
  Keep = 2
  KeepAll = KeepAll
  Vigies = {"v1", "v2"}
  Scheduled = {"v1"}
  Callers = {"c1"}
  Subscribers = {"one"}
  Filter <- OneTailsAll
  Capacity = 1
  Does <- OneEach
  Started <- Times
  Faults = {"insert"}
INVARIANTS TypeOK WholeOrNothing HeardIsKept AnswersKept RecentAcrossSeconds ValuesSettle
PROPERTIES AuditKept FeedIsQueue EventuallyTold
