SPECIFICATION FairSpec
CONSTANTS
  Host = {"h1", "h2", "h3"}
  Table = {"a", "b"}
  Schema = {"s1", "s2"}
  Namespace = {1, 2}
  PipelineName = {"ab", "ba"}
  Sql = {"q1", "q2"}
  Place = {"packed", "separated"}
  Packed = "packed"
  Config <- MCConfig
  Nobody = "nobody"
  MaxFault = 2
INVARIANTS
  CatalogSound

  
CHECK_DEADLOCK FALSE
