\* Queries while two documents are ingested, with either client and every reranker.
SPECIFICATION FairSpec
CONSTANTS
  i1 = i1
  i2 = i2
  c1 = c1
  c2 = c2
  c3 = c3
  Queries = {q1}
  Ingests = {i1, i2}
  ChunksOf <- TwoDocuments
  Clients = {"sync", "async"}
  Backends = {"local", "cohere", "no key"}
  RrfK = 60
  RecallK = 2
  TopK = 1
  Nobody = Nobody
  CallsMayFail = TRUE
INVARIANTS TypeOK IngestedIsSearchable
PROPERTIES FusionKeepsOrder WorkEnds
CHECK_DEADLOCK FALSE
