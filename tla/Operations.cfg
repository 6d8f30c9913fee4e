\* Two pipelines and one thing that goes wrong; two drains of two rows and three;
\* two runtimes, two releases and four posts, and one of each; three workers of a
\* coordinator; two walks of three models; a batch of three candidates.
CONSTANTS
  c1 = c1
  r1 = r1
  Runners = {r1, r2}
  Candidates = {c1, c2}
  None = None
  Class <- Mixed
  Brings <- Fewer
  LastTier <- Plans
  MaxResearchFaults = 1
  Runs = {run1, run2}
  Drains = {drain1, drain2}
  Limit = 2
  MaxNotionFaults = 3
  Runtimes = {t1, t2}
  Nobody = Nobody
  MaxHealthFaults = 1
  Workers <- Three
  exa = exa
  openai = openai
  k1 = k1
  Callers = {k1, k2}
  Providers = {exa, openai}
  NoProvider = NoProvider
  Offers <- Cascade
  HaltsOnQuota = {exa}
  SearchAttempts = 2
  ThrottleThreshold = 2
  CredentialThreshold = 1
  Uses <- Callings
  m1 = m1
  m2 = m2
  Walkers = {w1, w2}
  Preferred <- Preference
  Catalogue <- FreeRanking
  DefaultModel = m3
  NoModel = NoModel
  BatchSize = 3
  Slots = {slot1, slot2}
  NoReply = NoReply
  Posts = {post1, post2, post3, post4}
  Senders = {s1, s2}
  Unclaimed = Unclaimed
  Every = 2
  MaxMilestoneFaults = 1
  Publishers = {o, strong1, strong2, weak}
  Origin = o
  Strong = {strong1, strong2}
  RequiredPublishers = 2
  MaxSearches = 2
  MaxRequests = 3
  Feeds = {feed1}
  Known = {}
  Scans = {scan1, scan2}
  FetchAttempts = 2
  MaxFailures = 5
  image1 = image1
  env1 = env1
  Images = {image1, image2}
  Envs = {env1, env2}
  Absent = Absent
  Needs <- Schemas
  MaxDeployments = 2
  MaxDeployFaults = 1
SPECIFICATION OpsSpec
INVARIANTS OperationsTypeOK RuntimePromise SourcesPromise DraftPromise
  MilestonesPromise DeploymentPromise
PROPERTIES CurationPromise CompletedIsFinal ProvidersPromise OperationsEnd
CHECK_DEADLOCK FALSE
