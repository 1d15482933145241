\* A TikTok account beside a YouTube account, whose upload may hang for ever: a
\* request is answered at once, after 15 seconds, or hangs until its timeout.
CONSTANTS
  S3 = {}
  Webhook = {}
  YouTube = {y}
  TikTok = {t}
  NoAdapter = {n}
  Latencies = {0, 15}
  MaxTime = 70
SPECIFICATION FairSpec
INVARIANTS
  ReturnsInTime
  AttemptsFit
PROPERTIES
  ImplementsDelivery
  Reports
CHECK_DEADLOCK FALSE
