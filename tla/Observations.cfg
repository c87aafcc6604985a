SPECIFICATION MCFairSpec
CONSTANTS
  Feeds = {"kp", "kp_3h", "solar_wind", "xray", "imf", "dst", "iss", "alerts", "apod", "epic", "neo", "exoplanet", "starlink"}
  Missing = Missing
  Offered = 1
  MaxAge = 1
  ReportWindow = 2
  Keep = 2
  ChartRows = 2
  NeoWindow = 2
  MaxNow = 3
  MaxPublished = 3
  r1 = r1
  r2 = r2
  Requests = {r1, r2}
  Poller = Poller
  Nothing = Nothing
  Horizons = {3, 6}
  Lengths = {1, 2}
  ForecastAge = 0
  Ttl = 2
  RequestWait = 1
  PollerWait = 1
  QueueCap = 1
  ForecastMaxNow = 3
  MaxUpsets = 1
INVARIANTS
  ActedOnIsShown
  ReportsMatchTheExport
  InputsWereFit
  ServedAge
PROPERTIES
  ActiveNeverDemoted
  
  ForecastResumes
