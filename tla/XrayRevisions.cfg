SPECIFICATION Spec
CONSTANTS
  Feeds = {"xray"}
  Missing = Missing
  Offered = 1
  MaxAge = 1
  ReportWindow = 2
  Keep = 2
  ChartRows = 2
  NeoWindow = 2
  MaxNow = 3
  MaxPublished = 3
PROPERTIES
  RevisionsAreStored
