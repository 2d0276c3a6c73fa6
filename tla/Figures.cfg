SPECIFICATION Figures
CONSTANTS
  MinContributors = 2
  MinPoints = 3
  Withheld = Withheld
  Unknown = Unknown
INVARIANTS AppraisalFigures ValuationsAgree PortfolioReports
