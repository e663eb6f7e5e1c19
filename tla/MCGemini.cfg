SPECIFICATION GSpec
CONSTANTS
  Site <- MCSite
  Fragments <- MCFragments
  Endless <- MCEndless
  DefaultPort = 1965
  Hosts = {"h"}
  Literals = {}
  SpinLimit = 1
  MaxRedirects = 2
  Typed <- MCTyped
  Viewport = 3
  Digits = {1, 2}
  MaxHistory = 3
  Queries <- MCQueries
  HtmlNames <- MCHtmlNames
  HtmlFiles <- MCHtmlFiles
  View = 2
  ButtonRow = 2
  MaxRows = 4
INVARIANTS
  ConsolePage LinksStayBelowRoot WindowPage HitsMatchPage HtmlTextKept
PROPERTIES
  PageHasEntry NavigationEnds
