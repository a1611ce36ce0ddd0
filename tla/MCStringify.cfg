SPECIFICATION Spec
CONSTANTS
  r1 = r1
  r2 = r2
  r3 = r3
  jQuerySource = jQuerySource
  BootstrapJsSource = BootstrapJsSource
  Unnamed = Unnamed
  Runners = {jQuerySource, BootstrapJsSource}
  Random = {r1, r2, r3}
  MaxRuns = 3
SYMMETRY Symmetry
INVARIANTS
  TypeOK
  PublishedWhole
  HeaderNotNewer
  SuccessPublishesBoth
  TempsAreOwn
PROPERTIES
  KeepsPromise
CHECK_DEADLOCK FALSE
