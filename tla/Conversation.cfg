\* Two pollers, three updates, two faults; two deliveries and two presses of a
\* draft; two settings panels and a row that changes twice; two handlers of /labs;
\* thirty-four hours, at the twenty-fifth of which Madrid changes its clocks.
CONSTANTS
  None = None
  Dead = Dead
  Pollers = {p1, p2}
  LastUpdate = 3
  Kind <- MixedUpdates
  MaxAttempts = 2
  MaxLedgerAttempts = 2
  MaxFaults = 2
  Deliverers = {d1, d2}
  Handlers = {h1, h2}
  MaxPreviews = 2
  MaxMishaps = 1
  Presets = {preset1, preset2}
  Customs = {custom1, custom2}
  TopicLimit = 3
  CustomLimit = 2
  Panels = {panel1, panel2}
  MaxVersion = 3
  MaxPrompts = 1
  article_tags = article_tags
  Features = {article_tags, editorial_enrichment}
  FirstFeature = article_tags
  LabHandlers = {lab1, lab2}
  MaxFlagVersion <- Changes
  LastHour = 34
  ShiftHour = 25
  Intervals = {6, 24}
  Never = Never
SPECIFICATION ConversationSpec
INVARIANT ConversationTypeOK
PROPERTIES UpdatesPromise ReviewPromise PanelsPromise
CHECK_DEADLOCK FALSE
