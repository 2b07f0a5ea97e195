SPECIFICATION BackgroundSpec
CONSTANTS
  c1 = c1 c2 = c2 c3 = c3 Own = Own
  Contacts <- MCContacts
  Silent <- MCSilent
  Values <- MCValues
  RuleSpecs <- MCRuleSpecs
  Rules = {1}
  Retention = 1
  MaxEvents = 2
  MaxAsked = 1
  Endpoints = {e1, e2}
  Tabs = {t1}
  MaxLogins = 2
  MaxFlight = 1
  FailureBurst = 2
  MaxClients = 1
INVARIANT AlertsAlternate
INVARIANT RuleTellsLastSample
INVARIANT LoggedOutGone
PROPERTY MonitorsServed
PROPERTY GoneAreRemoved
