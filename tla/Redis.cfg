CONSTANTS
  f1 = f1
  f2 = f2
  Runs = {r1, r2}
  Prints = {f1, f2}
  Requests <- MCRequests
  Lease = 1
  Ttl = 1
  MaxWait = 1
  MaxPipe = 1
  LosesConnection = TRUE
  NoRun = NoRun
  Calls = {c1, c2, c3}
  Patience = 1
  NoCaller = NoCaller
  MaxAttempts = 3
  j1 = j1
  j2 = j2
  j3 = j3
  ga = ga
  gb = gb
  Default = Default
  Members = {j1, j2, j3}
  Groups = {ga, gb}
  Belongs <- MCBelongs
  Definitions <- MCDefinitions
  MaxClaim = 2
  s1 = s1
  Schedules = {s1}
  Specs <- MCSpecs
  Firers = {w1, w2}
  Admins = {a1}
  Lists <- MCLists
  Skews <- MCSkews
  MaxTime = 2
  Defer = 1
  MaxFired = 2
  NoSpec = NoSpec
  i1 = i1
  i2 = i2
  i3 = i3
  n1 = n1
  ka = ka
  kb = kb
  Streams = {i1, i2, i3}
  Messages = {n1}
  KeyOf <- MCKeyOf
  MaxSubscribes = 2
  NoAttempt = NoAttempt
  Limit = 3
  Per = 2
  Burst = 2
  Thousand = 2
  Skew = 3
  Checks = {c1, c2}
  MaxElapsed = 5
  w1 = w1
  w2 = w2
  w3 = w3
  q1 = q1
  q2 = q2
  Waits = {w1, w2, w3}
  Workers = {w3}
  Channels = {q1, q2}
  ChannelOf <- MCChannelOf
  Ending = {q1}
  MaxSubscribers = 2
  MaxDrops = 1
  NoRead = NoRead
  u1 = u1
  u2 = u2
  a1 = a1
  a2 = a2
  Uris = {u1, u2}
  Apps = {a1, a2}
  Instances <- MCInstances
  MaxClients = 3
SPECIFICATION RedisSpec
CHECK_DEADLOCK FALSE
INVARIANTS WorksAlone ResultsHold DoneNeverBeside OneStepValue GroupsSound OncePerOccurrence HearsOnce NeverOver AnswersHold TellsOutcome OpenWhileHeld
PROPERTIES DueIsFired
