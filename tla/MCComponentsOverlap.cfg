SPECIFICATION MCSpec
CONSTANTS
  ann = ann bob = bob house = house r1 = r1 r2 = r2 r3 = r3 small = small big = big
  s1 = s1 s2 = s2 t1 = t1 t2 = t2 j1 = j1 j2 = j2
  Parts = {"postgres ledger"}
  Agents = {ann, bob} House = house Refs = {r1, r2, r3}
  Asked <- MCAsked Calls <- MCTwoCalls Asks <- MCTwoAsks
  Events = {move, deal} MaxSize = 2 MaxEvents = 4
  Requests <- MCRequests NoBucket = NoBucket MaxTokens = 2 RefillRate = 1 MaxTicks = 3
  Types = {action, end} Payloads = {p} MaxSeq = 1 MaxLog = 2
  Watched = {ann, bob} Crowd <- MCCrowd CrowdSizes = {7, 9}
  MinRecords = 2 MinStrong = 1 MinHands = 2
  Decks <- MCDecks
  Players = {ann, bob} Registered = {ann} Groups = {small, big} SeatsOf <- MCSeatsOf
  BotFillEnabled = TRUE MaxTables = 2 MaxHandlers = 2
  Sockets = {s1, s2} Owner <- MCOwner Tables = {t1, t2} AsksFor <- MCAsksFor
  Made = {} Stored <- MCStored MaxConnections = 2 MaxTablesPerAgent = 1
  MaxIncarnations = 2 MaxWaiting = 2
  Visitors = {ann} Joins = {j1, j2} JoinerOf <- MCJoinerOf KeepsAgents = FALSE
  TokenLife = 2 MaxTime = 5
  SessionSeats = {0, 1, 2} StartingChips = 1 NumHands = 4 ReplayedHands = 3
INVARIANTS BalancesAreTheBook
CHECK_DEADLOCK FALSE
