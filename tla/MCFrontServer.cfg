\* Topics, cookies, the /api hop, static files, the service worker and routes.
CONSTANTS
  c1 = c1
  c2 = c2
  t1 = t1
  t2 = t2
  None = None
  NoSocket = NoSocket
  Nothing = Nothing
  Channels <- MCChannels
  Publishers <- MCPublishers
  Sockets <- MCSockets
  Tabs <- MCTabs
  MaxPublished = 2
  MaxFaults = 1
  MaxWork = 4
  Forwarded <- MCForwarded
  Retries = 2
  MaxRestarts = 2
  MaxBuilds = 3
  MaxEdits = 1
  Files <- MCFiles
  Texts <- MCTexts
  Unsafe <- MCUnsafe
  MaxPages = 2
  MaxSets = 1
  MaxSegments = 2
SPECIFICATION FrontSpec
INVARIANTS PublishedInOrder CookiesReachBrowser PageMatchesJar FormsAreAccepted ReceivedOnce AnswerIsTrue CopiesAreTrue CacheIsItsBuild RoutesAgree
PROPERTIES RealtimeSettles EveryoneAnswered
CHECK_DEADLOCK FALSE
