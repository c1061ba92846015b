SPECIFICATION RelationsSpec

CONSTANTS
  order1 = order1 share1 = share1 share2 = share2 courier1 = courier1 course1 = course1
  course2 = course2 course3 = course3 withdrawal1 = withdrawal1 beat1 = beat1
  beat2 = beat2 treat1 = treat1 treat2 = treat2 gift1 = gift1 reward1 = reward1
  alice = alice pass1 = pass1 pass2 = pass2
  return1 = return1 news1 = news1 news2 = news2 round1 = round1 round2 = round2
  phone1 = phone1 phone2 = phone2 meal1 = meal1 meal2 = meal2 meal3 = meal3
  meal4 = meal4 ann = ann bob = bob join1 = join1 join2 = join2 join3 = join3
  agent1 = agent1 agent2 = agent2 ring1 = ring1 ring2 = ring2 press1 = press1
  press2 = press2 ask1 = ask1 ask2 = ask2 line1 = line1 line2 = line2
  screen1 = screen1 screen2 = screen2 small = small big = big form1 = form1
  form2 = form2 tap1 = tap1 tap2 = tap2 tap3 = tap3 tap4 = tap4 remark1 = remark1

  Orders = {order1}
  Total <- MCTotal
  Transactions = {1, 2, 3}
  OrderOf <- MCOrderOf
  Shares = {share1, share2}
  BillOf <- MCBillOf
  ShareAmount <- MCShareAmount
  Refunds = {1, 2}
  NoTransaction = NoTransaction
  NoRefund = NoRefund
  Returns = {return1}
  ReturnOf <- MCReturnOf

  Couriers = {courier1}
  Courses = {course1, course2, course3}
  CourierOf <- MCCourierOf
  Fee <- MCFee
  Withdrawals = {withdrawal1}
  AskedBy <- MCAskedBy
  Scores = {4, 5}

  MaxVersion = 2

  Beats = {beat1, beat2}
  Thresholds = {0, 1}
  LastDay = 2

  Campaigns = {news1, news2}
  Mailable = {news2}
  Rounds = {round1, round2}
  LastHour = 2
  MaxText = 1
  MaxRoundsLost = 1

  Phones = {phone1, phone2}
  MaxRetries = 2
  MaxDeaths = 1

  Meals = {meal1, meal2, meal3, meal4}
  WorthPoints = {meal1, meal2, meal3}
  ConditionValue = 3

  People = {ann, bob}
  JoinRequests = {join1, join2, join3}
  By <- MCBy
  MaxMembers = 3

  RewardedOrders = {treat1, treat2}
  Points <- MCPoints
  Gifts = {gift1}
  GiftPoints <- MCGiftPoints
  Rewards = {reward1}
  Cost <- MCCost

  Subs = {1, 2}
  Subscribers = {alice}
  Customer <- MCCustomer
  MaxCharges = 3
  Passes = {pass1, pass2}
  Period = 1
  Grace = 0
  LastTick = 2

  Workers = 2
  BacklogSize = 3
  MaxEvents = 5
  MaxCuts = 1
  MaxExpiries = 1
  MaxPublishersLost = 1

  Agents = {agent1, agent2}
  MaxMessages = 1

  PlacedCalls = {ring1, ring2}
  Presses = {press1, press2}

  Requests = {ask1, ask2}
  Cooldown = 1
  Ttl = 2
  MaxAttempts = 2
  MaxCodes = 2
  LastMinute = 2

  Lines = {line1, line2}
  Screens = {screen1, screen2}
  Sizes = {small, big}
  Retired = {big}
  NoSize = NoSize
  MaxQuantity = 2

  MaxTotal = 4
  MaxGuests = 3
  SentAmounts <- MCSentAmounts
  NoAmount = NoAmount

  Diners = {ann, bob}
  Reviewers = {form1, form2}

  Readers = {ann, bob}
  Taps = {tap1, tap2, tap3, tap4}
  TappedBy <- MCTappedBy
  Comments = {remark1}

\* orders, courses, days and events come to an end
CHECK_DEADLOCK FALSE

INVARIANTS
  RelationsTypeOK
  AccountsBalance
  CountsAreTrue
  ApprovedPapersWereJudged
  ToldOnce
  RewardsAddUp
  OneChargeAtATime
  NothingLostSilently
  SaidIsKept

PROPERTIES
  DailyTasksCatchUp
