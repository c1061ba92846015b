SPECIFICATION SupplySpec

CONSTANTS
  bun = bun cheese = cheese burger = burger noCheese = noCheese meal1 = meal1
  meal2 = meal2 receipt1 = receipt1 receipt2 = receipt2 waste1 = waste1 ann = ann
  bob = bob client1 = client1 client2 = client2 key1 = key1 key2 = key2
  request1 = request1 request2 = request2 request3 = request3 plate = plate sale0 = sale0
  sale1 = sale1 sale2 = sale2 dish1 = dish1 dish2 = dish2 coupon = coupon
  cancel1 = cancel1 fire1 = fire1 create1 = create1 create2 = create2
  town1 = town1 town2 = town2 own1 = own1 kitchen1 = kitchen1 kitchen2 = kitchen2 clerk1 = clerk1 clerk2 = clerk2

  Ingredients = {cheese}
  Dishes = {burger}
  Options = {noCheese}
  Cookbook <- MCCookbook
  Edits <- MCEdits
  Retirable = {cheese}
  Meals = {meal1, meal2}
  Basket <- MCBasket
  Slips = {receipt1, receipt2, waste1}
  Slip <- MCSlip
  Staff = {ann, bob}
  Ceiling = 2

  Customers = {client1, client2}
  Keys = {key1, key2}
  Requests = {request1, request2, request3}
  SentBy <- MCSentBy
  KeyOf <- MCKeyOf
  Plates = {plate}
  PlatesTracked = {plate}
  PlatesOnHand <- MCPlatesOnHand
  Counts = {1}
  CartLimit = 1
  UsageLimit = 1
  PerUserLimit = 1

  Guests = {ann, bob}
  Host = ann
  LineIds = {dish1, dish2}
  MostOfALine = 2

  Sales = {sale0, sale1, sale2}
  DishRows <- MCDishRows
  MaterialRows <- MCMaterialRows
  CouponRow <- MCCouponRow
  Rank <- MCRank
  Tasks = {cancel1, fire1, create1, create2}
  Task <- MCTask

  Zones = {town1, town2, own1}
  Kitchens = {kitchen1, kitchen2}
  Clerks = {clerk1, clerk2}
  Perimeter <- MCPerimeter
  TheCity = TheCity
  NoZone = NoZone
  NoKitchen = NoKitchen
  CityOf <- MCCityOf
  Owner <- MCOwner
  Covering = {town2, own1}
  Precedence <- MCPrecedence
  Anchor <- MCAnchor
  Distance <- MCDistance
  Radius <- MCRadius
  FirstStatus <- MCFirstStatus

  DayHours = 3
  WeekDays = 2
  FirstHour = 6
  LastHour = 12
  Timetables <- MCTimetables
  Spans <- MCSpans

\* the slips, requests, baskets and transactions of a run come to an end
CHECK_DEADLOCK FALSE

INVARIANTS
  SupplyTypeOK
  PromisesAreBacked
  RefusalBelongsToTheOrder
  VerdictMatchesReservation
  SlipMovesOnce
  OneOrderPerKey
  StockAddsUp
  QuotaHolds
  OneOrderOfWhatWasSeen
  NoCycleOfIngredients
  SameRuleBothWays
  NoOrderAfterThePause
  ReopensWhenTold

PROPERTIES
  FourEyes
  InFlightKeysAreFreed
