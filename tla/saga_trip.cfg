CONSTANTS
  trip = trip hotelBranch = hotelBranch carBranch = carBranch tourBranch = tourBranch
  hertzAlt = hertzAlt avisAlt = avisAlt visaAlt = visaAlt
  flight = flight both = both hotel = hotel confirm = confirm car = car hertz = hertz gps = gps avis = avis
  tour = tour guide = guide pay = pay visa = visa train = train bus = bus
  Slips = {trip, hotelBranch, carBranch, tourBranch, hertzAlt, avisAlt, visaAlt}
  Root = trip
  Items = {flight, both, hotel, confirm, car, hertz, gps, avis, tour, guide, pay, visa, train, bus}
  NoItem = NoItem
  Owner <- MCOwner
  Work <- Trip
  Kind <- MCKind
  Subs <- MCSubs
  Extra <- TrainInstead
  Fragile = {flight, train}
  Cancellable = {bus, visa}
  Depth = 3
SPECIFICATION FairSpec
INVARIANTS EffectsAreLogged LoggedIsApplied OneAlternative CompensatedMeansUndone JoinedWorkIsDone AddedWorkIsDone
PROPERTIES ReverseOrder Terminates
CHECK_DEADLOCK FALSE
