------------------------------- MODULE MCSaga -------------------------------
EXTENDS Saga, TLC

CONSTANTS trip, hotelBranch, carBranch, tourBranch, hertzAlt, avisAlt, visaAlt,
          flight, both, hotel, confirm, car, hertz, gps, avis, tour, guide, pay, visa, train, bus

\* The nested saga of docs/modules/saga, between a flight and a payment: a hotel
\* and its confirmation beside a car with two providers, one of them
\* with a second booking, and a guided tour.
Trip ==
  [s \in Slips |-> CASE s = trip        -> <<flight, both, pay>>
                     [] s = hotelBranch -> <<hotel, confirm>>
                     [] s = carBranch   -> <<car>>
                     [] s = tourBranch  -> <<tour, guide>>
                     [] s = hertzAlt    -> <<hertz, gps>>
                     [] s = avisAlt     -> <<avis>>
                     [] s = visaAlt     -> <<visa>>]

MCKind ==
  [i \in Items |-> CASE i = both -> "parallel" [] i \in {car, pay} -> "fallback" [] OTHER -> "leaf"]
MCSubs ==
  [i \in Items |-> CASE i = both -> <<hotelBranch, carBranch, tourBranch>>
                     [] i = car  -> <<hertzAlt, avisAlt>>
                     [] i = pay  -> <<visaAlt>>
                     [] OTHER    -> <<>>]

MCOwner ==
  [i \in Items |-> CASE i \in {hotel, confirm} -> hotelBranch
                      [] i = car   -> carBranch
                      [] i \in {tour, guide} -> tourBranch
                      [] i \in {hertz, gps} -> hertzAlt
                      [] i = avis  -> avisAlt
                      [] i = visa  -> visaAlt
                      [] OTHER     -> trip]

NoExtra == [i \in Items |-> <<>>]

\* Who cancels the flight takes a train and a bus instead.
TrainInstead == [i \in Items |-> IF i = flight THEN <<train, bus>> ELSE <<>>]
=============================================================================
