---------------------------- MODULE SeatAllocator ----------------------------
(***************************************************************************)
(* The seat allocator (seat-allocator/src/main.cc): for every seat of a    *)
(* route the segments that are taken, in memory only, and a first fit      *)
(* under one lock.  The worker asks for one route, which is all there is   *)
(* here; the record of a route that nobody asked for yet has free seats.   *)
(***************************************************************************)
EXTENDS Integers

CONSTANTS
  SeatCount,          \* kDefaultSeatCount
  SegmentCount        \* kSegmentCount

ASSUME AllocatorAssumption == SeatCount \in Nat /\ SegmentCount \in Nat

VARIABLE occupied     \* occupied_segments of each seat

AllSeats == 1..SeatCount

NothingTaken == [s \in AllSeats |-> {}]

\* Mutant: the bit of the last station is set as well.
BuildMaskClosed(trip) == trip.from..trip.to

\* The segments of [from, to), numbered from 0.
BuildMask(trip) == trip.from..(trip.to - 1)

IsTrip(trip) == trip.from < trip.to /\ trip.to <= SegmentCount

\* Mutant: a seat is passed over only if all of the trip is taken.
CompatibleOnPart(trip) == {s \in AllSeats : ~(BuildMask(trip) \subseteq occupied[s])}

Compatible(trip) == {s \in AllSeats : occupied[s] \cap BuildMask(trip) = {}}

\* seat is the first that fits.  Nothing tells which order it is for.
Allocate(trip, seat) ==
  /\ IsTrip(trip)
  /\ seat \in Compatible(trip)
  /\ \A s \in Compatible(trip) : seat <= s
  /\ occupied' = [occupied EXCEPT ![seat] = @ \cup BuildMask(trip)]

NoSeatAvailable(trip) ==
  /\ ~IsTrip(trip) \/ Compatible(trip) = {}
  /\ UNCHANGED occupied

=============================================================================
