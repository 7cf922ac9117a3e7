-------------------------- MODULE ReservationPlan --------------------------
(***************************************************************************)
(* ReservationService.plan(): the time a customer asks for is moved to the *)
(* next opening of the shop, checked, and given a seat in the slot it lies *)
(* in.  Times are local times of the shop, in equal parts of an hour; day  *)
(* 0 is a Monday.  The seats of OrderLifecycle are those of one slot here. *)
(***************************************************************************)
EXTENDS Integers, FiniteSets, FiniteSetsExt

CONSTANTS
  Hour, Day,            \* parts of an hour and of a day
  SlotLength, SlotSeats, LeadTime,   \* of the settings
  Hours,                \* values of open_hours_json, NoHours where it is empty
  AskedTimes, MaxLocalTime, MaxPlans,   \* bounds
  NoHours, NoTime, NoPlan

ASSUME PlanAssumption ==
  /\ Hour \in Nat \ {0} /\ Day \in Nat \ {0} /\ Day % Hour = 0
  /\ SlotLength \in Nat \ {0} /\ SlotSeats \in Nat \ {0} /\ LeadTime \in Nat \ {0}
  /\ \A hours \in Hours \ {NoHours} : \A r \in hours :
       r.weekday \in 1..7 /\ r.start \in 0..Day-1 /\ r.end \in 0..Day-1
  /\ AskedTimes \subseteq Nat /\ NoTime \notin Nat
  /\ MaxLocalTime \in Nat /\ MaxPlans \in Nat

VARIABLES
  openHours,   \* the ranges of open_hours_json that can be parsed, with their weekday
  localNow,
  slots,       \* reservation_slots: by start, the end and the seats taken
  plan,        \* the last request and its answer
  plans        \* how many there have been

planVars == <<openHours, localNow, slots, plan, plans>>

PlanTypeOK ==
  /\ openHours \in Hours /\ localNow \in 0..MaxLocalTime /\ plans \in 0..MaxPlans
  /\ \A s \in DOMAIN slots : slots[s].end > s /\ slots[s].taken \in 0..SlotSeats
  /\ plan # NoPlan => plan.time = NoTime \/ plan.time \in Nat

-----------------------------------------------------------------------------
(* Opening hours                                                           *)

DateOf(t) == t \div Day

\* isoweekday()
Weekday(date) == (date % 7) + 1

OwnRangesOf(weekday) == {r \in openHours : r.weekday = weekday}

\* _iter_ranges_for_weekday(): a day without ranges of its own has those of all others.
RangesOf(weekday) ==
  IF OwnRangesOf(weekday) # {} THEN OwnRangesOf(weekday) ELSE openHours

RangesOfDate(date) == RangesOf(Weekday(date))

\* _within_open_hours(): both ends are included.
WithinOpenHours(t) ==
  \E r \in RangesOfDate(DateOf(t)) : r.start <= t % Day /\ t % Day <= r.end

\* The rest of today, then the first range of tomorrow.
AlignToOpenHours(t) ==
  LET today == {r \in RangesOfDate(DateOf(t)) : t % Day <= r.end}
      tomorrow == RangesOfDate(DateOf(t) + 1)
      opening == Min({r.start : r \in today})
  IN CASE WithinOpenHours(t) -> t
       [] ~ WithinOpenHours(t) /\ today # {} ->
            IF t % Day < opening THEN DateOf(t) * Day + opening ELSE t
       [] ~ WithinOpenHours(t) /\ today = {} /\ tomorrow # {} ->
            (DateOf(t) + 1) * Day + Min({r.start : r \in tomorrow})
       [] OTHER -> NoTime

\* Without opening hours any time will do.
Aligned(t) == IF openHours = NoHours THEN t ELSE AlignToOpenHours(t)

\* _floor_to_slot() rounds the minutes of the hour.
SlotStart(t) == t - ((t % Hour) % SlotLength)

-----------------------------------------------------------------------------
(* Requests and time                                                       *)

PlanInit ==
  /\ openHours \in Hours /\ localNow = 0
  /\ slots = << >> /\ plan = NoPlan /\ plans = 0

SlotFull(s) == s \in DOMAIN slots /\ slots[s].taken >= SlotSeats

\* _reserve_slot(): the row of the slot is inserted, or its end written again.
ReserveSeat(s) ==
  LET taken == IF s \in DOMAIN slots THEN slots[s].taken ELSE 0
  IN slots' = [q \in DOMAIN slots \cup {s} |->
                 IF q = s THEN [end |-> s + SlotLength, taken |-> taken + 1] ELSE slots[q]]

\* A time that is in the past, nearer than the lead or a day away is refused.
Plannable(t) == t # NoTime /\ localNow + LeadTime <= t /\ t <= localNow + Day

PlanAnswered(asked, time, full) ==
  plan' = [asked |-> asked, at |-> localNow, time |-> time, full |-> full]

AcceptPlan(asked) ==
  LET t == Aligned(asked)
  IN /\ plans < MaxPlans
     /\ Plannable(t) /\ ~ SlotFull(SlotStart(t))
     /\ ReserveSeat(SlotStart(t))
     /\ PlanAnswered(asked, t, FALSE)
     /\ plans' = plans + 1
     /\ UNCHANGED <<openHours, localNow>>

RefusePlan(asked) ==
  LET t == Aligned(asked)
  IN /\ plans < MaxPlans
     /\ Plannable(t) => SlotFull(SlotStart(t))
     /\ PlanAnswered(asked, NoTime, Plannable(t))
     /\ plans' = plans + 1
     /\ UNCHANGED <<openHours, localNow, slots>>

\* release_slot(), for an order that is cancelled.
ReleaseSeat(s) ==
  /\ s \in DOMAIN slots /\ slots[s].taken > 0
  /\ slots' = [slots EXCEPT ![s].taken = @ - 1]
  /\ UNCHANGED <<openHours, localNow, plan, plans>>

LocalTick ==
  /\ localNow < MaxLocalTime
  /\ localNow' = localNow + 1
  /\ UNCHANGED <<openHours, slots, plan, plans>>

PlanNext ==
  \/ \E asked \in AskedTimes : AcceptPlan(asked) \/ RefusePlan(asked)
  \/ \E s \in DOMAIN slots : ReleaseSeat(s)
  \/ LocalTick

PlanSpec == PlanInit /\ [][PlanNext]_planVars

-----------------------------------------------------------------------------
(* Properties                                                              *)

OpenOn(date, r) ==
  \/ r.weekday = Weekday(date)
  \/ \A q \in openHours : q.weekday # Weekday(date)

\* The times of today and tomorrow, not before t, at which the shop is open.
Openings(t) ==
  IF openHours = NoHours THEN {t}
  ELSE {u \in t..(DateOf(t) + 2) * Day - 1 :
          \E r \in openHours : OpenOn(DateOf(u), r) /\ u % Day \in r.start..r.end}

\* Where no range ends before it begins.
RegularHours == openHours # NoHours => \A r \in openHours : r.start <= r.end

\* A day without ranges has those of all others, where the comment at reservations.py:285 says
\* those of the first entry, a weekday with its ranges.  The two say the same of the hours of
\* today and tomorrow if both days have ranges of their own, or no more than one weekday has any.
OneReading(t) ==
  openHours # NoHours =>
    \/ \A date \in {DateOf(t), DateOf(t) + 1} : OwnRangesOf(Weekday(date)) # {}
    \/ Cardinality({r.weekday : r \in openHours}) <= 1

\* Whoever asks when, the answer is the next opening of the same or the following day, and it is
\* refused only when there is none, when that is too near or too far or when its slot is full;
\* for hours that code and comment read alike (doc/api.md:1120 has the time refused instead).
\* Slots of an hour that they divide evenly never overlap, so that orders of one time always
\* compete for the same seats.
PlansFit ==
  /\ plan # NoPlan /\ RegularHours /\ OneReading(plan.asked) =>
       LET next == Openings(plan.asked)
           fits == next # {} /\ Min(next) \in (plan.at + LeadTime)..(plan.at + Day)
       IN plan.time = IF fits /\ ~ plan.full THEN Min(next) ELSE NoTime
  /\ Hour % SlotLength = 0 =>
       \A s, q \in DOMAIN slots : s <= q /\ q < slots[s].end => s = q
=============================================================================
