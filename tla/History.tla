------------------------------ MODULE History -------------------------------
(***************************************************************************)
(* The past of one device: trips detected in its positions (trips.ts,      *)
(* rollup.ts), their daily totals (daily-rollup.ts) and the retention of   *)
(* positions (retention.ts).  The roll-up replaces the trips of a window   *)
(* that ends now; positions arrive late, and a run may still be going when *)
(* the scheduler starts the next.  Time is counted in slots; a position is *)
(* moving or stopped.                                                      *)
(***************************************************************************)
EXTENDS Naturals, Sequences, FiniteSets, SequencesExt, FiniteSetsExt

CONSTANTS
  Rollup,             \* runs of the roll-up that may overlap
  Window,             \* slots a run looks back (SINCE_HOURS)
  Day,                \* slots of a day
  historyDays,        \* days of positions the tenant's plan keeps
  maxGap, stopMin,    \* the trip configuration, in slots
  Horizon,            \* bound: the last slot
  MaxHistoryFaults    \* bound: runs that fail

ASSUME HistoryAssumption ==
  /\ Window \in Nat \ {0} /\ Day \in Nat \ {0} /\ historyDays \in Nat \ {0}
  /\ maxGap \in Nat \ {0} /\ stopMin \in Nat \ {0} /\ Horizon \in Nat /\ MaxHistoryFaults \in Nat

Slot == 0 .. Horizon
DayOf(t) == t \div Day
Dates == {DayOf(t) : t \in Slot}

VARIABLES
  clock,
  position,   \* what the device did at each fix time that is stored
  trips,
  daily,      \* daily_rollups: count and points of the trips that began that day
  rollup,     \* each run: its next step, its window, the trips it found and those it deletes
  severed,    \* trips that had begun before the window of a run that saw their end (history)
  raced,      \* trips inserted while another run was replacing its own (history)
  unbuilt,    \* days whose trips changed in a run that failed (history)
  historyFaults

historyVars == <<clock, position, trips, daily, rollup, severed, raced, unbuilt, historyFaults>>

NoTotal == [trips |-> 0, points |-> 0]
AtRest == [at |-> "idle", since |-> 0, found |-> {}, doomed |-> {}, after |-> {}]

HistoryTypeOK ==
  /\ clock \in Slot /\ position \in [Slot -> {"none", "moving", "stopped"}]
  /\ \A x \in trips : x.from < x.to /\ x.to \in Slot /\ x.points \in 2 .. x.to - x.from + 1
  /\ \A x, y \in trips : x.from = y.from => x = y
  /\ DOMAIN daily = Dates /\ \A d \in Dates : daily[d].points >= 2 * daily[d].trips
  /\ \A r \in Rollup : /\ rollup[r].at \in {"idle", "read", "delete", "insert", "rebuild"}
                       /\ \A x \in rollup[r].found : x.from >= rollup[r].since
                       /\ r \notin rollup[r].after
  /\ severed \subseteq trips /\ raced \subseteq trips /\ unbuilt \subseteq Dates
  /\ historyFaults \in 0 .. MaxHistoryFaults

HistoryInit ==
  /\ clock = 0 /\ position = [t \in Slot |-> "none"] /\ trips = {}
  /\ daily = [d \in Dates |-> NoTotal]
  /\ rollup = [r \in Rollup |-> AtRest]
  /\ severed = {} /\ raced = {} /\ unbuilt = {} /\ historyFaults = 0

----------------------------------------------------------------------------
(* detectTrips *)

\* A trip has two points at least, and moves.
Finalized(found, points) ==
  IF Len(points) >= 2 /\ \E i \in DOMAIN points : position[points[i]] = "moving"
  THEN found \cup {[from |-> points[1], to |-> Last(points), points |-> Len(points)]}
  ELSE found

NoTrip(found) == [found |-> found, current |-> <<>>, stop |-> 0]

\* A gap or a long stop ends the trip, the latter where the stop began.
Advance(scan, t) ==
  LET parted  == scan.current # <<>> /\ t - Last(scan.current) > maxGap
      base    == IF parted THEN NoTrip(Finalized(scan.found, scan.current)) ELSE scan
      current == Append(base.current, t)
  IN  CASE position[t] = "moving" -> [base EXCEPT !.current = current, !.stop = 0]
        [] position[t] # "moving" /\ base.stop = 0 -> [base EXCEPT !.current = current, !.stop = Len(current)]
        [] OTHER -> IF t - current[base.stop] >= stopMin THEN NoTrip(Finalized(base.found, SubSeq(current, 1, base.stop)))
                    ELSE [base EXCEPT !.current = current]

\* The loop over the points in the order of their times: what it has before each slot.
scanOf(times) ==
  LET scan[t \in 0 .. Horizon + 1] ==
        IF t = 0 THEN NoTrip({})
        ELSE IF t - 1 \in times THEN Advance(scan[t - 1], t - 1) ELSE scan[t - 1]
  IN  scan

detectTrips(times) ==
  LET scan == scanOf(times)[Horizon + 1] IN Finalized(scan.found, scan.current)

----------------------------------------------------------------------------
Back(n) == IF clock < n THEN 0 ELSE clock - n

TimePasses ==
  /\ clock < Horizon
  /\ clock' = clock + 1
  /\ UNCHANGED <<position, trips, daily, rollup, severed, raced, unbuilt, historyFaults>>

\* A position is stored, however late it comes.
Stores(t, motion) ==
  /\ t <= clock /\ position[t] = "none"
  /\ position' = [position EXCEPT ![t] = motion]
  /\ UNCHANGED <<clock, trips, daily, rollup, severed, raced, unbuilt, historyFaults>>

\* runRetention for this tenant; trips and totals stay.
Purges ==
  /\ position' = [t \in Slot |-> IF t < Back(historyDays * Day) THEN "none" ELSE position[t]]
  /\ position' # position
  /\ UNCHANGED <<clock, trips, daily, rollup, severed, raced, unbuilt, historyFaults>>

\* runRollup: the window that ends now; the devices before this one take their time.
RollupStarts(r) ==
  /\ rollup[r].at = "idle"
  /\ rollup' = [rollup EXCEPT ![r] = [AtRest EXCEPT !.at = "read", !.since = Back(Window)]]
  /\ UNCHANGED <<clock, position, trips, daily, severed, raced, unbuilt, historyFaults>>

\* The device's positions since then; with fewer than two of them the trips stay.
RollupReads(r) ==
  LET times == {t \in Slot : t >= rollup[r].since /\ position[t] # "none"}
  IN  /\ rollup[r].at = "read"
      /\ rollup' = [rollup EXCEPT ![r].at = IF Cardinality(times) < 2 THEN "rebuild" ELSE "delete",
                      ![r].found = detectTrips(times)]
      /\ UNCHANGED <<clock, position, trips, daily, severed, raced, unbuilt, historyFaults>>

\* DELETE of the window's trips: it waits for another run that deletes one of them,
\* and does not see what that run inserts.
RollupDeletes(r) ==
  LET doomed == {x \in trips : x.from >= rollup[r].since}
  IN  /\ rollup[r].at = "delete"
      /\ rollup' = [rollup EXCEPT ![r].at = "insert", ![r].doomed = doomed,
                      ![r].after = {q \in Rollup : rollup[q].at = "insert" /\ rollup[q].doomed \cap doomed # {}}]
      /\ UNCHANGED <<clock, position, trips, daily, severed, raced, unbuilt, historyFaults>>

\* The runs that wait for a transaction that ends go on, and pass over the rows it
\* deleted (a row inserted again is another row).
Released(r, next, gone) ==
  [q \in Rollup |-> IF q = r THEN next ELSE [rollup[q] EXCEPT !.after = @ \ {r}, !.doomed = @ \ gone]]

\* INSERT ... ON CONFLICT DO NOTHING (a start is unique), and the commit.
RollupInserts(r) ==
  LET kept     == trips \ rollup[r].doomed
      inserted == {x \in rollup[r].found : \A y \in kept : y.from # x.from}
      others   == {q \in Rollup \ {r} : rollup[q].at = "insert"}
  IN  /\ rollup[r].at = "insert" /\ rollup[r].after = {}
      /\ trips' = kept \cup inserted
      /\ severed' = (severed \cap kept) \cup {x \in kept : x.from < rollup[r].since /\ rollup[r].since <= x.to}
      /\ raced' = (raced \cap kept) \cup (IF others = {} THEN {} ELSE inserted)
      /\ rollup' = Released(r, [AtRest EXCEPT !.at = "rebuild", !.since = rollup[r].since], rollup[r].doomed)
      /\ UNCHANGED <<clock, position, daily, unbuilt, historyFaults>>

TripsOf(d) == {x \in trips : DayOf(x.from) = d}
TotalOf(S) == [trips |-> Cardinality(S), points |-> MapThenSumSet(LAMBDA x : x.points, S)]

\* Mutant: the daily totals begin at the window and not at its day.
RebuildsUnaligned(r) ==
  LET InWindow(d) == {x \in TripsOf(d) : x.from >= rollup[r].since}
      days == {d \in Dates : InWindow(d) # {}}
  IN  /\ rollup[r].at = "rebuild"
      /\ daily' = [d \in Dates |-> IF d \in days THEN TotalOf(InWindow(d)) ELSE daily[d]]
      /\ unbuilt' = unbuilt \ days
      /\ rollup' = [rollup EXCEPT ![r] = AtRest]
      /\ UNCHANGED <<clock, position, trips, severed, raced, historyFaults>>

\* rebuildDailyRollups: an upsert for each day, from the window's first, that has trips.
Rebuilds(r) ==
  LET days == {d \in Dates : d >= DayOf(rollup[r].since) /\ TripsOf(d) # {}}
  IN  /\ rollup[r].at = "rebuild"
      /\ daily' = [d \in Dates |-> IF d \in days THEN TotalOf(TripsOf(d)) ELSE daily[d]]
      /\ unbuilt' = unbuilt \ days
      /\ rollup' = [rollup EXCEPT ![r] = AtRest]
      /\ UNCHANGED <<clock, position, trips, severed, raced, historyFaults>>

\* A statement fails, and with it the run: the scheduler starts another.
RollupFails(r) ==
  /\ rollup[r].at # "idle" /\ historyFaults < MaxHistoryFaults
  /\ historyFaults' = historyFaults + 1
  /\ unbuilt' = IF rollup[r].at = "rebuild" THEN unbuilt \cup {d \in Dates : d >= DayOf(rollup[r].since)} ELSE unbuilt
  /\ rollup' = Released(r, AtRest, {})
  /\ UNCHANGED <<clock, position, trips, daily, severed, raced>>

HistoryNext ==
  \/ TimePasses \/ Purges
  \/ \E t \in Slot, motion \in {"moving", "stopped"} : Stores(t, motion)
  \/ \E r \in Rollup : RollupStarts(r) \/ RollupReads(r) \/ RollupDeletes(r) \/ RollupInserts(r) \/ Rebuilds(r) \/ RollupFails(r)

HistorySpec == HistoryInit /\ [][HistoryNext]_historyVars

----------------------------------------------------------------------------
\* Two stored trips cover different times, unless one began before the window that
\* replaced its end, or two runs replaced trips at once.
CountedOnce ==
  \A x, y \in trips : x.from < y.from /\ y.from <= x.to => x \in severed \/ {x, y} \cap raced # {}

\* A day that has trips has their total, unless a run is about to write it or failed
\* before it did: also at the edge of the window, under overlap and late positions.
TotalsCurrent ==
  \A d \in Dates \ unbuilt :
    TripsOf(d) # {} /\ (\A r \in Rollup : rollup[r].at # "rebuild") => daily[d] = TotalOf(TripsOf(d))

\* The roll-up may run again, over any window and beside another run, and neither
\* counts a drive twice nor leaves a total behind, except where noted.
HistoryAgrees == CountedOnce /\ TotalsCurrent
=============================================================================
