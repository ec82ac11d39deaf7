---------------------------------- MODULE Awake ----------------------------------
(***************************************************************************)
(* Detectors of a browser page (src/src/awake/): rage and dead clicks,     *)
(* SPA routes with the leak heuristic that samples after them, and the     *)
(* impact of third parties.  They meet only through the navigation event,  *)
(* so a behaviour follows the clicks, the routes or the loads.             *)
(***************************************************************************)
EXTENDS Naturals, Sequences, SequencesExt, FiniteSets, FiniteSetsExt

CONSTANTS
  MaxNow,          \* bound: time
  MaxSteps,        \* bound: clicks, navigations, loads
  KEPT_CLICKS, RageCount, RageMs, RageQuiet, DeadMs,
  MAX_SAMPLES, LEAK_WINDOW,
  PageSizes,       \* what a sample may find: the heap in MB (0 where the browser does not tell) and the nodes
  Hosts, MinImpact, MaxLoad

ASSUME AwakeAssumption ==
  /\ {MaxNow, MaxSteps, RageCount, RageMs, RageQuiet, DeadMs, MaxLoad} \subseteq Nat
  /\ {KEPT_CLICKS, MAX_SAMPLES, LEAK_WINDOW, MinImpact} \subseteq Nat \ {0}
  /\ PageSizes \subseteq [heapBytes : Nat, domNodes : Nat]

VARIABLES
  section, now, steps,
  \* rage-clicks.ts
  recentClicks, lastRageTs, pendingChecks, lastMutationTs, watching,
  clicked, changed, rages, deadReports,   \* history: clicks, changes of the page, reports
  \* spa-routing.ts, memory-leak.ts
  routeOpen, settleTimer, sampleTimers, samples, leakReported,
  ended, popped, measured, leaks,              \* history
  \* resource-audit.ts
  totals, loadTime, toldImpact, tooSmall        \* the last three history

clickVars == <<recentClicks, lastRageTs, pendingChecks, lastMutationTs, watching, clicked, changed, rages, deadReports>>
routeVars == <<routeOpen, settleTimer, sampleTimers, samples, leakReported, ended, popped, measured, leaks>>
loadVars == <<totals, loadTime, toldImpact, tooSmall>>
awakeVars == <<section, now, steps, clickVars, routeVars, loadVars>>

Spots == {"here", "far"}

AwakeInit ==
  /\ section \in {"clicks", "routes", "loads"}
  \* The clock is far from 0.
  /\ now = RageQuiet + 1 /\ steps = 0
  /\ recentClicks = <<>> /\ lastRageTs = 0 /\ pendingChecks = {} /\ lastMutationTs = 0 /\ watching = TRUE
  /\ clicked = <<>> /\ changed = {} /\ rages = <<>> /\ deadReports = {}
  /\ routeOpen = FALSE /\ settleTimer = FALSE /\ sampleTimers = 0 /\ samples = <<>> /\ leakReported = FALSE
  /\ ended = 0 /\ popped = 0 /\ measured = <<>> /\ leaks = <<>>
  /\ totals = [h \in Hosts |-> 0] /\ loadTime = [h \in Hosts |-> 0]
  /\ toldImpact = [h \in Hosts |-> 0] /\ tooSmall = [h \in Hosts |-> 0]

Tick ==
  /\ now < MaxNow /\ now' = now + 1
  /\ UNCHANGED <<section, steps, clickVars, routeVars, loadVars>>

OneStep == steps < MaxSteps /\ steps' = steps + 1 /\ UNCHANGED <<section, now>>
NoStep == UNCHANGED <<section, now, steps>>

---------------------------------------------------------------------------
(* Clicks *)

\* The last few clicks, this one included.
KeptClicks(click) ==
  LET all == Append(recentClicks, click)
  IN IF Len(all) > KEPT_CLICKS THEN Tail(all) ELSE all

\* Those of them that are recent, and near.
Cluster(kept, click) ==
  {k \in DOMAIN kept : click.ts - kept[k].ts <= RageMs /\ kept[k].place = click.place}

IsRage(kept, click) ==
  Cardinality(Cluster(kept, click)) >= RageCount /\ click.ts - lastRageTs > RageQuiet

\* A click on something interactive is dead unless the page changes.
DeadCheck(click) == [click |-> click.n, ts |-> click.ts, mutated |-> lastMutationTs >= click.ts]

Click(place, interactive) ==
  LET click == [place |-> place, ts |-> now, n |-> steps + 1] IN
  /\ section = "clicks" /\ OneStep
  /\ recentClicks' = KeptClicks(click) /\ clicked' = Append(clicked, click)
  /\ IF IsRage(KeptClicks(click), click)
     THEN lastRageTs' = now /\ rages' = Append(rages, click)
     ELSE UNCHANGED <<lastRageTs, rages>>
  /\ pendingChecks' = pendingChecks \cup (IF interactive THEN {DeadCheck(click)} ELSE {})
  /\ UNCHANGED <<lastMutationTs, watching, changed, deadReports, routeVars, loadVars>>

\* The one observer marks the checks under way.
PageChanges ==
  /\ section = "clicks" /\ watching /\ NoStep /\ now \notin changed
  /\ changed' = changed \cup {now}
  /\ lastMutationTs' = now
  /\ pendingChecks' = {[c EXCEPT !.mutated = @ \/ now > c.ts] : c \in pendingChecks}
  /\ UNCHANGED <<recentClicks, lastRageTs, watching, clicked, rages, deadReports, routeVars, loadVars>>

\* The timer of a check; it may be late.
DeadTimer(check) ==
  /\ section = "clicks" /\ now >= check.ts + DeadMs /\ NoStep
  /\ pendingChecks' = pendingChecks \ {check}
  /\ deadReports' = deadReports \cup {[check |-> check, dead |-> ~check.mutated, at |-> now]}
  /\ UNCHANGED <<recentClicks, lastRageTs, lastMutationTs, watching, clicked, changed, rages, routeVars, loadVars>>

\* pagehide disconnects the observer, also from a page that comes back.
HidePage ==
  /\ section = "clicks" /\ watching /\ NoStep
  /\ watching' = FALSE
  /\ UNCHANGED <<recentClicks, lastRageTs, pendingChecks, lastMutationTs, clicked, changed, rages, deadReports,
                 routeVars, loadVars>>

---------------------------------------------------------------------------
(* Routes.  Each navigation puts the end of the route off. *)

PushState ==
  /\ section = "routes" /\ OneStep
  /\ routeOpen' = TRUE /\ settleTimer' = TRUE
  /\ UNCHANGED <<sampleTimers, samples, leakReported, ended, popped, measured, leaks, clickVars, loadVars>>

\* Back and forward start a route as well, and a sample at once.
PopState ==
  /\ section = "routes" /\ OneStep
  /\ routeOpen' = TRUE /\ settleTimer' = TRUE
  /\ sampleTimers' = sampleTimers + 1 /\ popped' = popped + 1
  /\ UNCHANGED <<samples, leakReported, ended, measured, leaks, clickVars, loadVars>>

\* The navigation event goes out, and starts a sample.
RouteSettles ==
  /\ section = "routes" /\ settleTimer /\ NoStep
  /\ settleTimer' = FALSE /\ routeOpen' = FALSE
  /\ IF routeOpen THEN ended' = ended + 1 /\ sampleTimers' = sampleTimers + 1
     ELSE UNCHANGED <<ended, sampleTimers>>
  /\ UNCHANGED <<samples, leakReported, popped, measured, leaks, clickVars, loadVars>>

\* Tolerances and growths in per cent, the least growths in MB and in nodes.
HEAP_GROWTH_TOLERANCE == 98
HEAP_END_GROWTH_PCT == 5
HEAP_END_GROWTH_MIN == 5
DOM_GROWTH_TOLERANCE == 95
DOM_END_GROWTH_MIN_NODES == 50

\* A step may dip a little.
IsApproximatelyNonDecreasing(values, tolerance) ==
  \A k \in 2 .. Len(values) : 100 * values[k] >= tolerance * values[k - 1]

HasMeaningfulEndGrowth(values, minPct, minAbs) ==
  /\ values[1] > 0
  /\ Last(values) >= values[1] + minAbs
  /\ 100 * Last(values) >= (100 + minPct) * values[1]

IsLeak(window) ==
  LET heap == [k \in DOMAIN window |-> window[k].heapBytes]
      nodes == [k \in DOMAIN window |-> window[k].domNodes]
  IN  /\ Len(window) >= LEAK_WINDOW
      /\ \/ /\ IsApproximatelyNonDecreasing(heap, HEAP_GROWTH_TOLERANCE)
            /\ HasMeaningfulEndGrowth(heap, HEAP_END_GROWTH_PCT, HEAP_END_GROWTH_MIN)
         \/ /\ IsApproximatelyNonDecreasing(nodes, DOM_GROWTH_TOLERANCE)
            /\ Last(nodes) >= nodes[1] + DOM_END_GROWTH_MIN_NODES

Shifted(values) == IF Len(values) > MAX_SAMPLES THEN Tail(values) ELSE values

TakeSample ==
  /\ section = "routes" /\ sampleTimers > 0 /\ NoStep
  /\ sampleTimers' = sampleTimers - 1
  /\ \E size \in PageSizes :
       LET values == Shifted(Append(samples, size)) IN
       /\ samples' = values /\ measured' = Append(measured, size)
       /\ IF ~leakReported /\ IsLeak(values)
          THEN leakReported' = TRUE /\ leaks' = Append(leaks, values)
          ELSE UNCHANGED <<leakReported, leaks>>
  /\ UNCHANGED <<routeOpen, settleTimer, ended, popped, clickVars, loadVars>>

---------------------------------------------------------------------------
(* Loads of third parties *)

Load(h) ==
  /\ section = "loads" /\ OneStep
  /\ \E d \in 1 .. MaxLoad : totals' = [totals EXCEPT ![h] = @ + d] /\ loadTime' = [loadTime EXCEPT ![h] = @ + d]
  /\ UNCHANGED <<toldImpact, tooSmall, clickVars, routeVars>>

\* Every interval, when the page is hidden and when it goes: what is worth
\* telling is told, the rest forgotten.
FlushThirdParty ==
  /\ section = "loads" /\ NoStep /\ \E h \in Hosts : totals[h] > 0
  /\ toldImpact' = [h \in Hosts |-> toldImpact[h] + IF totals[h] >= MinImpact THEN totals[h] ELSE 0]
  /\ tooSmall' = [h \in Hosts |-> IF totals[h] \in 1 .. MinImpact - 1 THEN tooSmall[h] + 1 ELSE tooSmall[h]]
  /\ totals' = [h \in Hosts |-> 0]
  /\ UNCHANGED <<loadTime, clickVars, routeVars>>

AwakeNext ==
  \/ section = "clicks" /\ Tick
  \/ \E place \in Spots, interactive \in BOOLEAN : Click(place, interactive)
  \/ PageChanges \/ (\E check \in pendingChecks : DeadTimer(check)) \/ HidePage
  \/ PushState \/ PopState \/ RouteSettles \/ TakeSample
  \/ (\E h \in Hosts : Load(h)) \/ FlushThirdParty

---------------------------------------------------------------------------
AwakeTypeOK ==
  /\ section \in {"clicks", "routes", "loads"} /\ now \in Nat /\ steps \in 0 .. MaxSteps
  /\ Len(recentClicks) <= KEPT_CLICKS /\ lastRageTs \in 0 .. now /\ lastMutationTs \in 0 .. now
  /\ Len(samples) <= MAX_SAMPLES /\ sampleTimers \in 0 .. 2 * MaxSteps
  /\ \A v \in {watching, routeOpen, settleTimer, leakReported} : v \in BOOLEAN

\* Every burst of clicks is told once: rage reports are apart, each is due, and
\* no burst goes unreported outside the quiet time after a report
\* (rage-clicks.ts:102-123).
Burst(click) ==
  {k \in (IF click.n > KEPT_CLICKS THEN click.n - KEPT_CLICKS + 1 ELSE 1) .. click.n :
     clicked[k].place = click.place /\ clicked[k].ts + RageMs >= click.ts}
RageToldOnce ==
  /\ \A k \in 2 .. Len(rages) : rages[k].ts > rages[k - 1].ts + RageQuiet
  /\ \A k \in DOMAIN clicked :
       \/ clicked[k] \in ToSet(rages)
       \/ Cardinality(Burst(clicked[k])) < RageCount
       \/ \E r \in ToSet(rages) : r.n < k /\ clicked[k].ts <= r.ts + RageQuiet
  /\ \A r \in ToSet(rages) : Cardinality(Burst(r)) >= RageCount

\* A click told as dead saw no change of the page between it and its timer that
\* the observer was there to see; one not told saw a change no earlier than it.
DeadClicksAreDead ==
  \A r \in deadReports :
    IF r.dead THEN \A t \in changed : ~(r.check.ts < t /\ t < r.at)
    ELSE \E t \in changed : r.check.ts <= t /\ t <= r.at

\* The last samples as they were after n of them.
Window(n) == SubSeq(measured, (IF n > MAX_SAMPLES THEN n - MAX_SAMPLES ELSE 0) + 1, n)

\* A route that began has ended or will; a burst of navigations ends once, and
\* a sample is taken for an end and for a back or forward, no other.  A leak is
\* told once, with the first of the windows that grows, and never without one
\* (memory-leak.ts:45-67, 80-95).
RoutesEnd ==
  /\ routeOpen = settleTimer
  /\ ended <= steps /\ Len(measured) + sampleTimers = ended + popped
  /\ leakReported = (leaks # <<>>)
  /\ leaks = <<>> => \A n \in DOMAIN measured : ~IsLeak(Window(n))
  /\ leaks # <<>> =>
       \E n \in DOMAIN measured : /\ leaks = <<Window(n)>> /\ IsLeak(Window(n))
                                  /\ \A k \in 1 .. n - 1 : ~IsLeak(Window(k))

\* No load is told twice, and what is left out was too little in its interval.
ImpactToldOnce ==
  \A h \in Hosts :
    /\ toldImpact[h] + totals[h] <= loadTime[h]
    /\ loadTime[h] - toldImpact[h] - totals[h] <= tooSmall[h] * (MinImpact - 1)

DetectorsTellOnce == RageToldOnce /\ DeadClicksAreDead /\ RoutesEnd /\ ImpactToldOnce

=============================================================================
