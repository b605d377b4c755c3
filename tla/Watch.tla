------------------------------- MODULE Watch --------------------------------
(***************************************************************************)
(* The polling watcher of internal/watch/watch.go: Run scans the source    *)
(* files on ticks of a time.Ticker and calls changed once a burst of       *)
(* changes has settled.                                                    *)
(*                                                                         *)
(* Times are kept relative to the clock, so that they stay bounded: scanIn *)
(* is nextScan minus the clock, settleIn settleAt minus the clock, and a   *)
(* tick is its age.  A snapshot is kept as what it tells: dirty holds the  *)
(* files whose size or modification time differs from last.                *)
(***************************************************************************)
EXTENDS Integers

CONSTANTS
  Files,        \* the files relevant to the analysis
  Lang,         \* Options.Lang: "go" or "scala"
  OptInterval,  \* Options.Interval, 0 for the default
  OptQuiet,     \* Options.Quiet, 0 for the default
  Second,       \* how many units of time a second has
  MaxBusy,      \* bound: how long changed runs
  MaxLag,       \* bound: how old a tick gets while Run waits for one
  MaxEdits      \* bound: how often files change

ASSUME OptionsAssumption ==
  /\ Lang \in {"go", "scala"} /\ Second \in Nat /\ Second >= 2
  /\ OptInterval \in Nat /\ OptQuiet \in Nat
ASSUME BoundsAssumption == MaxBusy \in Nat /\ MaxLag \in Nat /\ MaxEdits \in Nat

Interval == IF OptInterval <= 0 THEN Second ELSE OptInterval
Quiet == IF OptQuiet > 0 THEN OptQuiet
         ELSE IF Lang = "scala" THEN Second ELSE Second \div 2
Tick  == IF Interval <= Quiet THEN Interval ELSE Quiet

VARIABLES
  pc,         \* where Run is: start, wait, scan or changed
  dirty,      \* files that differ from last
  unvisited,  \* files the running snapshot has yet to look at
  found,      \* files the running snapshot found to differ from last
  pending,    \* Run's pending
  tickIn,     \* time until the ticker fires
  slot,       \* age of the tick in the ticker's channel, -1 if it is empty
  now,        \* age of the tick being handled
  scanIn,     \* nextScan, from now
  settleIn,   \* settleAt, from now; 0 while nothing is pending
  busy,       \* how long changed has been running
  edits,      \* how many changes there have been
  still,      \* time since the last change, up to Quiet
  late        \* time since the last change or return of changed, up to Latency + 1

clockVars == <<tickIn, slot, scanIn, settleIn, busy, still, late>>
watchVars == <<pc, dirty, unvisited, found, pending, tickIn, slot, now, scanIn,
               settleIn, busy, edits, still, late>>

\* How long a change may go unreported once nothing changes any more.
Latency == Interval + Quiet

WatchInit ==
  /\ pc = "start" /\ unvisited = Files
  /\ dirty = {} /\ found = {} /\ pending = {}
  /\ tickIn = Tick /\ slot = -1 /\ now = 0 /\ scanIn = 0 /\ settleIn = 0
  /\ busy = 0 /\ edits = 0 /\ still = Quiet /\ late = 0

-----------------------------------------------------------------------------
(***************************************************************************)
(* The files and the clock.                                                *)
(***************************************************************************)
\* Someone saves, adds or removes f.  The first snapshot is what later ones
\* are compared with: a change it has yet to look at makes no difference.
Edit(f) ==
  /\ edits < MaxEdits
  /\ edits' = edits + 1
  /\ dirty' = IF pc = "start" /\ f \in unvisited THEN dirty ELSE dirty \cup {f}
  /\ still' = 0 /\ late' = 0
  /\ UNCHANGED <<pc, unvisited, found, pending, tickIn, slot, now, scanIn,
                 settleIn, busy>>

\* The ticker puts the time in its channel unless that is full; the next
\* tick is due a period later in any case.
Fired == tickIn = 1
UpTo(n, bound) == IF n < bound THEN n + 1 ELSE bound

Elapse ==
  /\ tickIn' = IF Fired THEN Tick ELSE tickIn - 1
  /\ slot' = IF slot >= 0 THEN slot + 1 ELSE IF Fired THEN 0 ELSE -1
  /\ scanIn' = scanIn - 1
  /\ settleIn' = IF pending = {} THEN 0 ELSE settleIn - 1
  /\ still' = UpTo(still, Quiet)

\* A unit of time passes while Run waits for a tick or in changed.
Pass ==
  /\ \/ /\ pc = "wait" /\ slot < MaxLag
        /\ late' = UpTo(late, Latency + 1)
        /\ UNCHANGED busy
     \/ /\ pc = "changed" /\ busy < MaxBusy
        /\ busy' = busy + 1
        /\ UNCHANGED late
  /\ Elapse
  /\ UNCHANGED <<pc, dirty, unvisited, found, pending, now, edits>>

-----------------------------------------------------------------------------
(***************************************************************************)
(* Faulty variants of operations below: a tick is handled as if it came    *)
(* now; pending changes are not confirmed by another scan; a change found  *)
(* while others settle does not restart the wait.                          *)
(***************************************************************************)
TooEarlyOnce == scanIn + slot > 0
DecideAtOnce(d) ==
  /\ pending' = pending \cup d
  /\ settleIn' = IF d # {} /\ pending = {} THEN Quiet - now ELSE settleIn
  /\ scanIn' = Interval - now

(***************************************************************************)
(* Run.                                                                    *)
(***************************************************************************)
\* The snapshot before the loop, file by file, then the ticker and nextScan.
FirstVisit(f) ==
  /\ pc = "start" /\ f \in unvisited
  /\ unvisited' = unvisited \ {f}
  /\ UNCHANGED <<pc, dirty, found, pending, now, edits, clockVars>>

Start ==
  /\ pc = "start" /\ unvisited = {}
  /\ pc' = "wait"
  /\ tickIn' = Tick /\ scanIn' = Interval /\ late' = 0
  /\ UNCHANGED <<dirty, unvisited, found, pending, slot, now, settleIn, busy,
                 edits, still>>

\* now.Before(nextScan) && (len(pending) == 0 || now.Before(settleAt)), for
\* the tick in the channel.
TooEarly == scanIn + slot > 0 /\ (pending = {} \/ settleIn + slot > 0)

Skip ==
  /\ pc = "wait" /\ slot >= 0 /\ TooEarly
  /\ slot' = -1
  /\ UNCHANGED <<pc, dirty, unvisited, found, pending, tickIn, now, scanIn,
                 settleIn, busy, edits, still, late>>

Scan ==
  /\ pc = "wait" /\ slot >= 0 /\ ~TooEarly
  /\ pc' = "scan" /\ now' = slot /\ slot' = -1
  /\ unvisited' = Files /\ found' = {}
  /\ UNCHANGED <<dirty, pending, tickIn, scanIn, settleIn, busy, edits, still, late>>

\* The walk reaches f: its state then is what the snapshot holds.
Visit(f) ==
  /\ pc = "scan" /\ f \in unvisited
  /\ unvisited' = unvisited \ {f}
  /\ found' = found \cup ({f} \cap dirty)
  /\ dirty' = dirty \ {f}
  /\ UNCHANGED <<pc, pending, now, edits, clockVars>>

\* What the snapshot shows joins the pending changes and restarts the wait.
Decide(d) ==
  /\ pending' = pending \cup d
  /\ settleIn' = IF d # {} THEN Quiet - now ELSE settleIn
  /\ scanIn' = Interval - now

\* now.Before(settleAt) after Decide.
Settled == pending' # {} /\ settleIn' + now <= 0

Wait ==
  /\ pc = "scan" /\ unvisited = {}
  /\ Decide(found) /\ ~Settled
  /\ pc' = "wait" /\ now' = 0 /\ found' = {}
  /\ UNCHANGED <<dirty, unvisited, tickIn, slot, busy, edits, still, late>>

\* changed(pending) is called.
Report ==
  /\ pc = "scan" /\ unvisited = {}
  /\ Decide(found) /\ Settled
  /\ pc' = "changed" /\ now' = 0 /\ found' = {} /\ busy' = 0
  /\ UNCHANGED <<dirty, unvisited, tickIn, slot, edits, still, late>>

\* changed returns; pending = nil.
Reported ==
  /\ pc = "changed"
  /\ pc' = "wait" /\ pending' = {} /\ settleIn' = 0 /\ busy' = 0 /\ late' = 0
  /\ UNCHANGED <<dirty, unvisited, found, tickIn, slot, now, scanIn, edits, still>>

Loop ==
  \/ Start \/ Skip \/ Scan \/ Wait \/ Report
  \/ \E f \in Files : FirstVisit(f) \/ Visit(f)

-----------------------------------------------------------------------------
(***************************************************************************)
(* Properties.                                                             *)
(***************************************************************************)
\* Every variable has its type, and no clock is further ahead than it is set.
WatchTypeOK ==
  /\ pc \in {"start", "wait", "scan", "changed"}
  /\ dirty \subseteq Files /\ unvisited \subseteq Files /\ found \subseteq Files
  /\ pending \subseteq Files
  /\ tickIn \in 1..Tick /\ slot \in Nat \cup {-1} /\ now \in Nat
  /\ scanIn \in Int /\ scanIn <= Interval /\ settleIn \in Int /\ settleIn <= Quiet
  /\ busy \in 0..MaxBusy /\ edits \in 0..MaxEdits
  /\ still \in 0..Quiet /\ late \in 0..(Latency + 1)

\* "calling changed with the changed paths once they have been quiet for
\* opts.Quiet" (watch.go:119): when changed is called no file has changed
\* for that long, but for changes the confirming scan came too early for,
\* which are reported afterwards.
QuietBeforeReport ==
  [][pc # "changed" /\ pc' = "changed" /\ dirty = {} => still >= Quiet]_watchVars

\* A change waits for its report no longer than an interval and the quiet
\* period, counted from the last change or from when changed was last busy,
\* when a tick divides the interval (as it does by default).
ReportedInTime ==
  dirty \cup found \cup pending # {} /\ pc # "changed" => late <= Latency

-----------------------------------------------------------------------------
(***************************************************************************)
(* What the properties above rest on, and the proofs need, when Run takes  *)
(* a tick as soon as it waits for one: MaxLag = 0.                         *)
(***************************************************************************)
\* Where Run is, and which ticks it can find: only one that came while
\* changed was running is old.
Ages ==
  /\ slot = 0 => tickIn = Tick
  /\ pc = "start" => slot = -1 /\ pending = {} /\ late = 0
  /\ pc = "wait" /\ slot > 0 => pending = {} /\ late = 0
  /\ pc = "scan" => slot = -1 /\ (now = 0 => tickIn = Tick) /\ (now > 0 => pending = {})
  /\ pc # "scan" => found = {} /\ now = 0

\* With a quiet period shorter than the interval such a tick comes before
\* the next scan is due.  Then settleAt is a quiet period after the last
\* change, once a scan has found that.
QuietSoFar ==
  /\ pc = "changed" => IF slot = -1 THEN scanIn - tickIn >= Interval - Tick
                                   ELSE scanIn + slot >= Interval - Tick
  /\ pc = "wait" /\ slot > 0 => scanIn + slot > 0
  /\ now = 0
  /\ pc \in {"wait", "scan"} /\ pending # {} /\ dirty \cup found = {} =>
       still >= Quiet \/ still + settleIn >= Quiet

\* nextScan and settleAt are times of ticks, if that holds of the interval
\* and the quiet period.
OnTick(t) == \E n \in Int : t = n * Tick
TickDivides == OnTick(Interval) /\ OnTick(Quiet)
Aligned ==
  pc # "start" =>
    /\ OnTick(scanIn - tickIn)
    /\ pending # {} => OnTick(settleIn - tickIn)
    /\ slot >= 0 => OnTick(slot + tickIn)
    /\ pc = "scan" => OnTick(now + tickIn)

\* A change is found within an interval and reported a quiet period later.
InTime ==
  /\ pc = "wait" /\ dirty # {} =>
       late <= Interval /\ late + scanIn <= Interval /\ (slot = -1 => late + tickIn <= Interval)
  /\ pc = "scan" =>
       /\ dirty \cup found # {} => late <= Interval
       /\ dirty \ unvisited # {} => late = 0
  /\ pc \in {"wait", "scan"} /\ pending # {} => late <= Latency /\ late + settleIn <= Latency
  /\ pc = "wait" /\ pending # {} /\ slot = -1 => late + tickIn <= Latency

=============================================================================
