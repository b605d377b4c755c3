---------------------------- MODULE ServeProofs -----------------------------
(***************************************************************************)
(* Proofs about Watch and Serve for any set of files, any interval and     *)
(* quiet period and any bound: first the steps of the watcher alone, which *)
(* Serve takes, then the theorems.                                         *)
(***************************************************************************)
EXTENDS Serve, TLAPS

\* A step of the watcher, of the clock or of who edits files.
WatchNext ==
  \/ \E f \in Files : Edit(f) \/ FirstVisit(f) \/ Visit(f)
  \/ Pass \/ Start \/ Skip \/ Scan \/ Wait \/ Report \/ Reported

-----------------------------------------------------------------------------
LEMMA Clocks ==
  /\ Interval \in Nat /\ Interval > 0 /\ Quiet \in Nat /\ Quiet > 0
  /\ Tick \in Nat /\ Tick > 0 /\ Tick <= Interval /\ Tick <= Quiet
  /\ Latency = Interval + Quiet /\ Latency \in Nat
<1>1. Interval \in Nat /\ Interval > 0
  BY OptionsAssumption DEF Interval
<1>2. Quiet \in Nat /\ Quiet > 0
  <2>1. Second \div 2 \in Nat /\ Second \div 2 > 0
    BY OptionsAssumption
  <2>2. QED
    BY <2>1, OptionsAssumption DEF Quiet
<1>3. QED
  BY <1>1, <1>2 DEF Tick, Latency

(* Time passes only while Run waits with no tick to take, or is in changed. *)
LEMMA PassDoes ==
  ASSUME MaxLag = 0, WatchTypeOK, Pass
  PROVE  /\ \/ pc = "wait" /\ slot = -1 /\ late' = UpTo(late, Latency + 1) /\ busy' = busy
            \/ pc = "changed" /\ late' = late
         /\ \/ tickIn = 1 /\ tickIn' = Tick /\ slot' = IF slot >= 0 THEN slot + 1 ELSE 0
            \/ /\ tickIn > 1 /\ tickIn' = tickIn - 1
               /\ slot' = IF slot >= 0 THEN slot + 1 ELSE -1
         /\ scanIn' = scanIn - 1
         /\ settleIn' = IF pending = {} THEN 0 ELSE settleIn - 1
         /\ still' = UpTo(still, Quiet)
         /\ UNCHANGED <<pc, dirty, unvisited, found, pending, now, edits>>
<1>1. slot \in Nat \cup {-1} /\ tickIn \in Nat /\ tickIn >= 1
  BY Clocks DEF WatchTypeOK
<1>2. (pc = "wait" /\ slot < 0) \/ pc = "changed"
  BY DEF Pass
<1>3. QED
  BY <1>1, <1>2 DEF Pass, Elapse, Fired

LEMMA WatchType ==
  ASSUME WatchTypeOK, [WatchNext]_watchVars
  PROVE  WatchTypeOK'
<1> USE BoundsAssumption DEF WatchTypeOK, clockVars
<1>1. ASSUME NEW f \in Files, Edit(f) \/ FirstVisit(f) \/ Visit(f) PROVE WatchTypeOK'
  BY <1>1, Clocks DEF Edit, FirstVisit, Visit
<1>2. ASSUME Pass PROVE WatchTypeOK'
  <2>1. tickIn' \in 1..Tick /\ slot' \in Nat \cup {-1}
    BY <1>2, Clocks DEF Pass, Elapse, Fired
  <2>2. scanIn' \in Int /\ scanIn' <= Interval /\ settleIn' \in Int /\ settleIn' <= Quiet
    BY <1>2, Clocks DEF Pass, Elapse
  <2>3. still' \in 0..Quiet /\ late' \in 0..(Latency + 1) /\ busy' \in 0..MaxBusy
    BY <1>2, Clocks DEF Pass, Elapse, UpTo
  <2>4. QED
    BY <1>2, <2>1, <2>2, <2>3 DEF Pass
<1>3. ASSUME Start \/ Skip \/ Scan PROVE WatchTypeOK'
  BY <1>3, Clocks DEF Start, Skip, Scan
<1>4. ASSUME Wait \/ Report PROVE WatchTypeOK'
  <2>1. scanIn' \in Int /\ scanIn' <= Interval /\ settleIn' \in Int /\ settleIn' <= Quiet
    BY <1>4, Clocks DEF Wait, Report, Decide
  <2>2. pending' \subseteq Files
    BY <1>4 DEF Wait, Report, Decide
  <2>3. QED
    BY <1>4, <2>1, <2>2 DEF Wait, Report
<1>5. ASSUME Reported PROVE WatchTypeOK'
  BY <1>5, Clocks DEF Reported
<1>6. ASSUME UNCHANGED watchVars PROVE WatchTypeOK'
  BY <1>6 DEF watchVars
<1>7. QED
  BY <1>1, <1>2, <1>3, <1>4, <1>5, <1>6 DEF WatchNext

LEMMA AgesStep ==
  ASSUME MaxLag = 0, WatchTypeOK, Ages, [WatchNext]_watchVars
  PROVE  Ages'
<1> USE DEF WatchTypeOK, Ages, clockVars
<1>1. ASSUME NEW f \in Files, Edit(f) \/ FirstVisit(f) \/ Visit(f) PROVE Ages'
  BY <1>1 DEF Edit, FirstVisit, Visit
<1>2. ASSUME Pass PROVE Ages'
  BY <1>2, PassDoes, Clocks
<1>3. ASSUME Start \/ Skip \/ Scan PROVE Ages'
  BY <1>3 DEF Start, Skip, Scan
<1>4. ASSUME Wait \/ Report PROVE Ages'
  BY <1>4 DEF Wait, Report
<1>5. ASSUME Reported PROVE Ages'
  BY <1>5 DEF Reported
<1>6. ASSUME UNCHANGED watchVars PROVE Ages'
  BY <1>6 DEF watchVars
<1>7. QED
  BY <1>1, <1>2, <1>3, <1>4, <1>5, <1>6 DEF WatchNext

-----------------------------------------------------------------------------
(***************************************************************************)
(* The quiet period.                                                       *)
(***************************************************************************)
LEMMA QuietStep ==
  ASSUME MaxLag = 0, Quiet < Interval, WatchTypeOK, Ages, QuietSoFar, [WatchNext]_watchVars
  PROVE  QuietSoFar'
<1> USE DEF clockVars
<1>0. Tick = Quiet
  BY Clocks DEF Tick
<1>1. ASSUME NEW f \in Files, Edit(f) PROVE QuietSoFar'
  BY <1>1 DEF Edit, WatchTypeOK, Ages, QuietSoFar
<1>2. ASSUME NEW f \in Files, FirstVisit(f) \/ Visit(f) PROVE QuietSoFar'
  BY <1>2 DEF FirstVisit, Visit, WatchTypeOK, QuietSoFar
<1>3. ASSUME Pass PROVE QuietSoFar'
  <2>1. still' >= Quiet \/ still' = still + 1
    BY <1>3, PassDoes, Clocks DEF UpTo, WatchTypeOK
  <2>2. still >= Quiet => still' >= Quiet
    BY <1>3, PassDoes, Clocks DEF UpTo, WatchTypeOK
  <2>3. /\ pc' \in {"wait", "scan"} /\ pending' # {} /\ dirty' \cup found' = {} =>
             still' >= Quiet \/ still' + settleIn' >= Quiet
    BY <1>3, <2>1, <2>2, PassDoes, Clocks DEF QuietSoFar, WatchTypeOK
  <2>4. pc' = "changed" => IF slot' = -1 THEN scanIn' - tickIn' >= Interval - Tick
                                       ELSE scanIn' + slot' >= Interval - Tick
    BY <1>3, PassDoes, Clocks DEF QuietSoFar, WatchTypeOK
  <2>5. (pc' = "wait" /\ slot' > 0 => scanIn' + slot' > 0) /\ now' = 0
    BY <1>3, PassDoes, Clocks DEF QuietSoFar, WatchTypeOK
  <2>6. QED
    BY <2>3, <2>4, <2>5 DEF QuietSoFar
<1>4. ASSUME Start \/ Skip PROVE QuietSoFar'
  BY <1>4 DEF Start, Skip, WatchTypeOK, Ages, QuietSoFar
<1>5. ASSUME Scan PROVE QuietSoFar'
  BY <1>5 DEF Scan, TooEarly, WatchTypeOK, Ages, QuietSoFar
<1>6. ASSUME Wait \/ Report PROVE QuietSoFar'
  BY <1>6, <1>0, Clocks DEF Wait, Report, Decide, WatchTypeOK, Ages, QuietSoFar
<1>7. ASSUME Reported PROVE QuietSoFar'
  BY <1>7, <1>0, Clocks DEF Reported, WatchTypeOK, Ages, QuietSoFar
<1>8. ASSUME UNCHANGED watchVars PROVE QuietSoFar'
  BY <1>8 DEF watchVars, QuietSoFar
<1>9. QED
  BY <1>1, <1>2, <1>3, <1>4, <1>5, <1>6, <1>7, <1>8 DEF WatchNext

LEMMA ReportIsQuiet ==
  ASSUME WatchTypeOK, Ages, QuietSoFar, [WatchNext]_watchVars,
         pc # "changed", pc' = "changed", dirty = {}
  PROVE  still >= Quiet
<1>1. Report
  BY DEF WatchNext, watchVars, clockVars, Edit, FirstVisit, Visit, Pass, Start, Skip, Scan, Wait, Reported
<1>2. pc = "scan" /\ now = 0 /\ Decide(found) /\ pending' # {} /\ settleIn' + now <= 0
  BY <1>1 DEF Report, Settled, QuietSoFar
<1>3. found = {}
  BY <1>2, Clocks DEF Decide
<1>4. settleIn <= 0 /\ pending # {}
  BY <1>2, <1>3 DEF Decide, WatchTypeOK
<1>5. QED
  BY <1>2, <1>3, <1>4, Clocks DEF QuietSoFar, WatchTypeOK

-----------------------------------------------------------------------------
(***************************************************************************)
(* How long a change waits for its report.                                 *)
(***************************************************************************)
LEMMA OnTickSums ==
  /\ OnTick(Tick)
  /\ \A s, t \in Int : OnTick(s) /\ OnTick(t) => OnTick(s + t) /\ OnTick(s - t)
<1>1. OnTick(Tick)
  <2>1. Tick = 1 * Tick
    BY Clocks
  <2>2. QED
    BY <2>1 DEF OnTick
<1>2. ASSUME NEW s \in Int, NEW t \in Int, OnTick(s), OnTick(t)
      PROVE  OnTick(s + t) /\ OnTick(s - t)
  <2>1. PICK m \in Int : s = m * Tick
    BY <1>2 DEF OnTick
  <2>2. PICK n \in Int : t = n * Tick
    BY <1>2 DEF OnTick
  <2>3. s + t = (m + n) * Tick /\ s - t = (m - n) * Tick
    BY <2>1, <2>2, Clocks
  <2>4. QED
    BY <2>3 DEF OnTick
<1>3. QED
  BY <1>1, <1>2

LEMMA NoTickBetween ==
  ASSUME NEW t \in Int, OnTick(t), t > -Tick
  PROVE  t >= 0
<1>1. PICK n \in Int : t = n * Tick
  BY DEF OnTick
<1>2. Tick \in Nat /\ Tick > 0
  BY Clocks
<1>3. n >= 0
  <2> SUFFICES ASSUME n <= -1 PROVE FALSE
    BY <1>1
  <2>1. n * Tick <= (-1) * Tick
    BY <1>2
  <2>2. QED
    BY <2>1, <1>1, <1>2
<1>4. QED
  BY <1>1, <1>2, <1>3

LEMMA AlignedStep ==
  ASSUME MaxLag = 0, TickDivides, WatchTypeOK, Ages, Aligned, [WatchNext]_watchVars
  PROVE  Aligned'
<1> USE DEF clockVars
<1>1. ASSUME NEW f \in Files, Edit(f) \/ FirstVisit(f) \/ Visit(f) PROVE Aligned'
  BY <1>1 DEF Edit, FirstVisit, Visit, Aligned, OnTick
<1>2. ASSUME Pass PROVE Aligned'
  <2>0. /\ pc # "start" /\ OnTick(scanIn - tickIn) /\ (pending # {} => OnTick(settleIn - tickIn))
        /\ (slot >= 0 => OnTick(slot + tickIn)) /\ (pc = "scan" => OnTick(now + tickIn))
    BY <1>2 DEF Aligned, Pass
  <2>1. tickIn \in Int /\ slot \in Int /\ scanIn \in Int /\ settleIn \in Int /\ Tick \in Int
    BY Clocks DEF WatchTypeOK
  <2>2. CASE tickIn > 1 /\ tickIn' = tickIn - 1 /\ slot' = IF slot >= 0 THEN slot + 1 ELSE -1
    <3>1. /\ scanIn' - tickIn' = scanIn - tickIn
          /\ pending # {} => settleIn' - tickIn' = settleIn - tickIn
          /\ slot' >= 0 => slot >= 0 /\ slot' + tickIn' = slot + tickIn
      BY <1>2, <2>1, <2>2, PassDoes
    <3>2. pc' # "scan" /\ pending' = pending
      BY <1>2 DEF Pass
    <3>3. QED
      BY <2>0, <3>1, <3>2 DEF Aligned, OnTick
  <2>3. CASE tickIn = 1 /\ tickIn' = Tick /\ slot' = IF slot >= 0 THEN slot + 1 ELSE 0
    <3>1. /\ scanIn' - tickIn' = (scanIn - tickIn) - Tick
          /\ pending # {} => settleIn' - tickIn' = (settleIn - tickIn) - Tick
          /\ slot >= 0 => slot' + tickIn' = (slot + tickIn) + Tick
          /\ slot < 0 => slot' + tickIn' = Tick
      BY <1>2, <2>1, <2>3, PassDoes
    <3>2. pc' # "scan" /\ pending' = pending
      BY <1>2 DEF Pass
    <3>3. OnTick(Tick)
      BY OnTickSums
    <3>4. OnTick(scanIn' - tickIn')
      BY <2>0, <2>1, <3>1, <3>3, OnTickSums
    <3>5. ASSUME pending # {} PROVE OnTick(settleIn' - tickIn')
      <4>1. settleIn - tickIn \in Int /\ OnTick(settleIn - tickIn)
        BY <2>0, <2>1, <3>5
      <4>2. OnTick((settleIn - tickIn) - Tick)
        BY <2>1, <3>3, <4>1, OnTickSums
      <4>3. QED
        BY <3>1, <3>5, <4>2
    <3>6. OnTick(slot' + tickIn')
      <4>1. CASE slot >= 0
        BY <4>1, <2>0, <2>1, <3>1, <3>3, OnTickSums
      <4>2. CASE slot < 0
        BY <4>2, <3>1, <3>3
      <4>3. QED
        BY <2>1, <4>1, <4>2
    <3>7. QED
      BY <3>2, <3>4, <3>5, <3>6 DEF Aligned, OnTick
  <2>4. QED
    BY <1>2, <2>2, <2>3, PassDoes
<1>3. ASSUME Start PROVE Aligned'
  <2>1. OnTick(Interval - Tick)
    BY Clocks, OnTickSums DEF TickDivides
  <2>2. QED
    BY <1>3, <2>1 DEF Start, Ages, Aligned, OnTick
<1>4. ASSUME Skip \/ Scan PROVE Aligned'
  BY <1>4 DEF Skip, Scan, Aligned, OnTick
<1>5. ASSUME Wait \/ Report PROVE Aligned'
  <2>1. pc = "scan" /\ Decide(found) /\ pc' # "scan" /\ UNCHANGED <<tickIn, slot>>
    BY <1>5 DEF Wait, Report
  <2>2. OnTick(now + tickIn) /\ slot = -1
    BY <2>1 DEF Aligned, Ages
  <2>3. tickIn \in Int /\ now \in Int
    BY Clocks DEF WatchTypeOK
  <2>4. Interval - now - tickIn = Interval - (now + tickIn) /\ Quiet - now - tickIn = Quiet - (now + tickIn)
    BY <2>3, Clocks
  <2>5. OnTick(Interval - now - tickIn) /\ OnTick(Quiet - now - tickIn)
    BY <2>2, <2>3, <2>4, Clocks, OnTickSums DEF TickDivides
  <2>6. OnTick(scanIn' - tickIn')
    BY <2>1, <2>5 DEF Decide
  <2>7. pending' # {} => OnTick(settleIn' - tickIn')
    BY <2>1, <2>5 DEF Decide, Aligned
  <2>8. QED
    BY <2>1, <2>2, <2>6, <2>7 DEF Aligned, OnTick
<1>6. ASSUME Reported PROVE Aligned'
  BY <1>6 DEF Reported, Aligned, OnTick
<1>7. ASSUME UNCHANGED watchVars PROVE Aligned'
  BY <1>7 DEF watchVars, Aligned, OnTick
<1>8. QED
  BY <1>1, <1>2, <1>3, <1>4, <1>5, <1>6, <1>7 DEF WatchNext

(* A tick that Run takes at once and finds too early is followed by one     *)
(* that is not later than what it was too early for.                       *)
LEMMA AheadOfATick ==
  ASSUME NEW t \in Int, OnTick(t - Tick), t > 0
  PROVE  t >= Tick
<1>1. Tick \in Int
  BY Clocks
<1>2. t - Tick >= 0
  BY <1>1, NoTickBetween
<1>3. QED
  BY <1>1, <1>2

LEMMA SumsInOrder ==
  ASSUME NEW a \in Int, NEW b \in Int, NEW c \in Int, NEW d \in Int, a <= c, b <= d
  PROVE  a + b <= c + d
OBVIOUS

LEMMA InTimeStep ==
  ASSUME MaxLag = 0, TickDivides, WatchTypeOK, Ages, Aligned, InTime, [WatchNext]_watchVars
  PROVE  InTime'
<1> USE DEF clockVars
<1>1. ASSUME NEW f \in Files, Edit(f) PROVE InTime'
  <2>1. /\ late' = 0 /\ UNCHANGED <<pc, unvisited, found, pending, tickIn, slot, scanIn, settleIn>>
        /\ pc = "scan" => late' = 0
    BY <1>1 DEF Edit
  <2>2. 0 <= Interval /\ 0 + scanIn <= Interval /\ 0 + tickIn <= Interval /\ 0 <= Latency
        /\ 0 + settleIn <= Latency /\ 0 + tickIn <= Latency
    BY Clocks DEF WatchTypeOK
  <2>3. QED
    BY <2>1, <2>2 DEF InTime
<1>2. ASSUME NEW f \in Files, FirstVisit(f) \/ Visit(f) PROVE InTime'
  BY <1>2 DEF FirstVisit, Visit, InTime
<1>3. ASSUME Pass PROVE InTime'
  <2>1. CASE pc = "changed"
    BY <1>3, <2>1 DEF Pass, InTime
  <2>2. CASE pc = "wait"
    <3>1. slot = -1 /\ late' = UpTo(late, Latency + 1) /\ pc' = "wait"
          /\ UNCHANGED <<dirty, pending>> /\ late \in Nat /\ scanIn' = scanIn - 1
      BY <1>3, <2>2, PassDoes DEF WatchTypeOK
    <3>2. ASSUME dirty # {}
          PROVE  late' <= Interval /\ late' + scanIn' <= Interval
                 /\ (slot' = -1 => late' + tickIn' <= Interval)
      <4>1. late <= Interval /\ late + scanIn <= Interval /\ late + tickIn <= Interval
        BY <2>2, <3>1, <3>2 DEF InTime
      <4>2. late' = late + 1
        BY <3>1, <4>1, Clocks DEF UpTo
      <4>3. late + 1 <= Interval
        BY <3>1, <4>1, Clocks DEF WatchTypeOK
      <4>4. slot' = -1 => tickIn' = tickIn - 1
        BY <1>3, PassDoes, <3>1
      <4>5. QED
        BY <3>1, <4>1, <4>2, <4>3, <4>4, Clocks DEF WatchTypeOK
    <3>3. ASSUME pending # {}
          PROVE  late' <= Latency /\ late' + settleIn' <= Latency
                 /\ (slot' = -1 => late' + tickIn' <= Latency)
      <4>1. late + settleIn <= Latency /\ late + tickIn <= Latency
        BY <2>2, <3>1, <3>3 DEF InTime
      <4>2. late + 1 <= Latency
        BY <3>1, <4>1, Clocks DEF WatchTypeOK
      <4>3. late' = late + 1
        BY <3>1, <4>2, Clocks DEF UpTo
      <4>4. settleIn' = settleIn - 1 /\ (slot' = -1 => tickIn' = tickIn - 1)
        BY <1>3, PassDoes, <3>1, <3>3
      <4>5. QED
        BY <3>1, <4>1, <4>2, <4>3, <4>4, Clocks DEF WatchTypeOK
    <3>4. QED
      BY <3>1, <3>2, <3>3 DEF InTime
  <2>3. QED
    BY <1>3, <2>1, <2>2, PassDoes
<1>4. ASSUME Start PROVE InTime'
  BY <1>4, Clocks DEF Start, WatchTypeOK, Ages, InTime
<1>5. ASSUME Skip PROVE InTime'
  <2>1. /\ pc = "wait" /\ slot >= 0 /\ slot \in Nat /\ TooEarly
        /\ UNCHANGED <<pc, dirty, pending, found, unvisited, late, scanIn, settleIn, tickIn>>
    BY <1>5 DEF Skip, WatchTypeOK
  <2>2. CASE slot > 0
    <3>1. pending = {} /\ late = 0
      BY <2>1, <2>2 DEF Ages
    <3>2. QED
      BY <2>1, <3>1, Clocks DEF WatchTypeOK, InTime
  <2>3. CASE slot = 0
    <3>1. tickIn = Tick /\ OnTick(scanIn - Tick) /\ (pending # {} => OnTick(settleIn - Tick))
      BY <2>1, <2>3 DEF Ages, Aligned
    <3>2. scanIn > 0 /\ (pending # {} => settleIn > 0)
      BY <2>1, <2>3 DEF TooEarly, WatchTypeOK
    <3>3. scanIn >= tickIn /\ (pending # {} => settleIn >= tickIn)
      BY <3>1, <3>2, AheadOfATick DEF WatchTypeOK
    <3>4. QED
      BY <2>1, <3>3, Clocks DEF WatchTypeOK, InTime
  <2>4. QED
    BY <2>1, <2>2, <2>3
<1>6. ASSUME Scan PROVE InTime'
  BY <1>6 DEF Scan, WatchTypeOK, Ages, InTime
<1>7. ASSUME Wait PROVE InTime'
  <2>1. /\ pc = "scan" /\ unvisited = {} /\ Decide(found) /\ ~Settled /\ pc' = "wait"
        /\ UNCHANGED <<dirty, tickIn, slot, late>> /\ slot = -1 /\ now \in Nat /\ late \in Nat
    BY <1>7 DEF Wait, Ages, WatchTypeOK
  <2>2. dirty # {} => late = 0
    BY <2>1 DEF InTime
  <2>3. scanIn' <= Interval /\ tickIn <= Interval /\ tickIn <= Quiet /\ tickIn \in Nat
    BY <2>1, Clocks DEF Decide, WatchTypeOK
  <2>4. CASE found # {}
    <3>1. late <= Interval /\ settleIn' <= Quiet /\ settleIn' \in Int
      BY <2>1, <2>4, Clocks DEF InTime, Decide
    <3>2. late <= Latency /\ late + tickIn <= Latency
      BY <2>1, <2>3, <3>1, Clocks
    <3>3. late + settleIn' <= Latency
      <4>1. late \in Int /\ Interval \in Int /\ Quiet \in Int /\ Latency = Interval + Quiet
        BY <2>1, Clocks
      <4>2. late + settleIn' <= Interval + Quiet
        BY <3>1, <4>1, SumsInOrder
      <4>3. QED
        BY <4>1, <4>2
    <3>4. QED
      BY <2>1, <2>2, <2>3, <3>2, <3>3, Clocks DEF InTime, Decide, WatchTypeOK
  <2>5. CASE found = {} /\ pending # {}
    <3>1. now = 0 /\ tickIn = Tick /\ settleIn' = settleIn /\ pending' = pending
      BY <2>1, <2>5 DEF Ages, Decide
    <3>2. settleIn > 0
      BY <2>1, <2>5, <3>1 DEF Settled, WatchTypeOK
    <3>3. settleIn >= tickIn
      BY <2>1, <2>5, <3>1, <3>2, AheadOfATick DEF Aligned, WatchTypeOK
    <3>4. late <= Latency /\ late + settleIn <= Latency
      BY <2>1, <2>5 DEF InTime
    <3>5. late + tickIn <= Latency
      BY <2>1, <2>3, <3>3, <3>4, Clocks DEF WatchTypeOK
    <3>6. QED
      BY <2>1, <2>2, <2>3, <3>1, <3>4, <3>5, Clocks DEF InTime, Decide, WatchTypeOK
  <2>6. CASE found = {} /\ pending = {}
    BY <2>1, <2>2, <2>3, <2>6, Clocks DEF InTime, Decide, WatchTypeOK
  <2>7. QED
    BY <2>4, <2>5, <2>6
<1>8. ASSUME Report PROVE InTime'
  BY <1>8 DEF Report, InTime
<1>9. ASSUME Reported PROVE InTime'
  BY <1>9, Clocks DEF Reported, WatchTypeOK, Ages, InTime
<1>10. ASSUME UNCHANGED watchVars PROVE InTime'
  BY <1>10 DEF watchVars, InTime
<1>11. QED
  BY <1>1, <1>2, <1>3, <1>4, <1>5, <1>6, <1>7, <1>8, <1>9, <1>10 DEF WatchNext

LEMMA InTimeReported ==
  ASSUME WatchTypeOK, Ages, InTime
  PROVE  ReportedInTime
BY Clocks DEF WatchTypeOK, Ages, InTime, ReportedInTime

-----------------------------------------------------------------------------
LEMMA WatchSteps == [Next]_vars => [WatchNext]_watchVars
BY DEF Next, vars, WatchNext, Change, Snapshot, TimePasses, Quietly, Call, Return, AskTool, Begin,
       Read, Succeed, Fail

-----------------------------------------------------------------------------
(***************************************************************************)
(* No change is forgotten.                                                 *)
(***************************************************************************)
LEMMA ServeType ==
  ASSUME ServeTypeOK, [Next]_vars
  PROVE  ServeTypeOK'
<1> USE DEF ServeTypeOK, serveVars, Analysts
<1>1. ASSUME NEW f \in Files, Change(f) PROVE ServeTypeOK'
  BY <1>1 DEF Change
<1>2. ASSUME NEW f \in Files, Snapshot(f) PROVE ServeTypeOK'
  BY <1>2 DEF Snapshot
<1>3. ASSUME TimePasses \/ Quietly \/ Return \/ UNCHANGED vars PROVE ServeTypeOK'
  BY <1>3 DEF TimePasses, Quietly, Return, vars
<1>4. ASSUME Call \/ AskTool PROVE ServeTypeOK'
  BY <1>4 DEF Call, AskTool
<1>5. ASSUME NEW a \in Analysts, Begin(a) PROVE ServeTypeOK'
  BY <1>5 DEF Begin
<1>6. ASSUME NEW a \in Analysts, NEW f \in Files, Read(a, f) PROVE ServeTypeOK'
  BY <1>6 DEF Read
<1>7. ASSUME NEW a \in Analysts, Succeed(a) \/ Fail(a) PROVE ServeTypeOK'
  <2>1. missed[a] \subseteq Files
    OBVIOUS
  <2>2. CASE Succeed(a)
    BY <2>1, <2>2 DEF Succeed
  <2>3. CASE Fail(a)
    BY <2>3 DEF Fail
  <2>4. QED
    BY <1>7, <2>2, <2>3
<1>8. QED
  BY <1>1, <1>2, <1>3, <1>4, <1>5, <1>6, <1>7 DEF Next

(* What a step of the watcher that changes no analysis leaves owed. *)
LEMMA WatcherGoesOn ==
  ASSUME Places, Quietly, NEW f \in Files
  PROVE  /\ NotYetSeen(f) => NotYetSeen(f)'
         /\ WatcherOwes(f) => WatcherOwes(f)'
<1> USE DEF clockVars
<1>1. CASE Start \/ Skip
  BY <1>1 DEF Start, Skip, NotYetSeen, WatcherOwes
<1>2. CASE Scan
  BY <1>2 DEF Scan, Places, NotYetSeen, WatcherOwes
<1>3. CASE Wait
  BY <1>3 DEF Wait, Decide, NotYetSeen, WatcherOwes
<1>4. CASE \E g \in Files : Visit(g)
  BY <1>4 DEF Visit, NotYetSeen, WatcherOwes
<1>5. QED
  BY <1>1, <1>2, <1>3, <1>4 DEF Quietly

LEMMA PlacesStep ==
  ASSUME ServeTypeOK, Places, [Next]_vars
  PROVE  Places'
<1> USE DEF ServeTypeOK, serveVars, clockVars, watchVars, Serving
<1>1. ASSUME NEW f \in Files, Change(f) \/ Snapshot(f) PROVE Places'
  BY <1>1 DEF Change, Edit, Snapshot, FirstVisit, Places
<1>2. ASSUME TimePasses \/ UNCHANGED vars PROVE Places'
  BY <1>2 DEF TimePasses, Pass, vars, Places
<1>3. ASSUME Quietly PROVE Places'
  BY <1>3 DEF Quietly, Start, Skip, Scan, Wait, Visit, Places
<1>4. ASSUME Return PROVE Places'
  BY <1>4 DEF Return, Reported, Places
<1>5. ASSUME Call PROVE Places'
  BY <1>5 DEF Call, Report, Places, Analysts
<1>6. ASSUME AskTool PROVE Places'
  BY <1>6 DEF AskTool, Places, Analysts
<1>7. ASSUME NEW a \in Analysts, Begin(a) PROVE Places'
  BY <1>7 DEF Begin, Places, Analysts
<1>8. ASSUME NEW a \in Analysts, NEW f \in Files, Read(a, f) PROVE Places'
  BY <1>8 DEF Read, Places
<1>9. ASSUME NEW a \in Analysts, Succeed(a) \/ Fail(a) PROVE Places'
  BY <1>9 DEF Succeed, Fail, Places, Analysts
<1>10. QED
  BY <1>1, <1>2, <1>3, <1>4, <1>5, <1>6, <1>7, <1>8, <1>9 DEF Next

LEMMA OwedStep ==
  ASSUME ServeTypeOK, Places, MissedIsOwed, NoChangeForgotten, [Next]_vars
  PROVE  MissedIsOwed' /\ NoChangeForgotten'
<1> DEFINE Again == \E b \in Analysts : at[b] = "queue"
           Late(f) == f \in unseen \/ NotYetSeen(f) \/ WatcherOwes(f) \/ Again
<1> USE DEF serveVars, clockVars, watchVars
<1>0. stale \subseteq Files /\ \A a \in Analysts : missed[a] \subseteq Files
  BY DEF ServeTypeOK
<1>1. ASSUME NEW g \in Files, Change(g) PROVE MissedIsOwed' /\ NoChangeForgotten'
  <2>1. /\ UNCHANGED <<pc, unvisited, found, pending, at, unread, failed, unseen>>
        /\ dirty' = IF pc = "start" /\ g \in unvisited THEN dirty ELSE dirty \cup {g}
        /\ stale' = IF Serving THEN stale \cup {g} ELSE stale
    BY <1>1 DEF Change, Edit
  <2>2. \A a \in Analysts : missed'[a] = IF at[a] = "run" /\ g \notin unread[a]
                                         THEN missed[a] \cup {g} ELSE missed[a]
    BY <1>1 DEF Change
  <2>3. NotYetSeen(g)' \/ WatcherOwes(g)'
    BY <2>1 DEF NotYetSeen, WatcherOwes
  <2>4. \A f \in Files : /\ NotYetSeen(f) => NotYetSeen(f)'
                         /\ WatcherOwes(f) => WatcherOwes(f)'
    BY <2>1 DEF NotYetSeen, WatcherOwes
  <2>5. MissedIsOwed'
    <3> SUFFICES ASSUME NEW a \in Analysts, at[a] = "run"
                 PROVE  /\ Serving => missed'[a] \subseteq stale'
                        /\ \A f \in missed'[a] : Late(f)'
      BY <2>1 DEF MissedIsOwed, Serving
    <3>1. Serving => missed'[a] \subseteq stale'
      BY <2>1, <2>2 DEF MissedIsOwed
    <3>2. ASSUME NEW f \in missed'[a] PROVE Late(f)'
      <4>1. CASE f = g
        BY <4>1, <2>3
      <4>2. CASE f \in missed[a]
        <5>1. Late(f) /\ f \in Files
          BY <4>2, <1>0 DEF MissedIsOwed
        <5>2. QED
          BY <5>1, <2>1, <2>4 DEF NotYetSeen, WatcherOwes
      <4>3. QED
        BY <4>1, <4>2, <2>2
    <3>3. QED
      BY <3>1, <3>2
  <2>6. NoChangeForgotten'
    <3> SUFFICES ASSUME NEW f \in stale' \ unseen'
                 PROVE  NotYetSeen(f)' \/ Owed(f)' \/ failed'
      BY DEF NoChangeForgotten
    <3>1. CASE f = g
      BY <3>1, <2>3 DEF Owed
    <3>2. CASE f # g
      <4>1. f \in stale \ unseen /\ f \in Files
        BY <3>2, <2>1, <1>0
      <4>2. AnalysisOwes(f) => AnalysisOwes(f)'
        BY <3>2, <2>1, <2>2 DEF AnalysisOwes
      <4>3. NotYetSeen(f) \/ WatcherOwes(f) \/ AnalysisOwes(f) \/ failed
        BY <4>1 DEF NoChangeForgotten, Owed
      <4>4. QED
        BY <4>1, <4>2, <4>3, <2>1, <2>4 DEF Owed, NotYetSeen, WatcherOwes
    <3>3. QED
      BY <3>1, <3>2
  <2>7. QED
    BY <2>5, <2>6
<1>2. ASSUME NEW g \in Files, Snapshot(g) PROVE MissedIsOwed' /\ NoChangeForgotten'
  <2>1. /\ UNCHANGED <<pc, dirty, found, pending, at, unread, missed, stale, failed>>
        /\ unvisited' = unvisited \ {g} /\ unseen' = unseen \cup ({g} \cap stale) /\ Serving
    BY <1>2 DEF Snapshot, FirstVisit
  <2>2. \A f \in stale : NotYetSeen(f) => NotYetSeen(f)' \/ f \in unseen'
    BY <2>1 DEF NotYetSeen
  <2>3. MissedIsOwed'
    BY <2>1, <2>2 DEF MissedIsOwed, WatcherOwes, Serving
  <2>4. NoChangeForgotten'
    BY <2>1, <2>2 DEF NoChangeForgotten, Owed, WatcherOwes, AnalysisOwes
  <2>5. QED
    BY <2>3, <2>4
<1>3. ASSUME TimePasses \/ UNCHANGED vars PROVE MissedIsOwed' /\ NoChangeForgotten'
  <2>1. UNCHANGED <<pc, unvisited, dirty, found, pending, at, unread, missed, stale, failed, unseen>>
    BY <1>3 DEF TimePasses, Pass, vars
  <2>2. QED
    BY <2>1 DEF MissedIsOwed, NoChangeForgotten, Serving, NotYetSeen, Owed, WatcherOwes, AnalysisOwes
<1>4. ASSUME Quietly PROVE MissedIsOwed' /\ NoChangeForgotten'
  <2>1. UNCHANGED <<at, unread, missed, stale, failed, unseen>>
    BY <1>4 DEF Quietly
  <2>2. \A f \in Files : /\ NotYetSeen(f) => NotYetSeen(f)'
                         /\ WatcherOwes(f) => WatcherOwes(f)'
    BY <1>4, WatcherGoesOn
  <2>3. MissedIsOwed'
    <3>1. \A a \in Analysts : \A f \in missed[a] : Late(f) => Late(f)'
      BY <1>0, <2>1, <2>2 DEF NotYetSeen, WatcherOwes
    <3>2. QED
      BY <2>1, <3>1 DEF MissedIsOwed, Serving
  <2>4. NoChangeForgotten'
    <3>1. \A f \in stale : Owed(f) => Owed(f)'
      BY <1>0, <2>1, <2>2 DEF Owed, AnalysisOwes, NotYetSeen, WatcherOwes
    <3>2. \A f \in stale : NotYetSeen(f) => NotYetSeen(f)'
      BY <1>0, <2>2 DEF NotYetSeen, WatcherOwes
    <3>3. QED
      BY <2>1, <3>1, <3>2 DEF NoChangeForgotten
  <2>5. QED
    BY <2>3, <2>4
<1>5. ASSUME Return PROVE MissedIsOwed' /\ NoChangeForgotten'
  <2>1. /\ UNCHANGED <<unvisited, dirty, found, at, unread, missed, stale, failed, unseen>>
        /\ pc = "changed" /\ pc' = "wait" /\ pending' = {}
    BY <1>5 DEF Return, Reported
  <2>2. \A f \in Files : /\ NotYetSeen(f) => NotYetSeen(f)'
                         /\ WatcherOwes(f) => WatcherOwes(f)'
    BY <2>1 DEF NotYetSeen, WatcherOwes
  <2>3. MissedIsOwed'
    <3>1. \A a \in Analysts : \A f \in missed[a] : Late(f) => Late(f)'
      BY <1>0, <2>1, <2>2 DEF NotYetSeen, WatcherOwes
    <3>2. QED
      BY <2>1, <3>1 DEF MissedIsOwed, Serving
  <2>4. NoChangeForgotten'
    <3>1. \A f \in stale : Owed(f) => Owed(f)'
      BY <1>0, <2>1, <2>2 DEF Owed, AnalysisOwes, NotYetSeen, WatcherOwes
    <3>2. \A f \in stale : NotYetSeen(f) => NotYetSeen(f)'
      BY <1>0, <2>2 DEF NotYetSeen, WatcherOwes
    <3>3. QED
      BY <2>1, <3>1, <3>2 DEF NoChangeForgotten
  <2>5. QED
    BY <2>3, <2>4
<1>6. ASSUME Call PROVE MissedIsOwed' /\ NoChangeForgotten'
  <2>1. /\ at' = [at EXCEPT !["watch"] = "queue"] /\ UNCHANGED <<missed, stale>>
        /\ pc = "scan"
    BY <1>6 DEF Call, Report
  <2>2. at["watch"] = "idle"
    BY <2>1 DEF Places, ServeTypeOK, Analysts
  <2>3. at'["watch"] = "queue" /\ \A a \in Analysts \ {"watch"} : at'[a] = at[a]
    BY <2>1 DEF ServeTypeOK, Analysts
  <2>4. MissedIsOwed'
    BY <2>1, <2>2, <2>3 DEF MissedIsOwed, Serving, Analysts
  <2>5. NoChangeForgotten'
    BY <2>3 DEF NoChangeForgotten, Owed, AnalysisOwes, Analysts
  <2>6. QED
    BY <2>4, <2>5
<1>7. ASSUME AskTool PROVE MissedIsOwed' /\ NoChangeForgotten'
  <2>1. /\ at["tool"] = "idle" /\ at'["tool"] = "queue"
        /\ \A a \in Analysts \ {"tool"} : at'[a] = at[a]
        /\ UNCHANGED <<missed, stale>>
    BY <1>7 DEF AskTool, ServeTypeOK, Analysts
  <2>2. MissedIsOwed'
    BY <2>1 DEF MissedIsOwed, Serving, Analysts
  <2>3. NoChangeForgotten'
    BY <2>1 DEF NoChangeForgotten, Owed, AnalysisOwes, Analysts
  <2>4. QED
    BY <2>2, <2>3
<1>8. ASSUME NEW a \in Analysts, Begin(a) PROVE MissedIsOwed' /\ NoChangeForgotten'
  <2>1. /\ at'[a] = "run" /\ missed'[a] = {}
        /\ \A b \in Analysts : at[b] # "run"
        /\ \A b \in Analysts \ {a} : at'[b] = at[b]
    BY <1>8 DEF Begin, ServeTypeOK
  <2>2. MissedIsOwed'
    BY <2>1 DEF MissedIsOwed
  <2>3. NoChangeForgotten'
    BY <2>1 DEF NoChangeForgotten, Owed, AnalysisOwes
  <2>4. QED
    BY <2>2, <2>3
<1>9. ASSUME NEW a \in Analysts, NEW f \in Files, Read(a, f) PROVE MissedIsOwed' /\ NoChangeForgotten'
  BY <1>9 DEF Read, MissedIsOwed, NoChangeForgotten, Serving, NotYetSeen, Owed, WatcherOwes, AnalysisOwes
<1>10. ASSUME NEW a \in Analysts, Succeed(a) PROVE MissedIsOwed' /\ NoChangeForgotten'
  <2>1. /\ at[a] = "run" /\ at'[a] = "idle" /\ \A b \in Analysts \ {a} : at'[b] = at[b] /\ at[b] # "run"
        /\ stale' = missed[a] /\ unseen' = unseen \cap missed[a]
        /\ UNCHANGED <<pc, unvisited, dirty, found, pending>>
    BY <1>10 DEF Succeed, ServeTypeOK, Places
  <2>2. MissedIsOwed'
    BY <2>1 DEF MissedIsOwed
  <2>3. ASSUME NEW f \in stale' \ unseen' PROVE NotYetSeen(f)' \/ Owed(f)'
    <3>1. f \in missed[a] /\ f \notin unseen
      BY <2>1, <2>3
    <3>2. NotYetSeen(f) \/ WatcherOwes(f) \/ \E b \in Analysts : at[b] = "queue"
      BY <2>1, <3>1 DEF MissedIsOwed
    <3>3. (\E b \in Analysts : at[b] = "queue") => AnalysisOwes(f)'
      BY <2>1 DEF AnalysisOwes
    <3>4. QED
      BY <2>1, <3>2, <3>3 DEF NotYetSeen, Owed, WatcherOwes
  <2>4. QED
    BY <2>2, <2>3 DEF NoChangeForgotten
<1>11. ASSUME NEW a \in Analysts, Fail(a) PROVE MissedIsOwed' /\ NoChangeForgotten'
  <2>1. /\ failed' = TRUE /\ at'[a] = "idle"
        /\ \A b \in Analysts \ {a} : at'[b] = at[b] /\ at[b] # "run"
    BY <1>11 DEF Fail, ServeTypeOK, Places
  <2>2. QED
    BY <2>1 DEF MissedIsOwed, NoChangeForgotten
<1>12. QED
  BY <1>1, <1>2, <1>3, <1>4, <1>5, <1>6, <1>7, <1>8, <1>9, <1>10, <1>11 DEF Next

LEMMA ServeInit == Init => IInv
<1> SUFFICES ASSUME Init PROVE IInv
  OBVIOUS
<1>1. ServeTypeOK
  BY DEF Init, ServeTypeOK, Analysts
<1>2. Places
  BY DEF Init, WatchInit, Places, Serving, Analysts
<1>3. MissedIsOwed /\ NoChangeForgotten
  BY DEF Init, MissedIsOwed, NoChangeForgotten
<1>4. QED
  BY <1>1, <1>2, <1>3 DEF IInv

\* The strengthened invariant that NoChangeForgotten follows from.
THEOREM Invariant == Spec => []IInv
<1>1. IInv /\ [Next]_vars => IInv'
  BY ServeType, PlacesStep, OwedStep DEF IInv
<1>2. QED
  BY <1>1, ServeInit, PTL DEF Spec

\* The served analysis is owed every file it is behind on: a change made
\* while the watcher scans, while changed runs or while an analysis reads is
\* reported and analyzed afterwards, unless the last re-analysis failed.
THEOREM ChangesAreOwed == Spec => []NoChangeForgotten
<1>1. IInv => NoChangeForgotten
  BY DEF IInv
<1>2. QED
  BY <1>1, Invariant, PTL

-----------------------------------------------------------------------------
(***************************************************************************)
(* The watcher's times.                                                    *)
(***************************************************************************)
LEMMA WatchStart ==
  ASSUME Init
  PROVE  WatchTypeOK /\ Ages /\ QuietSoFar /\ Aligned /\ InTime
BY BoundsAssumption, Clocks
DEF Init, WatchInit, WatchTypeOK, Ages, QuietSoFar, Aligned, InTime

\* Every variable keeps its type, and no clock runs ahead of what it was set to.
THEOREM TypeCorrect == Spec => []TypeOK
<1>1. Init => TypeOK
  BY WatchStart, ServeInit DEF TypeOK, IInv
<1>2. TypeOK /\ [Next]_vars => TypeOK'
  BY WatchSteps, WatchType, ServeType DEF TypeOK
<1>3. QED
  BY <1>1, <1>2, PTL DEF Spec

\* A watcher that takes its ticks at once calls changed only when no file has
\* changed for the quiet period, if that is shorter than the interval.  (With
\* the two equal, as they are by default for Scala, a tick that came while
\* changed was running makes settleAt too early.)
THEOREM QuietWhenReported ==
  ASSUME MaxLag = 0, Quiet < Interval
  PROVE  Spec => QuietBeforeReport
<1> DEFINE Inv == WatchTypeOK /\ Ages /\ QuietSoFar
<1>1. Init => Inv
  BY WatchStart
<1>2. Inv /\ [Next]_vars => Inv'
  BY WatchSteps, WatchType, AgesStep, QuietStep
<1>3. Inv /\ [Next]_vars => [pc # "changed" /\ pc' = "changed" /\ dirty = {} => still >= Quiet]_watchVars
  BY WatchSteps, ReportIsQuiet
<1>4. QED
  BY <1>1, <1>2, <1>3, PTL DEF Spec, QuietBeforeReport

\* A watcher that takes its ticks at once reports a change at the latest an
\* interval and a quiet period after it was made, or after changed returned,
\* if the shorter of the two divides the longer.
THEOREM ReportsInTime ==
  ASSUME MaxLag = 0, TickDivides
  PROVE  Spec => []ReportedInTime
<1> DEFINE Inv == WatchTypeOK /\ Ages /\ Aligned /\ InTime
<1>1. Init => Inv
  BY WatchStart
<1>2. Inv /\ [Next]_vars => Inv'
  BY WatchSteps, WatchType, AgesStep, AlignedStep, InTimeStep
<1>3. Inv => ReportedInTime
  BY InTimeReported
<1>4. QED
  BY <1>1, <1>2, <1>3, PTL DEF Spec

=============================================================================
