-------------------------------- MODULE Live --------------------------------
(***************************************************************************)
(* The current analysis of a project and the goroutines around it          *)
(* (internal/live/live.go, internal/server/live.go): readers use the       *)
(* analysis under a read lock, a re-analysis is made outside the lock,     *)
(* swapped in under the write lock and the one it replaces is released     *)
(* afterwards, and every change of the status is pushed to event streams   *)
(* through channels of capacity one.                                       *)
(*                                                                         *)
(* An analysis.Project pointer is the number it was made as; 0 is the  *)
(* nil pointer.  Of a Status the times are left out and Error is whether   *)
(* there is one.  sync.Mutex and sync.RWMutex are modelled by what they    *)
(* guarantee: a writer that has announced itself keeps new readers out,    *)
(* and its Unlock lets in every reader that queued behind it.              *)
(***************************************************************************)
EXTENDS Naturals

CONSTANTS
  Readers,      \* goroutines that only call With or Generation
  Analyzers,    \* goroutines that call Reanalyze, then With or Generation
  Closers,      \* goroutines that call Close
  Streams,      \* connected clients of /api/events
  Nobody,       \* the holder of a free lock
  MaxAnalyses   \* bound: how many analyses are ever made

Callers == Readers \cup Analyzers
Procs   == Callers \cup Closers \cup Streams

ASSUME ProcsAssumption ==
  /\ Readers \cap Analyzers = {} /\ Readers \cap Closers = {}
  /\ Readers \cap Streams = {}   /\ Analyzers \cap Closers = {}
  /\ Analyzers \cap Streams = {} /\ Closers \cap Streams = {}
  /\ Nobody \notin Procs
ASSUME MaxAssumption == MaxAnalyses \in Nat \ {0}

VARIABLES
  p,            \* Current.p, 0 once closed
  gen,          \* Current.gen
  made,         \* how many analyses have been made
  released,     \* the analyses whose release function has been called
  reanalyzing,  \* holder of Current.reanalyzing
  writer,       \* goroutine that announced itself to mu.Lock, or holds it
  pc,           \* where each goroutine is
  using,        \* the analysis a caller's fn runs on, 0 outside With
  held,         \* an analyzer's next, then the one it has to release
  own,          \* an analyzer's local gen: the generation it made, 0 if none
  status,       \* Current.status
  statusMu,     \* analyzer inside setStatus, holding statusMu
  subs,         \* Current.subs: streams subscribed
  todo,         \* subscribers setStatus has not reached yet
  chan,         \* the one slot of each stream's channel
  out,          \* the status a stream is writing to its client
  shown         \* the last status a stream's client received

current  == <<p, gen, made, released>>
locks    == <<reanalyzing, writer>>
caller   == <<using, held, own>>
statuses == <<status, statusMu, todo, subs, chan, out, shown>>
vars     == <<p, gen, made, released, reanalyzing, writer, pc, using, held,
              own, status, statusMu, subs, todo, chan, out, shown>>

Status == [generation : Nat, analyzing : BOOLEAN, error : BOOLEAN]
Empty  == [generation |-> 0, analyzing |-> FALSE, error |-> FALSE]

Reading(c)  == pc[c] \in {"locked", "using"}
NoReaders   == \A c \in Callers : ~Reading(c)

Goto(a, l) == pc' = [pc EXCEPT ![a] = l]

(***************************************************************************)
(* New.                                                                    *)
(***************************************************************************)
Init ==
  /\ p = 1 /\ gen = 1 /\ made = 1 /\ released = {}
  /\ reanalyzing = Nobody /\ writer = Nobody
  /\ pc = [x \in Procs |-> "idle"]
  /\ using = [c \in Callers |-> 0]
  /\ held = [a \in Analyzers |-> 0]
  /\ own = [a \in Analyzers |-> 0]
  /\ status = [generation |-> 1, analyzing |-> FALSE, error |-> FALSE]
  /\ statusMu = Nobody /\ subs = {} /\ todo = {}
  /\ chan = [s \in Streams |-> Empty]
  /\ out = [s \in Streams |-> Empty]
  /\ shown = [s \in Streams |-> Empty]

-----------------------------------------------------------------------------
(***************************************************************************)
(* The write lock.                                                         *)
(***************************************************************************)
\* c.mu.Lock(): the lock's own mutex is taken first, which announces the
\* writer; it then holds the lock as soon as the readers inside have left.
Announce(w) ==
  /\ writer = Nobody
  /\ writer' = w

HasLock(w) == writer = w /\ NoReaders

\* c.mu.Unlock() by w, which goes to l: the readers queued meanwhile get in.
UnlockTo(w, l) ==
  /\ writer' = Nobody
  /\ pc' = [x \in Procs |-> IF x = w THEN l
                            ELSE IF pc[x] = "waiting" THEN "locked"
                            ELSE pc[x]]

(***************************************************************************)
(* Faulty variants of operations below, one for each property: what the    *)
(* property says must break when the operation is replaced by its variant. *)
(***************************************************************************)
\* setStatus announces the next generation early; never resets Analyzing on
\* a failure; replaces the whole status on a failure.
UpdatedAhead(a) ==
  CASE pc[a] = "mark"    -> [status EXCEPT !.analyzing = TRUE, !.generation = gen + 1]
    [] pc[a] = "fail"    -> [status EXCEPT !.analyzing = FALSE, !.error = TRUE]
    [] pc[a] = "publish" -> [generation |-> own[a], analyzing |-> FALSE, error |-> FALSE]
UpdatedBusy(a) ==
  CASE pc[a] = "mark"    -> [status EXCEPT !.analyzing = TRUE]
    [] pc[a] = "fail"    -> [status EXCEPT !.error = TRUE]
    [] pc[a] = "publish" -> [generation |-> own[a], analyzing |-> FALSE, error |-> FALSE]
UpdatedAnew(a) ==
  CASE pc[a] = "mark"    -> [status EXCEPT !.analyzing = TRUE]
    [] pc[a] = "fail"    -> [generation |-> 0, analyzing |-> FALSE, error |-> TRUE]
    [] pc[a] = "publish" -> [generation |-> own[a], analyzing |-> FALSE, error |-> FALSE]

\* A full channel keeps the older status.
NotifyIfRead(a, s) ==
  /\ statusMu = a /\ s \in todo
  /\ chan' = IF chan[s] = Empty THEN [chan EXCEPT ![s] = status] ELSE chan
  /\ todo' = todo \ {s}
  /\ UNCHANGED <<current, locks, pc, caller, status, statusMu, subs, out, shown>>

\* A failed analysis returns without unlocking reanalyzing.
AnalyzeFailsLocked(a) ==
  /\ pc[a] = "analyze"
  /\ Goto(a, "idle")
  /\ UNCHANGED <<current, locks, caller, statuses>>

\* The swap does not count its generation; or counts it but keeps the old
\* analysis current.
SwapUncounted(a) ==
  /\ pc[a] = "swap" /\ HasLock(a) /\ p # 0
  /\ p' = held[a]
  /\ held' = [held EXCEPT ![a] = p]
  /\ own' = [own EXCEPT ![a] = gen + 1]
  /\ UnlockTo(a, "publish")
  /\ UNCHANGED <<gen, made, released, reanalyzing, using, statuses>>
SwapNothing(a) ==
  /\ pc[a] = "swap" /\ HasLock(a) /\ p # 0
  /\ gen' = gen + 1
  /\ own' = [own EXCEPT ![a] = gen + 1]
  /\ UnlockTo(a, "publish")
  /\ UNCHANGED <<p, made, released, reanalyzing, using, held, statuses>>

\* The analysis nobody will use is not closed; or the early return forgets
\* the write lock.
RefuseAndLeak(a) ==
  /\ pc[a] = "swap" /\ HasLock(a) /\ p = 0
  /\ held' = [held EXCEPT ![a] = 0]
  /\ UnlockTo(a, "return")
  /\ UNCHANGED <<current, reanalyzing, using, own, statuses>>
RefuseLocked(a) ==
  /\ pc[a] = "swap" /\ HasLock(a) /\ p = 0
  /\ Goto(a, "release")
  /\ UNCHANGED <<current, locks, caller, statuses>>

\* The old analysis is released before the swap has waited for its readers.
AnalyzeThenRelease(a) ==
  /\ pc[a] = "analyze" /\ made < MaxAnalyses
  /\ made' = made + 1
  /\ held' = [held EXCEPT ![a] = made + 1]
  /\ released' = IF p = 0 THEN released ELSE released \cup {p}
  /\ Goto(a, "lock")
  /\ UNCHANGED <<p, gen, locks, using, own, statuses>>

\* Close releases the analysis while callers still use it.
CloseUnderReaders(k) ==
  /\ pc[k] = "close" /\ writer = k /\ p # 0
  /\ released' = released \cup {p}
  /\ p' = 0
  /\ UnlockTo(k, "idle")
  /\ UNCHANGED <<gen, made, reanalyzing, caller, statuses>>

-----------------------------------------------------------------------------
(***************************************************************************)
(* With and Generation: a read lock around the whole call.                 *)
(***************************************************************************)
MayRead(c) == pc[c] = IF c \in Readers THEN "idle" ELSE "follow"

\* c.mu.RLock(): granted at once unless a writer is waiting or active.
RLock(c) ==
  /\ MayRead(c)
  /\ Goto(c, IF writer = Nobody THEN "locked" ELSE "waiting")
  /\ UNCHANGED <<current, locks, caller, statuses>>

\* With finds an analysis and runs fn on it.
Enter(c) ==
  /\ pc[c] = "locked" /\ p # 0
  /\ using' = [using EXCEPT ![c] = p]
  /\ Goto(c, "using")
  /\ UNCHANGED <<current, locks, held, own, statuses>>

\* With finds none and returns ErrClosed, or the call was Generation, which
\* only reads gen; either way the deferred RUnlock follows.
Forget(c) == IF c \in Analyzers THEN own' = [own EXCEPT ![c] = 0]
                                ELSE own' = own
Answer(c) ==
  /\ pc[c] = "locked"
  /\ Forget(c)
  /\ Goto(c, "idle")
  /\ UNCHANGED <<current, locks, using, held, statuses>>

\* fn returns; the deferred RUnlock.
Leave(c) ==
  /\ pc[c] = "using"
  /\ using' = [using EXCEPT ![c] = 0]
  /\ Forget(c)
  /\ Goto(c, "idle")
  /\ UNCHANGED <<current, locks, held, statuses>>

-----------------------------------------------------------------------------
(***************************************************************************)
(* setStatus, by the analyzer holding reanalyzing.  Its three updates are  *)
(* told apart by where the analyzer is.                                    *)
(***************************************************************************)
Updated(a) ==
  CASE pc[a] = "mark"    -> [status EXCEPT !.analyzing = TRUE]
    [] pc[a] = "fail"    -> [status EXCEPT !.analyzing = FALSE, !.error = TRUE]
    [] pc[a] = "publish" -> [generation |-> own[a], analyzing |-> FALSE,
                             error |-> FALSE]

SetStatus(a) ==
  /\ pc[a] \in {"mark", "fail", "publish"} /\ statusMu = Nobody
  /\ status' = Updated(a)
  /\ statusMu' = a
  /\ todo' = subs
  /\ UNCHANGED <<current, locks, pc, caller, subs, chan, out, shown>>

\* One turn of the loop over the subscribers: the unread status, if any, is
\* dropped and the new one sent.  Only the holder of statusMu sends, so the
\* slot is free.
Notify(a, s) ==
  /\ statusMu = a /\ s \in todo
  /\ chan' = [chan EXCEPT ![s] = status]
  /\ todo' = todo \ {s}
  /\ UNCHANGED <<current, locks, pc, caller, status, statusMu, subs, out, shown>>

EndStatus(a) ==
  /\ statusMu = a /\ todo = {}
  /\ statusMu' = Nobody
  /\ Goto(a, CASE pc[a] = "mark"    -> "analyze"
               [] pc[a] = "fail"    -> "return"
               [] pc[a] = "publish" -> "release")
  /\ UNCHANGED <<current, locks, caller, status, todo, subs, chan, out, shown>>

-----------------------------------------------------------------------------
(***************************************************************************)
(* Reanalyze, called by serve -watch and by the reanalyze tool.            *)
(***************************************************************************)
Reanalyze(a) ==
  /\ pc[a] = "idle"
  /\ Goto(a, "queue")
  /\ UNCHANGED <<current, locks, caller, statuses>>

LockReanalyzing(a) ==
  /\ pc[a] = "queue" /\ reanalyzing = Nobody
  /\ reanalyzing' = a
  /\ Goto(a, "mark")
  /\ UNCHANGED <<current, writer, caller, statuses>>

\* c.analyze(ctx), outside every lock readers need.  It fails when the code
\* does not build or when ctx has ended.
AnalyzeFails(a) ==
  /\ pc[a] = "analyze"
  /\ Goto(a, "fail")
  /\ UNCHANGED <<current, locks, caller, statuses>>

AnalyzeSucceeds(a) ==
  /\ pc[a] = "analyze" /\ made < MaxAnalyses
  /\ made' = made + 1
  /\ held' = [held EXCEPT ![a] = made + 1]
  /\ Goto(a, "lock")
  /\ UNCHANGED <<p, gen, released, locks, using, own, statuses>>

LockToSwap(a) ==
  /\ pc[a] = "lock"
  /\ Announce(a)
  /\ Goto(a, "swap")
  /\ UNCHANGED <<current, reanalyzing, caller, statuses>>

\* The new analysis becomes current; the old one is kept for its release.
Swap(a) ==
  /\ pc[a] = "swap" /\ HasLock(a) /\ p # 0
  /\ p' = held[a]
  /\ held' = [held EXCEPT ![a] = p]
  /\ gen' = gen + 1
  /\ own' = [own EXCEPT ![a] = gen + 1]
  /\ UnlockTo(a, "publish")
  /\ UNCHANGED <<made, released, reanalyzing, using, statuses>>

\* Closed meanwhile: the new analysis is closed and ErrClosed returned.
Refuse(a) ==
  /\ pc[a] = "swap" /\ HasLock(a) /\ p = 0
  /\ UnlockTo(a, "release")
  /\ UNCHANGED <<current, reanalyzing, caller, statuses>>

\* release() of the replaced analysis, or next.Close() of the refused one.
Release(a) ==
  /\ pc[a] = "release"
  /\ released' = released \cup {held[a]}
  /\ held' = [held EXCEPT ![a] = 0]
  /\ Goto(a, "return")
  /\ UNCHANGED <<p, gen, made, locks, using, own, statuses>>

\* The deferred reanalyzing.Unlock().  After a success the watcher asks for
\* Generation and the tool reports what With gives it.
Return(a) ==
  /\ pc[a] = "return"
  /\ reanalyzing' = Nobody
  /\ Goto(a, IF own[a] = 0 THEN "idle" ELSE "follow")
  /\ UNCHANGED <<current, writer, caller, statuses>>

(***************************************************************************)
(* Close, which releases the analysis while it holds the write lock.       *)
(***************************************************************************)
Close(k) ==
  /\ pc[k] = "idle"
  /\ Goto(k, "lock")
  /\ UNCHANGED <<current, locks, caller, statuses>>

LockToClose(k) ==
  /\ k \in Closers /\ pc[k] = "lock"
  /\ Announce(k)
  /\ Goto(k, "close")
  /\ UNCHANGED <<current, reanalyzing, caller, statuses>>

CloseCurrent(k) ==
  /\ pc[k] = "close" /\ HasLock(k) /\ p # 0
  /\ released' = released \cup {p}
  /\ p' = 0
  /\ UnlockTo(k, "idle")
  /\ UNCHANGED <<gen, made, reanalyzing, caller, statuses>>

AlreadyClosed(k) ==
  /\ pc[k] = "close" /\ HasLock(k) /\ p = 0
  /\ UnlockTo(k, "idle")
  /\ UNCHANGED <<current, reanalyzing, caller, statuses>>

-----------------------------------------------------------------------------
(***************************************************************************)
(* The event streams of internal/server/live.go.                           *)
(***************************************************************************)
Subscribe(s) ==
  /\ pc[s] = "idle" /\ statusMu = Nobody
  /\ subs' = subs \cup {s}
  /\ Goto(s, "subscribed")
  /\ UNCHANGED <<current, locks, caller, status, statusMu, todo, chan, out, shown>>

\* l.cur.Status(): what the stream starts with.
FirstStatus(s) ==
  /\ pc[s] = "subscribed" /\ statusMu = Nobody
  /\ out' = [out EXCEPT ![s] = status]
  /\ Goto(s, "sending")
  /\ UNCHANGED <<current, locks, caller, status, statusMu, todo, subs, chan, shown>>

Take(s) ==
  /\ pc[s] = "listening" /\ chan[s] # Empty
  /\ out' = [out EXCEPT ![s] = chan[s]]
  /\ chan' = [chan EXCEPT ![s] = Empty]
  /\ Goto(s, "sending")
  /\ UNCHANGED <<current, locks, caller, status, statusMu, todo, subs, shown>>

Send(s) ==
  /\ pc[s] = "sending"
  /\ shown' = [shown EXCEPT ![s] = out[s]]
  /\ out' = [out EXCEPT ![s] = Empty]
  /\ Goto(s, "listening")
  /\ UNCHANGED <<current, locks, caller, status, statusMu, todo, subs, chan>>

\* The client is gone: a write fails, or the request's context ends.
Disconnect(s) ==
  /\ pc[s] \in {"sending", "listening"}
  /\ out' = [out EXCEPT ![s] = Empty]
  /\ Goto(s, "leaving")
  /\ UNCHANGED <<current, locks, caller, status, statusMu, todo, subs, chan, shown>>

\* The deferred unsubscribe; the channel is garbage from then on.
Unsubscribe(s) ==
  /\ pc[s] = "leaving" /\ statusMu = Nobody
  /\ subs' = subs \ {s}
  /\ chan' = [chan EXCEPT ![s] = Empty]
  /\ shown' = [shown EXCEPT ![s] = Empty]
  /\ Goto(s, "idle")
  /\ UNCHANGED <<current, locks, caller, status, statusMu, todo, out>>

-----------------------------------------------------------------------------
Reader(c) == RLock(c) \/ Enter(c) \/ Answer(c) \/ Leave(c)

Analyzer(a) ==
  \/ Reanalyze(a) \/ LockReanalyzing(a)
  \/ SetStatus(a) \/ (\E s \in Streams : Notify(a, s)) \/ EndStatus(a)
  \/ AnalyzeFails(a) \/ AnalyzeSucceeds(a)
  \/ LockToSwap(a) \/ Swap(a) \/ Refuse(a) \/ Release(a) \/ Return(a)

Closer(k) == Close(k) \/ LockToClose(k) \/ CloseCurrent(k) \/ AlreadyClosed(k)

Stream(s) ==
  \/ Subscribe(s) \/ FirstStatus(s) \/ Take(s) \/ Send(s)
  \/ Disconnect(s) \/ Unsubscribe(s)

Next ==
  \/ \E c \in Callers   : Reader(c)
  \/ \E a \in Analyzers : Analyzer(a)
  \/ \E k \in Closers   : Closer(k)
  \/ \E s \in Streams   : Stream(s)

Spec == Init /\ [][Next]_vars

\* The Go scheduler runs every goroutine that can run, sync.Mutex hands the
\* lock to a waiter that has been kept out too long, analyses and the
\* functions given to With return.  Nobody has to make a call.
Fairness ==
  /\ \A c \in Callers :
       /\ WF_vars(Enter(c) \/ Answer(c)) /\ WF_vars(Leave(c))
       /\ c \in Analyzers => WF_vars(RLock(c))
  /\ \A a \in Analyzers :
       /\ SF_vars(LockReanalyzing(a)) /\ SF_vars(SetStatus(a))
       /\ WF_vars((\E s \in Streams : Notify(a, s)) \/ EndStatus(a))
       /\ WF_vars(AnalyzeFails(a) \/ AnalyzeSucceeds(a))
       /\ SF_vars(LockToSwap(a))
       /\ WF_vars(Swap(a) \/ Refuse(a))
       /\ WF_vars(Release(a)) /\ WF_vars(Return(a))
  /\ \A k \in Closers :
       SF_vars(LockToClose(k)) /\ WF_vars(CloseCurrent(k) \/ AlreadyClosed(k))
  /\ \A s \in Streams :
       /\ SF_vars(FirstStatus(s)) /\ SF_vars(Unsubscribe(s))
       /\ WF_vars(Take(s)) /\ WF_vars(Send(s))

FairSpec == Spec /\ Fairness

-----------------------------------------------------------------------------
(***************************************************************************)
(* Properties.                                                             *)
(***************************************************************************)
\* Which places a goroutine of each kind can be in.
ReadPlaces    == {"waiting", "locked", "using"}
AnalyzePlaces == {"idle", "queue", "mark", "analyze", "fail", "lock", "swap",
                  "publish", "release", "return", "follow"} \cup ReadPlaces
StreamPlaces  == {"idle", "subscribed", "sending", "listening", "leaving"}
Places        == AnalyzePlaces \cup StreamPlaces \cup {"close"}

PcOK ==
  /\ pc \in [Procs -> Places]
  /\ \A r \in Readers   : pc[r] \in {"idle"} \cup ReadPlaces
  /\ \A a \in Analyzers : pc[a] \in AnalyzePlaces
  /\ \A k \in Closers   : pc[k] \in {"idle", "lock", "close"}
  /\ \A s \in Streams   : pc[s] \in StreamPlaces

\* Every variable has its type.
TypeOK ==
  /\ p \in Nat /\ gen \in Nat /\ made \in Nat /\ released \subseteq Nat \ {0}
  /\ reanalyzing \in Analyzers \cup {Nobody}
  /\ writer \in Analyzers \cup Closers \cup {Nobody}
  /\ PcOK
  /\ using \in [Callers -> Nat]
  /\ held \in [Analyzers -> Nat] /\ own \in [Analyzers -> Nat]
  /\ status \in Status /\ statusMu \in Analyzers \cup {Nobody}
  /\ subs \subseteq Streams /\ todo \subseteq Streams
  /\ chan \in [Streams -> Status] /\ out \in [Streams -> Status]
  /\ shown \in [Streams -> Status]

\* "With calls fn with the current analysis, which stays valid until fn
\* returns" (live.go:96): no caller runs on an analysis that was released,
\* and until it is closed the current one is not released either.
ValidWhileUsed ==
  /\ \A c \in Callers : using[c] # 0 => using[c] = p
  /\ p \notin released

\* An analysis that was made is always someone's to release: it is current,
\* or an analyzer carries it, or it has been released, and never two of
\* these.  So none leaks and none is released twice.
Carried == {held[a] : a \in Analyzers} \ {0}
OneOwner ==
  /\ 1..made = (released \cup Carried \cup {p}) \ {0}
  /\ Carried \cap released = {} /\ p \notin Carried
  /\ \A a, b \in Analyzers : held[a] # 0 /\ held[a] = held[b] => a = b

\* "1 for the first, +1 per reanalysis": while it is open the current
\* analysis is the one its generation counts, and the status is behind only
\* while the analyzer that swapped it in is about to publish it.
GenerationNamesCurrent ==
  /\ p # 0 => p = gen
  /\ status.generation = gen
     \/ \E a \in Analyzers : /\ pc[a] = "publish" /\ statusMu # a
                             /\ own[a] = gen /\ status.generation + 1 = gen

\* A client told of a generation (by its event stream, or by /api/status)
\* that then asks for data gets that generation's data or newer.
NoticeAfterSwap ==
  \A s \in Streams :
    /\ shown[s].generation <= status.generation
    /\ p # 0 => shown[s].generation <= p

\* While the holder is open, a status that says "analyzing" is about an
\* analyzer at work, and once it has set the status, one at work is shown.
Working(a) == pc[a] \in {"analyze", "fail", "lock", "swap", "publish"}
AnalyzingWhileAtWork ==
  p # 0 => /\ status.analyzing => \E a \in Analyzers : reanalyzing = a /\ pc[a] # "queue"
           /\ \A a \in Analyzers :
                Working(a) /\ statusMu # a => status.analyzing

\* What waits in a subscriber's channel is the status as it is now, unless
\* setStatus has not reached that subscriber yet.
ChannelIsCurrent ==
  \A s \in subs \ todo : chan[s] # Empty => chan[s] = status

\* A stream with nothing to take and nothing to write has shown its client
\* the status as it is now: no change is lost between subscribing and the
\* first status, nor by dropping unread ones.
QuietStreamIsCurrent ==
  \A s \in Streams \ todo :
    pc[s] = "listening" /\ chan[s] = Empty => shown[s] = status

\* The analysis a re-analysis reports on is its own or a newer one.
ReportsOwnOrNewer ==
  \A a \in Analyzers : using[a] # 0 => own[a] # 0 /\ own[a] <= using[a]

\* A connected client never sees the generation go back.
StreamGoesForward ==
  [][\A s \in Streams :
       pc[s] \notin {"leaving", "idle"} =>
         shown[s].generation <= shown'[s].generation]_vars

\* "Reanalyze swaps in a new one once in-flight readers are done": what is
\* current changes only when no caller is inside With.
SwapsBetweenReaders ==
  [][p' # p => \A c \in Callers : using[c] = 0 /\ using'[c] = 0]_vars

\* A caller that queued for the read lock gets it, whatever re-analyses and
\* Close do.
ReaderGetsIn == \A c \in Callers : pc[c] = "waiting" ~> pc[c] = "locked"

\* Every re-analysis returns, the ones queued behind another too.
ReanalyzeReturns == \A a \in Analyzers : pc[a] = "queue" ~> pc[a] \in {"idle", "follow"}

\* Close returns, however many readers keep coming.
CloseReturns == \A k \in Closers : pc[k] = "lock" ~> pc[k] = "idle"

\* A published generation reaches every client that stays connected.
StreamCatchesUp ==
  \A s \in Streams, g \in 1..MaxAnalyses :
    (s \in subs /\ status.generation >= g)
      ~> (pc[s] \in {"leaving", "idle"} \/ shown[s].generation >= g)

\* The holder keeps its promise: without its locks, statuses and streams,
\* the module is Holder, and every other step changes nothing Holder sees.
H == INSTANCE Holder WITH Callers <- Callers, Analyses <- 1..MaxAnalyses,
                          current <- p, view <- using, retired <- released
ImplementsHolder == H!Spec

-----------------------------------------------------------------------------
(***************************************************************************)
(* What the invariants above rest on, and the proofs need.                 *)
(***************************************************************************)
\* The places between reanalyzing.Lock and its deferred Unlock, inside
\* setStatus, those where an analyzer carries an analysis, and those where
\* it knows the generation it made.
InReanalysis == {"mark", "analyze", "fail", "lock", "swap", "publish",
                 "release", "return"}
InSetStatus  == {"mark", "fail", "publish"}
Carrying     == {"lock", "swap", "publish", "release"}
Succeeded    == {"publish", "release", "return", "follow"} \cup ReadPlaces

Locks ==
  /\ \A a \in Analyzers : reanalyzing = a <=> pc[a] \in InReanalysis
  /\ \A a \in Analyzers : writer = a <=> pc[a] = "swap"
  /\ \A k \in Closers   : writer = k <=> pc[k] = "close"
  /\ \A c \in Callers   : pc[c] = "waiting" => writer # Nobody
  /\ \A a \in Analyzers : statusMu = a => pc[a] \in InSetStatus

Uses ==
  \A c \in Callers : /\ using[c] # 0 <=> pc[c] = "using"
                     /\ using[c] # 0 => using[c] = p

Ownership ==
  /\ \A a \in Analyzers : held[a] # 0 <=> pc[a] \in Carrying
  /\ \A a \in Analyzers : held[a] \notin released /\ held[a] <= made
  /\ \A a \in Analyzers : held[a] # 0 => held[a] # p
  /\ p \notin released /\ released \subseteq 1..made /\ p <= made
  /\ made <= MaxAnalyses
  /\ \A n \in 1..made : n \in released \/ n = p \/ \E a \in Analyzers : held[a] = n

Generations ==
  /\ p # 0 => p = gen
  /\ \A a \in Analyzers :
       /\ pc[a] \in {"lock", "swap"} => held[a] = made /\ (p # 0 => made = gen + 1)
       /\ own[a] # 0 => pc[a] \in Succeeded
       /\ pc[a] \in {"publish", "follow"} \cup ReadPlaces => own[a] # 0
       /\ pc[a] = "publish" => own[a] = gen
       /\ own[a] <= gen
  /\ p # 0 /\ made # gen => \E a \in Analyzers : pc[a] \in {"lock", "swap"}

\* The status is one generation behind between the swap and its publication.
Behind == \E a \in Analyzers : pc[a] = "publish" /\ statusMu # a
Published ==
  /\ Behind => status.generation + 1 = gen
  /\ ~Behind => status.generation = gen
  /\ status.generation # 0

\* What each stream holds, against the status: nothing newer, and once
\* setStatus has reached it nothing unread, unsent and unshown but the
\* status itself.
Told ==
  /\ statusMu = Nobody => todo = {}
  /\ todo \subseteq subs
  /\ \A s \in Streams :
       /\ s \in subs <=> pc[s] # "idle"
       /\ s \notin subs => chan[s] = Empty
       /\ chan[s].generation <= status.generation
       /\ out[s].generation <= status.generation
       /\ shown[s].generation <= status.generation
       /\ s \notin todo /\ chan[s] # Empty => chan[s] = status
       /\ s \notin todo /\ chan[s] = Empty =>
            /\ pc[s] = "sending" => out[s] = status
            /\ pc[s] = "listening" => shown[s] = status
       /\ pc[s] = "sending" => shown[s].generation <= out[s].generation
       /\ chan[s] # Empty =>
            /\ out[s].generation <= chan[s].generation
            /\ shown[s].generation <= chan[s].generation

\* Until it is closed, the status says "analyzing" exactly while an analyzer is
\* between its first setStatus and its last.
Shows(a) ==
  \/ pc[a] \in {"analyze", "lock", "swap"}
  \/ pc[a] = "mark" /\ statusMu = a
  \/ pc[a] \in {"fail", "publish"} /\ statusMu # a
Analyzing == p # 0 => (status.analyzing <=> \E a \in Analyzers : Shows(a))

\* Everything the proofs carry from state to state.
IInv == TypeOK /\ Locks /\ Uses /\ Ownership /\ Generations /\ Published /\ Told

=============================================================================
