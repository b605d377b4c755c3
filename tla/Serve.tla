------------------------------- MODULE Serve --------------------------------
(***************************************************************************)
(* icb serve -watch (internal/cli/serve.go): the project is analyzed, the  *)
(* watcher is started, and from then on what it reports is re-analyzed,    *)
(* while the MCP server's reanalyze tool may ask for the same.  What this  *)
(* module follows is whether the analysis being served still describes     *)
(* the files.                                                              *)
(*                                                                         *)
(* Of live.Current it keeps what matters to that: one re-analysis at a     *)
(* time, the new analysis replaces the served one, a failure leaves it and *)
(* is shown.  Module Live has the rest.                                    *)
(***************************************************************************)
EXTENDS Watch

\* Who analyzes: runServe before it serves, the watcher's callback, and the
\* reanalyze tool.
Analysts == {"first", "watch", "tool"}

VARIABLES
  at,        \* where each analyst is: idle, queue (for reanalyzing) or run
  unread,    \* the files its analysis has yet to read
  missed,    \* the files that changed after its analysis read them
  stale,     \* the files that changed since the served analysis read them
  failed,    \* Status.Error: whether the last re-analysis failed
  unseen     \* stale files that changed before the first snapshot

serveVars == <<at, unread, missed, stale, failed, unseen>>
vars      == <<watchVars, serveVars>>

Init ==
  /\ WatchInit
  /\ at = [a \in Analysts |-> IF a = "first" THEN "run" ELSE "idle"]
  /\ unread = [a \in Analysts |-> IF a = "first" THEN Files ELSE {}]
  /\ missed = [a \in Analysts |-> {}]
  /\ stale = {} /\ failed = FALSE /\ unseen = {}

Serving == at["first"] = "idle"

-----------------------------------------------------------------------------
(***************************************************************************)
(* The files change, and time passes.                                      *)
(***************************************************************************)
Change(f) ==
  /\ Edit(f)
  /\ missed' = [a \in Analysts |->
                  IF at[a] = "run" /\ f \notin unread[a] THEN missed[a] \cup {f}
                                                         ELSE missed[a]]
  /\ stale' = IF Serving THEN stale \cup {f} ELSE stale
  /\ UNCHANGED <<at, unread, failed, unseen>>

TimePasses == Pass /\ UNCHANGED serveVars

-----------------------------------------------------------------------------
(***************************************************************************)
(* Faulty variants: a re-analysis does not wait for another; the watcher's *)
(* callback drops a report that finds a re-analysis running.               *)
(***************************************************************************)
BeginUnlocked(a) ==
  /\ at[a] = "queue"
  /\ at' = [at EXCEPT ![a] = "run"]
  /\ unread' = [unread EXCEPT ![a] = Files]
  /\ missed' = [missed EXCEPT ![a] = {}]
  /\ UNCHANGED <<watchVars, stale, failed, unseen>>
CallOrDrop ==
  /\ Report
  /\ at' = [at EXCEPT !["watch"] = IF at["tool"] = "idle" THEN "queue" ELSE "idle"]
  /\ UNCHANGED <<unread, missed, stale, failed, unseen>>

(***************************************************************************)
(* An analysis: it reads every file at a moment of its own.                *)
(***************************************************************************)
\* Reanalyze, once it holds reanalyzing.
Begin(a) ==
  /\ at[a] = "queue" /\ \A b \in Analysts : at[b] # "run"
  /\ at' = [at EXCEPT ![a] = "run"]
  /\ unread' = [unread EXCEPT ![a] = Files]
  /\ missed' = [missed EXCEPT ![a] = {}]
  /\ UNCHANGED <<watchVars, stale, failed, unseen>>

Read(a, f) ==
  /\ at[a] = "run" /\ f \in unread[a]
  /\ unread' = [unread EXCEPT ![a] = unread[a] \ {f}]
  /\ UNCHANGED <<watchVars, at, missed, stale, failed, unseen>>

\* The analysis becomes the one served: it is as old as what it read.
Succeed(a) ==
  /\ at[a] = "run" /\ unread[a] = {}
  /\ at' = [at EXCEPT ![a] = "idle"]
  /\ stale' = missed[a]
  /\ missed' = [missed EXCEPT ![a] = {}]
  /\ failed' = FALSE
  /\ unseen' = unseen \cap stale'
  /\ UNCHANGED <<watchVars, unread>>

\* A re-analysis fails, say on a file that does not compile.
Fail(a) ==
  /\ at[a] = "run" /\ a # "first"
  /\ at' = [at EXCEPT ![a] = "idle"]
  /\ unread' = [unread EXCEPT ![a] = {}]
  /\ missed' = [missed EXCEPT ![a] = {}]
  /\ failed' = TRUE
  /\ UNCHANGED <<watchVars, stale, unseen>>

-----------------------------------------------------------------------------
(***************************************************************************)
(* watchAndReanalyze, started once the first analysis is served, and the   *)
(* tool.                                                                   *)
(***************************************************************************)
Snapshot(f) ==
  /\ Serving /\ FirstVisit(f)
  /\ unseen' = unseen \cup ({f} \cap stale)
  /\ UNCHANGED <<at, unread, missed, stale, failed>>

Quietly == /\ Serving
           /\ Start \/ Skip \/ Scan \/ Wait \/ \E f \in Files : Visit(f)
           /\ UNCHANGED serveVars

\* The callback: cur.Reanalyze.
Call ==
  /\ Report
  /\ at' = [at EXCEPT !["watch"] = "queue"]
  /\ UNCHANGED <<unread, missed, stale, failed, unseen>>

Return == Reported /\ at["watch"] = "idle" /\ UNCHANGED serveVars

AskTool ==
  /\ Serving /\ at["tool"] = "idle"
  /\ at' = [at EXCEPT !["tool"] = "queue"]
  /\ UNCHANGED <<watchVars, unread, missed, stale, failed, unseen>>

Next ==
  \/ \E f \in Files : Change(f) \/ Snapshot(f)
  \/ TimePasses
  \/ Quietly \/ Call \/ Return
  \/ AskTool
  \/ \E a \in Analysts :
       Begin(a) \/ Succeed(a) \/ Fail(a) \/ \E f \in Files : Read(a, f)

Spec == Init /\ [][Next]_vars

\* The watcher's goroutine runs and its clock ticks, analyses end and one
\* that waits for another gets its turn.  Nobody has to change a file, nor
\* to ask the tool.
Fairness ==
  /\ WF_vars(TimePasses) /\ WF_vars(Quietly \/ Call \/ Return)
  /\ \A f \in Files : WF_vars(Snapshot(f))
  /\ \A a \in Analysts :
       /\ SF_vars(Begin(a)) /\ WF_vars(Succeed(a) \/ Fail(a))
       /\ WF_vars(\E f \in Files : Read(a, f))

FairSpec == Spec /\ Fairness

-----------------------------------------------------------------------------
(***************************************************************************)
(* Properties.                                                             *)
(***************************************************************************)
\* Every variable has its type.
ServeTypeOK ==
  /\ at \in [Analysts -> {"idle", "queue", "run"}]
  /\ unread \in [Analysts -> SUBSET Files] /\ missed \in [Analysts -> SUBSET Files]
  /\ stale \subseteq Files /\ failed \in BOOLEAN /\ unseen \subseteq stale
TypeOK == WatchTypeOK /\ ServeTypeOK

\* Whether something under way will still bring a change of f to the served
\* analysis: the watcher has yet to report it, or an analysis has yet to
\* read it.
WatcherOwes(f)   == f \in dirty \cup found \/ (f \in pending /\ pc # "changed")
AnalysisOwes(f)  == \E a \in Analysts : at[a] = "queue" \/ (at[a] = "run" /\ f \notin missed[a])
NotYetSeen(f)    == pc = "start" /\ f \in unvisited
Owed(f)          == WatcherOwes(f) \/ AnalysisOwes(f)

\* "changes made while it runs are reported afterwards" (watch.go:121): a
\* file the served analysis is behind on is always owed to it, unless the
\* status shows that the last re-analysis failed, or the file changed
\* between the first analysis and the watcher's first snapshot.
NoChangeForgotten ==
  \A f \in stale \ unseen : NotYetSeen(f) \/ Owed(f) \/ failed

\* Changes reach the served analysis, or the failure to analyze them shows.
ServesChanges ==
  \A f \in Files : f \in stale \ unseen ~> (f \notin stale \/ f \in unseen \/ failed)

-----------------------------------------------------------------------------
(***************************************************************************)
(* What NoChangeForgotten rests on, and the proofs need.                   *)
(***************************************************************************)
\* Nothing runs beside the first analysis, and changed returns only when the
\* re-analysis it asked for has.
Places ==
  /\ \A a, b \in Analysts : at[a] = "run" /\ at[b] = "run" => a = b
  /\ ~Serving => /\ at = [a \in Analysts |-> IF a = "first" THEN "run" ELSE "idle"]
                 /\ pc = "start" /\ unvisited = Files /\ stale = {} /\ unseen = {}
  /\ at["watch"] # "idle" => pc = "changed"
  /\ pc # "scan" => found = {}

\* What the running analysis read too early will be read again, unless the
\* watcher took the change for the state to start from.
MissedIsOwed ==
  \A a \in Analysts : at[a] = "run" =>
    /\ Serving => missed[a] \subseteq stale
    /\ \A f \in missed[a] : \/ f \in unseen \/ NotYetSeen(f) \/ WatcherOwes(f)
                            \/ \E b \in Analysts : at[b] = "queue"

\* What the proof carries from state to state.
IInv == ServeTypeOK /\ Places /\ MissedIsOwed /\ NoChangeForgotten

=============================================================================
