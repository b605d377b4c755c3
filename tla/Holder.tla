------------------------------- MODULE Holder -------------------------------
(***************************************************************************)
(* What the package comment of internal/live promises, without its locks:  *)
(* callers use the current analysis, it is replaced only when nobody uses  *)
(* it, and an analysis is retired once, when it is neither current nor in  *)
(* use.  0 stands for no analysis.                                         *)
(***************************************************************************)
EXTENDS Naturals

CONSTANTS Callers,   \* those who use the current analysis
          Analyses   \* the analyses there can be

VARIABLES current,   \* the current analysis, 0 once closed
          view,      \* the analysis each caller uses, 0 if none
          retired    \* the analyses that were released

vars == <<current, view, retired>>

InUse == {view[c] : c \in Callers} \ {0}

Init ==
  /\ current = 1
  /\ view = [c \in Callers |-> 0]
  /\ retired = {}

Use(c) ==
  /\ current # 0 /\ view[c] = 0
  /\ view' = [view EXCEPT ![c] = current]
  /\ UNCHANGED <<current, retired>>

Done(c) ==
  /\ view[c] # 0
  /\ view' = [view EXCEPT ![c] = 0]
  /\ UNCHANGED <<current, retired>>

Replace ==
  /\ current # 0 /\ InUse = {}
  /\ current' = current + 1
  /\ UNCHANGED <<view, retired>>

Retire(n) ==
  /\ n \notin retired \cup InUse \cup {current}
  /\ retired' = retired \cup {n}
  /\ UNCHANGED <<current, view>>

Close ==
  /\ current # 0 /\ current \notin retired /\ InUse = {}
  /\ retired' = retired \cup {current}
  /\ current' = 0
  /\ UNCHANGED view

Next ==
  \/ \E c \in Callers : Use(c) \/ Done(c)
  \/ Replace
  \/ \E n \in Analyses : Retire(n)
  \/ Close

Spec == Init /\ [][Next]_vars

=============================================================================
