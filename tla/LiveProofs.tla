----------------------------- MODULE LiveProofs -----------------------------
(***************************************************************************)
(* Proofs about Live for any number of readers, analyzers, closers and     *)
(* streams and any bound on the analyses made.                             *)
(***************************************************************************)
EXTENDS Live, TLAPS

USE DEF Callers, Procs, ReadPlaces, Places, AnalyzePlaces, StreamPlaces, Status

-----------------------------------------------------------------------------
(* The initial state. *)
LEMMA InitInv == Init => IInv
<1> SUFFICES ASSUME Init PROVE IInv
  OBVIOUS
<1> USE ProcsAssumption, MaxAssumption DEF Init
<1>1. TypeOK
  BY DEF TypeOK, PcOK, Empty
<1>2. Locks /\ Uses
  BY DEF Locks, Uses, InReanalysis, InSetStatus
<1>3. Ownership
  BY DEF Ownership, Carrying
<1>4. Generations
  BY DEF Generations, Succeeded
<1>5. Published /\ Told
  BY DEF Published, Behind, Told, Empty
<1>6. QED
  BY <1>1, <1>2, <1>3, <1>4, <1>5 DEF IInv

-----------------------------------------------------------------------------
(* A caller's step. *)
LEMMA ReaderStep == ASSUME IInv, NEW c \in Callers, Reader(c) PROVE IInv'
<1> USE ProcsAssumption DEF IInv, current, locks, caller, statuses
<1>1. CASE RLock(c)
  <2> USE <1>1 DEF RLock, MayRead, Goto
  <2>1. TypeOK'
    BY DEF TypeOK, PcOK, Locks, InSetStatus, Empty
  <2>2. Locks'
    BY DEF TypeOK, PcOK, Locks, InReanalysis, InSetStatus
  <2>3. Uses'
    BY DEF TypeOK, PcOK, Uses, Locks, InSetStatus
  <2>4. Ownership'
    BY DEF TypeOK, PcOK, Ownership, Carrying, Locks, InReanalysis, InSetStatus
  <2>5. Generations'
    BY DEF TypeOK, PcOK, Generations, Succeeded, Locks, InReanalysis, InSetStatus
  <2>6. Published'
    BY DEF TypeOK, PcOK, Published, Behind, Generations, Locks, InReanalysis, InSetStatus
  <2>7. Told'
    BY DEF TypeOK, PcOK, Told, Published, Generations, Locks, InSetStatus, Empty
  <2>8. QED
    BY <2>1, <2>2, <2>3, <2>4, <2>5, <2>6, <2>7
<1>2. CASE Enter(c)
  <2> USE <1>2 DEF Enter, Goto
  <2>1. TypeOK'
    BY DEF TypeOK, PcOK, Locks, InSetStatus, Empty
  <2>2. Locks'
    BY DEF TypeOK, PcOK, Locks, InReanalysis, InSetStatus
  <2>3. Uses'
    BY DEF TypeOK, PcOK, Uses, Locks, InSetStatus
  <2>4. Ownership'
    BY DEF TypeOK, PcOK, Ownership, Carrying, Locks, InReanalysis, InSetStatus
  <2>5. Generations'
    BY DEF TypeOK, PcOK, Generations, Succeeded, Locks, InReanalysis, InSetStatus
  <2>6. Published'
    BY DEF TypeOK, PcOK, Published, Behind, Generations, Locks, InReanalysis, InSetStatus
  <2>7. Told'
    BY DEF TypeOK, PcOK, Told, Published, Generations, Locks, InSetStatus, Empty
  <2>8. QED
    BY <2>1, <2>2, <2>3, <2>4, <2>5, <2>6, <2>7
<1>3. CASE Answer(c)
  <2> USE <1>3 DEF Answer, Forget, Goto
  <2>1. TypeOK'
    BY DEF TypeOK, PcOK, Locks, InSetStatus, Empty
  <2>2. Locks'
    BY DEF TypeOK, PcOK, Locks, InReanalysis, InSetStatus
  <2>3. Uses'
    BY DEF TypeOK, PcOK, Uses, Locks, InSetStatus
  <2>4. Ownership'
    BY DEF TypeOK, PcOK, Ownership, Carrying, Locks, InReanalysis, InSetStatus
  <2>5. Generations'
    BY DEF TypeOK, PcOK, Generations, Succeeded, Locks, InReanalysis, InSetStatus
  <2>6. Published'
    BY DEF TypeOK, PcOK, Published, Behind, Generations, Locks, InReanalysis, InSetStatus
  <2>7. Told'
    BY DEF TypeOK, PcOK, Told, Published, Generations, Locks, InSetStatus, Empty
  <2>8. QED
    BY <2>1, <2>2, <2>3, <2>4, <2>5, <2>6, <2>7
<1>4. CASE Leave(c)
  <2> USE <1>4 DEF Leave, Forget, Goto
  <2>1. TypeOK'
    BY DEF TypeOK, PcOK, Locks, InSetStatus, Empty
  <2>2. Locks'
    BY DEF TypeOK, PcOK, Locks, InReanalysis, InSetStatus
  <2>3. Uses'
    BY DEF TypeOK, PcOK, Uses, Locks, InSetStatus
  <2>4. Ownership'
    BY DEF TypeOK, PcOK, Ownership, Carrying, Locks, InReanalysis, InSetStatus
  <2>5. Generations'
    BY DEF TypeOK, PcOK, Generations, Succeeded, Locks, InReanalysis, InSetStatus
  <2>6. Published'
    BY DEF TypeOK, PcOK, Published, Behind, Generations, Locks, InReanalysis, InSetStatus
  <2>7. Told'
    BY DEF TypeOK, PcOK, Told, Published, Generations, Locks, InSetStatus, Empty
  <2>8. QED
    BY <2>1, <2>2, <2>3, <2>4, <2>5, <2>6, <2>7
<1>5. QED
  BY <1>1, <1>2, <1>3, <1>4 DEF Reader

-----------------------------------------------------------------------------
(* An analyzer's step. *)
LEMMA AnalyzerStep == ASSUME IInv, NEW a \in Analyzers, Analyzer(a) PROVE IInv'
<1> USE ProcsAssumption DEF IInv, current, locks, caller, statuses
<1>1. CASE Reanalyze(a)
  <2> USE <1>1 DEF Reanalyze, Goto
  <2>1. TypeOK'
    BY DEF TypeOK, PcOK, Locks, InSetStatus, Empty
  <2>2. Locks'
    BY DEF TypeOK, PcOK, Locks, InReanalysis, InSetStatus
  <2>3. Uses'
    BY DEF TypeOK, PcOK, Uses, Locks, InSetStatus
  <2>4. Ownership'
    BY DEF TypeOK, PcOK, Ownership, Carrying, Locks, InReanalysis, InSetStatus
  <2>5. Generations'
    BY DEF TypeOK, PcOK, Generations, Succeeded, Locks, InReanalysis, InSetStatus
  <2>6. Published'
    BY DEF TypeOK, PcOK, Published, Behind, Generations, Locks, InReanalysis, InSetStatus
  <2>7. Told'
    BY DEF TypeOK, PcOK, Told, Published, Generations, Locks, InSetStatus, Empty
  <2>8. QED
    BY <2>1, <2>2, <2>3, <2>4, <2>5, <2>6, <2>7
<1>2. CASE LockReanalyzing(a)
  <2> USE <1>2 DEF LockReanalyzing, Goto
  <2>1. TypeOK'
    BY DEF TypeOK, PcOK, Locks, InSetStatus, Empty
  <2>2. Locks'
    BY DEF TypeOK, PcOK, Locks, InReanalysis, InSetStatus
  <2>3. Uses'
    BY DEF TypeOK, PcOK, Uses, Locks, InSetStatus
  <2>4. Ownership'
    BY DEF TypeOK, PcOK, Ownership, Carrying, Locks, InReanalysis, InSetStatus
  <2>5. Generations'
    BY DEF TypeOK, PcOK, Generations, Succeeded, Locks, InReanalysis, InSetStatus
  <2>6. Published'
    BY DEF TypeOK, PcOK, Published, Behind, Generations, Locks, InReanalysis, InSetStatus
  <2>7. Told'
    BY DEF TypeOK, PcOK, Told, Published, Generations, Locks, InSetStatus, Empty
  <2>8. QED
    BY <2>1, <2>2, <2>3, <2>4, <2>5, <2>6, <2>7
<1>3. CASE SetStatus(a)
  <2> USE <1>3 DEF SetStatus, Updated
  <2>1. TypeOK'
    BY DEF TypeOK, PcOK, Locks, InSetStatus, Empty
  <2>2. Locks'
    BY DEF TypeOK, PcOK, Locks, InReanalysis, InSetStatus
  <2>3. Uses'
    BY DEF TypeOK, PcOK, Uses, Locks, InSetStatus
  <2>4. Ownership'
    BY DEF TypeOK, PcOK, Ownership, Carrying, Locks, InReanalysis, InSetStatus
  <2>5. Generations'
    BY DEF TypeOK, PcOK, Generations, Succeeded, Locks, InReanalysis, InSetStatus
  <2>6. Published'
    BY DEF TypeOK, PcOK, Published, Behind, Generations, Locks, InReanalysis, InSetStatus
  <2>7. Told'
    <3>1. status'.generation \in Nat /\ status.generation <= status'.generation
      BY DEF TypeOK, Published, Behind, Generations
    <3>2. ASSUME NEW s \in Streams
          PROVE  /\ chan[s].generation \in Nat /\ out[s].generation \in Nat
                 /\ shown[s].generation \in Nat
      BY DEF TypeOK
    <3>3. QED
      BY <3>1, <3>2, <2>1 DEF Told, TypeOK
  <2>8. QED
    BY <2>1, <2>2, <2>3, <2>4, <2>5, <2>6, <2>7
<1>4. ASSUME NEW s \in Streams, Notify(a, s) PROVE IInv'
  <2> USE <1>4 DEF Notify
  <2>1. TypeOK'
    BY DEF TypeOK, PcOK, Locks, InSetStatus, Empty
  <2>2. Locks'
    BY DEF TypeOK, PcOK, Locks, InReanalysis, InSetStatus
  <2>3. Uses'
    BY DEF TypeOK, PcOK, Uses, Locks, InSetStatus
  <2>4. Ownership'
    BY DEF TypeOK, PcOK, Ownership, Carrying, Locks, InReanalysis, InSetStatus
  <2>5. Generations'
    BY DEF TypeOK, PcOK, Generations, Succeeded, Locks, InReanalysis, InSetStatus
  <2>6. Published'
    BY DEF TypeOK, PcOK, Published, Behind, Generations, Locks, InReanalysis, InSetStatus
  <2>7. Told'
    <3>1. ASSUME NEW t \in Streams, t # s
          PROVE  chan'[t] = chan[t] /\ (t \in todo' <=> t \in todo)
      BY <3>1 DEF TypeOK
    <3>2. chan'[s] = status /\ s \notin todo' /\ status # Empty
      BY DEF TypeOK, Published, Empty
    <3>3. ASSUME NEW t \in Streams
          PROVE  /\ chan[t].generation \in Nat /\ out[t].generation \in Nat
                 /\ shown[t].generation \in Nat /\ status.generation \in Nat
      BY DEF TypeOK
    <3>4. QED
      BY <3>1, <3>2, <3>3 DEF Told
  <2>8. QED
    BY <2>1, <2>2, <2>3, <2>4, <2>5, <2>6, <2>7
<1>5. CASE EndStatus(a)
  <2> USE <1>5 DEF EndStatus, Goto
  <2>1. TypeOK'
    BY DEF TypeOK, PcOK, Locks, InSetStatus, Empty
  <2>2. Locks'
    BY DEF TypeOK, PcOK, Locks, InReanalysis, InSetStatus
  <2>3. Uses'
    BY DEF TypeOK, PcOK, Uses, Locks, InSetStatus
  <2>4. Ownership'
    BY DEF TypeOK, PcOK, Ownership, Carrying, Locks, InReanalysis, InSetStatus
  <2>5. Generations'
    BY DEF TypeOK, PcOK, Generations, Succeeded, Locks, InReanalysis, InSetStatus
  <2>6. Published'
    BY DEF TypeOK, PcOK, Published, Behind, Generations, Locks, InReanalysis, InSetStatus
  <2>7. Told'
    BY DEF TypeOK, PcOK, Told, Published, Generations, Locks, InSetStatus, Empty
  <2>8. QED
    BY <2>1, <2>2, <2>3, <2>4, <2>5, <2>6, <2>7
<1>6. CASE AnalyzeFails(a)
  <2> USE <1>6 DEF AnalyzeFails, Goto
  <2>1. TypeOK'
    BY DEF TypeOK, PcOK, Locks, InSetStatus, Empty
  <2>2. Locks'
    BY DEF TypeOK, PcOK, Locks, InReanalysis, InSetStatus
  <2>3. Uses'
    BY DEF TypeOK, PcOK, Uses, Locks, InSetStatus
  <2>4. Ownership'
    BY DEF TypeOK, PcOK, Ownership, Carrying, Locks, InReanalysis, InSetStatus
  <2>5. Generations'
    BY DEF TypeOK, PcOK, Generations, Succeeded, Locks, InReanalysis, InSetStatus
  <2>6. Published'
    BY DEF TypeOK, PcOK, Published, Behind, Generations, Locks, InReanalysis, InSetStatus
  <2>7. Told'
    BY DEF TypeOK, PcOK, Told, Published, Generations, Locks, InSetStatus, Empty
  <2>8. QED
    BY <2>1, <2>2, <2>3, <2>4, <2>5, <2>6, <2>7
<1>7. CASE AnalyzeSucceeds(a)
  <2> USE <1>7 DEF AnalyzeSucceeds, Goto
  <2>1. TypeOK'
    BY DEF TypeOK, PcOK, Locks, InSetStatus, Empty
  <2>2. Locks'
    BY DEF TypeOK, PcOK, Locks, InReanalysis, InSetStatus
  <2>3. Uses'
    BY DEF TypeOK, PcOK, Uses, Locks, InSetStatus
  <2>4. Ownership'
    <3>1. made \in Nat /\ made' = made + 1 /\ made + 1 <= MaxAnalyses
      BY MaxAssumption DEF TypeOK
    <3>2. 1..made' = 1..made \cup {made + 1} /\ made + 1 \notin 1..made
      BY <3>1
    <3>3. held'[a] = made + 1 /\ \A b \in Analyzers : b # a => held'[b] = held[b]
      BY DEF TypeOK
    <3>4. held[a] = 0 /\ p \in Nat /\ held \in [Analyzers -> Nat]
      BY DEF TypeOK, Ownership, Carrying
    <3>5. \A b \in Analyzers : held'[b] # 0 <=> pc'[b] \in Carrying
      BY <3>1, <3>3 DEF TypeOK, PcOK, Ownership, Carrying
    <3>6. \A b \in Analyzers : held'[b] \notin released /\ held'[b] <= made + 1
      BY <3>1, <3>2, <3>3, <3>4 DEF Ownership
    <3>7. \A b \in Analyzers : held'[b] # 0 => held'[b] # p
      BY <3>1, <3>3, <3>4 DEF Ownership
    <3>8. \A n \in 1..made' : n \in released \/ n = p \/ \E b \in Analyzers : held'[b] = n
      BY <3>2, <3>3, <3>4 DEF Ownership
    <3>9. QED
      BY <3>1, <3>2, <3>5, <3>6, <3>7, <3>8, <3>4 DEF Ownership
  <2>5. Generations'
    BY DEF TypeOK, PcOK, Generations, Succeeded, Locks, InReanalysis, InSetStatus
  <2>6. Published'
    BY DEF TypeOK, PcOK, Published, Behind, Generations, Locks, InReanalysis, InSetStatus
  <2>7. Told'
    BY DEF TypeOK, PcOK, Told, Published, Generations, Locks, InSetStatus, Empty
  <2>8. QED
    BY <2>1, <2>2, <2>3, <2>4, <2>5, <2>6, <2>7
<1>8. CASE LockToSwap(a)
  <2> USE <1>8 DEF LockToSwap, Announce, Goto
  <2>1. TypeOK'
    BY DEF TypeOK, PcOK, Locks, InSetStatus, Empty
  <2>2. Locks'
    BY DEF TypeOK, PcOK, Locks, InReanalysis, InSetStatus
  <2>3. Uses'
    BY DEF TypeOK, PcOK, Uses, Locks, InSetStatus
  <2>4. Ownership'
    BY DEF TypeOK, PcOK, Ownership, Carrying, Locks, InReanalysis, InSetStatus
  <2>5. Generations'
    BY DEF TypeOK, PcOK, Generations, Succeeded, Locks, InReanalysis, InSetStatus
  <2>6. Published'
    BY DEF TypeOK, PcOK, Published, Behind, Generations, Locks, InReanalysis, InSetStatus
  <2>7. Told'
    BY DEF TypeOK, PcOK, Told, Published, Generations, Locks, InSetStatus, Empty
  <2>8. QED
    BY <2>1, <2>2, <2>3, <2>4, <2>5, <2>6, <2>7
<1>9. CASE Swap(a)
  <2> USE <1>9 DEF Swap, HasLock, NoReaders, Reading, UnlockTo
  <2>1. TypeOK'
    BY DEF TypeOK, PcOK, Locks, InSetStatus, Empty
  <2>2. Locks'
    BY DEF TypeOK, PcOK, Locks, InReanalysis, InSetStatus
  <2>3. Uses'
    BY DEF TypeOK, PcOK, Uses, Locks, InSetStatus
  <2>4. Ownership'
    BY DEF TypeOK, PcOK, Ownership, Carrying, Locks, InReanalysis, InSetStatus
  <2>5. Generations'
    BY DEF TypeOK, PcOK, Generations, Succeeded, Locks, InReanalysis, InSetStatus
  <2>6. Published'
    BY DEF TypeOK, PcOK, Published, Behind, Generations, Locks, InReanalysis, InSetStatus
  <2>7. Told'
    BY DEF TypeOK, PcOK, Told, Published, Generations, Locks, InSetStatus, Empty
  <2>8. QED
    BY <2>1, <2>2, <2>3, <2>4, <2>5, <2>6, <2>7
<1>10. CASE Refuse(a)
  <2> USE <1>10 DEF Refuse, HasLock, NoReaders, Reading, UnlockTo
  <2>1. TypeOK'
    BY DEF TypeOK, PcOK, Locks, InSetStatus, Empty
  <2>2. Locks'
    BY DEF TypeOK, PcOK, Locks, InReanalysis, InSetStatus
  <2>3. Uses'
    BY DEF TypeOK, PcOK, Uses, Locks, InSetStatus
  <2>4. Ownership'
    BY DEF TypeOK, PcOK, Ownership, Carrying, Locks, InReanalysis, InSetStatus
  <2>5. Generations'
    BY DEF TypeOK, PcOK, Generations, Succeeded, Locks, InReanalysis, InSetStatus
  <2>6. Published'
    BY DEF TypeOK, PcOK, Published, Behind, Generations, Locks, InReanalysis, InSetStatus
  <2>7. Told'
    BY DEF TypeOK, PcOK, Told, Published, Generations, Locks, InSetStatus, Empty
  <2>8. QED
    BY <2>1, <2>2, <2>3, <2>4, <2>5, <2>6, <2>7
<1>11. CASE Release(a)
  <2> USE <1>11 DEF Release, Goto
  <2>1. TypeOK'
    <3>1. released \subseteq Nat \ {0} /\ held[a] \in Nat \ {0}
      BY DEF TypeOK, Ownership, Carrying
    <3>2. QED
      BY <3>1 DEF TypeOK, PcOK
  <2>2. Locks'
    BY DEF TypeOK, PcOK, Locks, InReanalysis, InSetStatus
  <2>3. Uses'
    BY DEF TypeOK, PcOK, Uses, Locks, InSetStatus
  <2>4. Ownership'
    <3>1. held[a] # 0 /\ held[a] \in 1..made /\ held[a] # p
      BY DEF TypeOK, Ownership, Carrying
    <3>2. ASSUME NEW b \in Analyzers, b # a
          PROVE  held'[b] = held[b] /\ held[b] = 0
      BY <3>2 DEF TypeOK, Ownership, Carrying, Locks, InReanalysis
    <3>3. held'[a] = 0 /\ 0 \notin released'
      BY <3>1 DEF TypeOK, Ownership
    <3>4. \A b \in Analyzers : held'[b] # 0 <=> pc'[b] \in Carrying
      BY <3>2, <3>3 DEF TypeOK, PcOK, Ownership, Carrying
    <3>5. \A b \in Analyzers : held'[b] = 0
      BY <3>2, <3>3
    <3>6. released' \subseteq 1..made /\ p \notin released'
      BY <3>1 DEF Ownership
    <3>7. \A n \in 1..made : n \in released' \/ n = p
      BY <3>2 DEF Ownership
    <3>8. QED
      BY <3>3, <3>4, <3>5, <3>6, <3>7 DEF TypeOK, Ownership
  <2>5. Generations'
    BY DEF TypeOK, PcOK, Generations, Succeeded, Locks, InReanalysis, InSetStatus
  <2>6. Published'
    BY DEF TypeOK, PcOK, Published, Behind, Generations, Locks, InReanalysis, InSetStatus
  <2>7. Told'
    BY DEF TypeOK, PcOK, Told, Published, Generations, Locks, InSetStatus, Empty
  <2>8. QED
    BY <2>1, <2>2, <2>3, <2>4, <2>5, <2>6, <2>7
<1>12. CASE Return(a)
  <2> USE <1>12 DEF Return, Goto
  <2>1. TypeOK'
    BY DEF TypeOK, PcOK, Locks, InSetStatus, Empty
  <2>2. Locks'
    BY DEF TypeOK, PcOK, Locks, InReanalysis, InSetStatus
  <2>3. Uses'
    BY DEF TypeOK, PcOK, Uses, Locks, InSetStatus
  <2>4. Ownership'
    BY DEF TypeOK, PcOK, Ownership, Carrying, Locks, InReanalysis, InSetStatus
  <2>5. Generations'
    BY DEF TypeOK, PcOK, Generations, Succeeded, Locks, InReanalysis, InSetStatus
  <2>6. Published'
    BY DEF TypeOK, PcOK, Published, Behind, Generations, Locks, InReanalysis, InSetStatus
  <2>7. Told'
    BY DEF TypeOK, PcOK, Told, Published, Generations, Locks, InSetStatus, Empty
  <2>8. QED
    BY <2>1, <2>2, <2>3, <2>4, <2>5, <2>6, <2>7
<1>13. QED
  BY <1>1, <1>2, <1>3, <1>4, <1>5, <1>6, <1>7, <1>8, <1>9, <1>10, <1>11, <1>12 DEF Analyzer

-----------------------------------------------------------------------------
(* A closer's step. *)
LEMMA CloserStep == ASSUME IInv, NEW k \in Closers, Closer(k) PROVE IInv'
<1> USE ProcsAssumption DEF IInv, current, locks, caller, statuses
<1>1. CASE Close(k)
  <2> USE <1>1 DEF Close, Goto
  <2>1. TypeOK'
    BY DEF TypeOK, PcOK, Locks, InSetStatus, Empty
  <2>2. Locks'
    BY DEF TypeOK, PcOK, Locks, InReanalysis, InSetStatus
  <2>3. Uses'
    BY DEF TypeOK, PcOK, Uses, Locks, InSetStatus
  <2>4. Ownership'
    BY DEF TypeOK, PcOK, Ownership, Carrying, Locks, InReanalysis, InSetStatus
  <2>5. Generations'
    BY DEF TypeOK, PcOK, Generations, Succeeded, Locks, InReanalysis, InSetStatus
  <2>6. Published'
    BY DEF TypeOK, PcOK, Published, Behind, Generations, Locks, InReanalysis, InSetStatus
  <2>7. Told'
    BY DEF TypeOK, PcOK, Told, Published, Generations, Locks, InSetStatus, Empty
  <2>8. QED
    BY <2>1, <2>2, <2>3, <2>4, <2>5, <2>6, <2>7
<1>2. CASE LockToClose(k)
  <2> USE <1>2 DEF LockToClose, Announce, Goto
  <2>1. TypeOK'
    BY DEF TypeOK, PcOK, Locks, InSetStatus, Empty
  <2>2. Locks'
    BY DEF TypeOK, PcOK, Locks, InReanalysis, InSetStatus
  <2>3. Uses'
    BY DEF TypeOK, PcOK, Uses, Locks, InSetStatus
  <2>4. Ownership'
    BY DEF TypeOK, PcOK, Ownership, Carrying, Locks, InReanalysis, InSetStatus
  <2>5. Generations'
    BY DEF TypeOK, PcOK, Generations, Succeeded, Locks, InReanalysis, InSetStatus
  <2>6. Published'
    BY DEF TypeOK, PcOK, Published, Behind, Generations, Locks, InReanalysis, InSetStatus
  <2>7. Told'
    BY DEF TypeOK, PcOK, Told, Published, Generations, Locks, InSetStatus, Empty
  <2>8. QED
    BY <2>1, <2>2, <2>3, <2>4, <2>5, <2>6, <2>7
<1>3. CASE CloseCurrent(k)
  <2> USE <1>3 DEF CloseCurrent, HasLock, NoReaders, Reading, UnlockTo
  <2>1. TypeOK'
    BY DEF TypeOK, PcOK, Locks, InSetStatus, Empty
  <2>2. Locks'
    BY DEF TypeOK, PcOK, Locks, InReanalysis, InSetStatus
  <2>3. Uses'
    BY DEF TypeOK, PcOK, Uses, Locks, InSetStatus
  <2>4. Ownership'
    BY DEF TypeOK, PcOK, Ownership, Carrying, Locks, InReanalysis, InSetStatus
  <2>5. Generations'
    BY DEF TypeOK, PcOK, Generations, Succeeded, Locks, InReanalysis, InSetStatus
  <2>6. Published'
    BY DEF TypeOK, PcOK, Published, Behind, Generations, Locks, InReanalysis, InSetStatus
  <2>7. Told'
    BY DEF TypeOK, PcOK, Told, Published, Generations, Locks, InSetStatus, Empty
  <2>8. QED
    BY <2>1, <2>2, <2>3, <2>4, <2>5, <2>6, <2>7
<1>4. CASE AlreadyClosed(k)
  <2> USE <1>4 DEF AlreadyClosed, HasLock, NoReaders, Reading, UnlockTo
  <2>1. TypeOK'
    BY DEF TypeOK, PcOK, Locks, InSetStatus, Empty
  <2>2. Locks'
    BY DEF TypeOK, PcOK, Locks, InReanalysis, InSetStatus
  <2>3. Uses'
    BY DEF TypeOK, PcOK, Uses, Locks, InSetStatus
  <2>4. Ownership'
    BY DEF TypeOK, PcOK, Ownership, Carrying, Locks, InReanalysis, InSetStatus
  <2>5. Generations'
    BY DEF TypeOK, PcOK, Generations, Succeeded, Locks, InReanalysis, InSetStatus
  <2>6. Published'
    BY DEF TypeOK, PcOK, Published, Behind, Generations, Locks, InReanalysis, InSetStatus
  <2>7. Told'
    BY DEF TypeOK, PcOK, Told, Published, Generations, Locks, InSetStatus, Empty
  <2>8. QED
    BY <2>1, <2>2, <2>3, <2>4, <2>5, <2>6, <2>7
<1>5. QED
  BY <1>1, <1>2, <1>3, <1>4 DEF Closer

-----------------------------------------------------------------------------
(* A stream's step. *)
LEMMA StreamStep == ASSUME IInv, NEW s \in Streams, Stream(s) PROVE IInv'
<1> USE ProcsAssumption DEF IInv, current, locks, caller, statuses
<1>1. CASE Subscribe(s)
  <2> USE <1>1 DEF Subscribe, Goto
  <2>1. TypeOK'
    BY DEF TypeOK, PcOK, Locks, InSetStatus, Empty
  <2>2. Locks'
    BY DEF TypeOK, PcOK, Locks, InReanalysis, InSetStatus
  <2>3. Uses'
    BY DEF TypeOK, PcOK, Uses, Locks, InSetStatus
  <2>4. Ownership'
    BY DEF TypeOK, PcOK, Ownership, Carrying, Locks, InReanalysis, InSetStatus
  <2>5. Generations'
    BY DEF TypeOK, PcOK, Generations, Succeeded, Locks, InReanalysis, InSetStatus
  <2>6. Published'
    BY DEF TypeOK, PcOK, Published, Behind, Generations, Locks, InReanalysis, InSetStatus
  <2>7. Told'
    BY DEF TypeOK, PcOK, Told, Published, Generations, Locks, InSetStatus, Empty
  <2>8. QED
    BY <2>1, <2>2, <2>3, <2>4, <2>5, <2>6, <2>7
<1>2. CASE FirstStatus(s)
  <2> USE <1>2 DEF FirstStatus, Goto
  <2>1. TypeOK'
    BY DEF TypeOK, PcOK, Locks, InSetStatus, Empty
  <2>2. Locks'
    BY DEF TypeOK, PcOK, Locks, InReanalysis, InSetStatus
  <2>3. Uses'
    BY DEF TypeOK, PcOK, Uses, Locks, InSetStatus
  <2>4. Ownership'
    BY DEF TypeOK, PcOK, Ownership, Carrying, Locks, InReanalysis, InSetStatus
  <2>5. Generations'
    BY DEF TypeOK, PcOK, Generations, Succeeded, Locks, InReanalysis, InSetStatus
  <2>6. Published'
    BY DEF TypeOK, PcOK, Published, Behind, Generations, Locks, InReanalysis, InSetStatus
  <2>7. Told'
    BY DEF TypeOK, PcOK, Told, Published, Generations, Locks, InSetStatus, Empty
  <2>8. QED
    BY <2>1, <2>2, <2>3, <2>4, <2>5, <2>6, <2>7
<1>3. CASE Take(s)
  <2> USE <1>3 DEF Take, Goto
  <2>1. TypeOK'
    BY DEF TypeOK, PcOK, Locks, InSetStatus, Empty
  <2>2. Locks'
    BY DEF TypeOK, PcOK, Locks, InReanalysis, InSetStatus
  <2>3. Uses'
    BY DEF TypeOK, PcOK, Uses, Locks, InSetStatus
  <2>4. Ownership'
    BY DEF TypeOK, PcOK, Ownership, Carrying, Locks, InReanalysis, InSetStatus
  <2>5. Generations'
    BY DEF TypeOK, PcOK, Generations, Succeeded, Locks, InReanalysis, InSetStatus
  <2>6. Published'
    BY DEF TypeOK, PcOK, Published, Behind, Generations, Locks, InReanalysis, InSetStatus
  <2>7. Told'
    <3>1. chan[s] # Empty /\ s \in subs
      BY DEF TypeOK, PcOK, Told
    <3>2. ASSUME NEW t \in Streams, t # s
          PROVE  chan'[t] = chan[t] /\ out'[t] = out[t] /\ pc'[t] = pc[t]
      BY <3>2 DEF TypeOK, PcOK
    <3>3. chan'[s] = Empty /\ out'[s] = chan[s] /\ pc'[s] = "sending"
      BY DEF TypeOK, PcOK
    <3>4. status.generation \in Nat
      BY DEF TypeOK
    <3>5. QED
      BY <3>1, <3>2, <3>3, <3>4 DEF Told, Empty
  <2>8. QED
    BY <2>1, <2>2, <2>3, <2>4, <2>5, <2>6, <2>7
<1>4. CASE Send(s)
  <2> USE <1>4 DEF Send, Goto
  <2>1. TypeOK'
    BY DEF TypeOK, PcOK, Locks, InSetStatus, Empty
  <2>2. Locks'
    BY DEF TypeOK, PcOK, Locks, InReanalysis, InSetStatus
  <2>3. Uses'
    BY DEF TypeOK, PcOK, Uses, Locks, InSetStatus
  <2>4. Ownership'
    BY DEF TypeOK, PcOK, Ownership, Carrying, Locks, InReanalysis, InSetStatus
  <2>5. Generations'
    BY DEF TypeOK, PcOK, Generations, Succeeded, Locks, InReanalysis, InSetStatus
  <2>6. Published'
    BY DEF TypeOK, PcOK, Published, Behind, Generations, Locks, InReanalysis, InSetStatus
  <2>7. Told'
    BY DEF TypeOK, PcOK, Told, Published, Generations, Locks, InSetStatus, Empty
  <2>8. QED
    BY <2>1, <2>2, <2>3, <2>4, <2>5, <2>6, <2>7
<1>5. CASE Disconnect(s)
  <2> USE <1>5 DEF Disconnect, Goto
  <2>1. TypeOK'
    BY DEF TypeOK, PcOK, Locks, InSetStatus, Empty
  <2>2. Locks'
    BY DEF TypeOK, PcOK, Locks, InReanalysis, InSetStatus
  <2>3. Uses'
    BY DEF TypeOK, PcOK, Uses, Locks, InSetStatus
  <2>4. Ownership'
    BY DEF TypeOK, PcOK, Ownership, Carrying, Locks, InReanalysis, InSetStatus
  <2>5. Generations'
    BY DEF TypeOK, PcOK, Generations, Succeeded, Locks, InReanalysis, InSetStatus
  <2>6. Published'
    BY DEF TypeOK, PcOK, Published, Behind, Generations, Locks, InReanalysis, InSetStatus
  <2>7. Told'
    BY DEF TypeOK, PcOK, Told, Published, Generations, Locks, InSetStatus, Empty
  <2>8. QED
    BY <2>1, <2>2, <2>3, <2>4, <2>5, <2>6, <2>7
<1>6. CASE Unsubscribe(s)
  <2> USE <1>6 DEF Unsubscribe, Goto
  <2>1. TypeOK'
    BY DEF TypeOK, PcOK, Locks, InSetStatus, Empty
  <2>2. Locks'
    BY DEF TypeOK, PcOK, Locks, InReanalysis, InSetStatus
  <2>3. Uses'
    BY DEF TypeOK, PcOK, Uses, Locks, InSetStatus
  <2>4. Ownership'
    BY DEF TypeOK, PcOK, Ownership, Carrying, Locks, InReanalysis, InSetStatus
  <2>5. Generations'
    BY DEF TypeOK, PcOK, Generations, Succeeded, Locks, InReanalysis, InSetStatus
  <2>6. Published'
    BY DEF TypeOK, PcOK, Published, Behind, Generations, Locks, InReanalysis, InSetStatus
  <2>7. Told'
    <3>1. ASSUME NEW t \in Streams, t # s
          PROVE  /\ chan'[t] = chan[t] /\ shown'[t] = shown[t] /\ pc'[t] = pc[t]
                 /\ t \in subs' <=> t \in subs
      BY <3>1 DEF TypeOK, PcOK
    <3>2. chan'[s] = Empty /\ shown'[s] = Empty /\ pc'[s] = "idle" /\ s \notin subs'
      BY DEF TypeOK, PcOK
    <3>3. status.generation \in Nat /\ 0 <= status.generation /\ todo = {}
      BY DEF TypeOK, Told
    <3>4. QED
      BY <3>1, <3>2, <3>3 DEF Told, Empty
  <2>8. QED
    BY <2>1, <2>2, <2>3, <2>4, <2>5, <2>6, <2>7
<1>7. QED
  BY <1>1, <1>2, <1>3, <1>4, <1>5, <1>6 DEF Stream

-----------------------------------------------------------------------------
(* IInv is inductive. *)
LEMMA StepInv == IInv /\ [Next]_vars => IInv'
<1> SUFFICES ASSUME IInv, [Next]_vars PROVE IInv'
  OBVIOUS
<1>1. CASE Next
  BY <1>1, ReaderStep, AnalyzerStep, CloserStep, StreamStep DEF Next
<1>2. CASE UNCHANGED vars
  BY <1>2 DEF vars, IInv, TypeOK, PcOK, Locks, Uses, Ownership, Generations,
              Published, Behind, Told
<1>3. QED
  BY <1>1, <1>2

\* The invariant the others follow from.
THEOREM Invariant == Spec => []IInv
<1>1. Init => IInv
  BY InitInv
<1>2. IInv /\ [Next]_vars => IInv'
  BY StepInv
<1>3. QED
  BY <1>1, <1>2, PTL DEF Spec

\* Every variable keeps its type.
THEOREM TypeCorrect == Spec => []TypeOK
<1>1. IInv => TypeOK
  BY DEF IInv
<1>2. QED
  BY Invariant, <1>1, PTL

\* live.go:96: what With hands to fn stays valid until fn returns.
THEOREM Validity == Spec => []ValidWhileUsed
<1>1. IInv => ValidWhileUsed
  BY DEF IInv, Uses, Ownership, ValidWhileUsed
<1>2. QED
  BY Invariant, <1>1, PTL

\* Every analysis made is released exactly once, or still someone's to release.
THEOREM ReleasedOnce == Spec => []OneOwner
<1>1. IInv => OneOwner
  <2> SUFFICES ASSUME IInv PROVE OneOwner
    OBVIOUS
  <2> USE DEF IInv
  <2>1. 1..made = (released \cup Carried \cup {p}) \ {0}
    <3>1. released \subseteq 1..made /\ 0 \notin released
      BY DEF Ownership
    <3>2. \A n \in Carried : n \in 1..made
      BY DEF TypeOK, Ownership, Carried
    <3>3. p # 0 => p \in 1..made
      BY DEF TypeOK, Ownership
    <3>4. ASSUME NEW n \in 1..made PROVE n \in released \cup Carried \cup {p} /\ n # 0
      BY <3>4 DEF Ownership, Carried
    <3>5. QED
      BY <3>1, <3>2, <3>3, <3>4
  <2>2. Carried \cap released = {} /\ p \notin Carried
    BY DEF Ownership, Carried
  <2>3. ASSUME NEW a \in Analyzers, NEW b \in Analyzers, held[a] # 0, held[b] # 0
        PROVE  a = b
    BY <2>3 DEF Ownership, Carrying, Locks, InReanalysis
  <2>4. QED
    BY <2>1, <2>2, <2>3 DEF OneOwner
<1>2. QED
  BY Invariant, <1>1, PTL

\* The generation is that of the current analysis, and the status reports it
\* but for the moment between the swap and its publication.
THEOREM GenerationCorrect == Spec => []GenerationNamesCurrent
<1>1. IInv => GenerationNamesCurrent
  BY DEF IInv, TypeOK, Generations, Published, Behind, GenerationNamesCurrent
<1>2. QED
  BY Invariant, <1>1, PTL

\* A client that was told of a generation finds it, or a newer one, current.
THEOREM NoticeCorrect == Spec => []NoticeAfterSwap
<1>1. IInv => NoticeAfterSwap
  BY DEF IInv, TypeOK, Generations, Published, Told, NoticeAfterSwap
<1>2. QED
  BY Invariant, <1>1, PTL

\* A stream with nothing left to send has shown the status as it is now.
THEOREM StreamsCurrent == Spec => [](QuietStreamIsCurrent /\ ChannelIsCurrent)
<1>1. IInv => QuietStreamIsCurrent /\ ChannelIsCurrent
  BY DEF IInv, TypeOK, Told, QuietStreamIsCurrent, ChannelIsCurrent
<1>2. QED
  BY Invariant, <1>1, PTL

\* The reanalyze tool and the watcher report on their own analysis or a newer one.
THEOREM ReportsCorrect == Spec => []ReportsOwnOrNewer
<1>1. IInv => ReportsOwnOrNewer
  BY DEF IInv, TypeOK, Uses, Generations, ReportsOwnOrNewer
<1>2. QED
  BY Invariant, <1>1, PTL

-----------------------------------------------------------------------------
(* Every step is a step of Holder, or changes nothing Holder sees. *)
LEMMA HolderStep == IInv /\ IInv' /\ [Next]_vars => [H!Next]_(H!vars)
<1> SUFFICES ASSUME IInv, IInv', [Next]_vars PROVE [H!Next]_(H!vars)
  OBVIOUS
<1> USE DEF H!vars, current, locks, caller, statuses
<1> DEFINE Same == UNCHANGED <<p, using, released>>
<1>1. Same => UNCHANGED H!vars
  OBVIOUS
<1>2. ASSUME NEW c \in Callers, Enter(c) PROVE H!Use(c)
  BY <1>2 DEF IInv, TypeOK, Uses, Enter, H!Use
<1>3. ASSUME NEW c \in Callers, Leave(c) PROVE H!Done(c)
  BY <1>3 DEF IInv, TypeOK, Uses, Leave, H!Done
<1>4. ASSUME NEW c \in Callers, RLock(c) \/ Answer(c) PROVE Same
  BY <1>4 DEF RLock, Answer
<1>5. NoReaders => H!InUse = {}
  BY DEF NoReaders, Reading, IInv, Uses, H!InUse
<1>6. ASSUME NEW a \in Analyzers, Swap(a) PROVE H!Replace
  BY <1>5, <1>6 DEF IInv, TypeOK, Generations, Swap, HasLock, H!Replace
<1>7. ASSUME NEW a \in Analyzers, Release(a) PROVE \E n \in 1..MaxAnalyses : H!Retire(n)
  <2>1. held[a] \in 1..MaxAnalyses
    BY <1>7, MaxAssumption DEF Release, IInv, TypeOK, Ownership, Carrying
  <2>2. held[a] # 0 /\ held[a] # p /\ held[a] \notin released
    BY <1>7 DEF Release, IInv, Ownership, Carrying
  <2>3. held[a] \notin H!InUse
    BY <2>2 DEF IInv, Uses, H!InUse
  <2>4. QED
    BY <1>7, <2>1, <2>2, <2>3 DEF Release, H!Retire
<1>8. ASSUME NEW a \in Analyzers, Analyzer(a) PROVE Swap(a) \/ Release(a) \/ Same
  BY <1>8 DEF Analyzer, Reanalyze, LockReanalyzing, SetStatus, Notify, EndStatus,
     AnalyzeFails, AnalyzeSucceeds, LockToSwap, Refuse, Return
<1>9. ASSUME NEW k \in Closers, CloseCurrent(k) PROVE H!Close
  BY <1>5, <1>9 DEF IInv, Ownership, CloseCurrent, HasLock, H!Close
<1>10. ASSUME NEW k \in Closers, Close(k) \/ LockToClose(k) \/ AlreadyClosed(k) PROVE Same
  BY <1>10 DEF Close, LockToClose, AlreadyClosed
<1>11. ASSUME NEW s \in Streams, Stream(s) PROVE Same
  BY <1>11 DEF Stream, Subscribe, FirstStatus, Take, Send, Disconnect, Unsubscribe
<1>12. CASE UNCHANGED vars
  BY <1>12 DEF vars
<1>13. CASE Next
  BY <1>1, <1>2, <1>3, <1>4, <1>6, <1>7, <1>8, <1>9, <1>10, <1>11, <1>13
     DEF Next, Reader, Closer, H!Next
<1>14. QED
  BY <1>12, <1>13

\* Live implements the promise of its package comment.
THEOREM Implementation == Spec => ImplementsHolder
<1>1. Init => H!Init
  BY DEF Init, H!Init
<1>2. IInv /\ IInv' /\ [Next]_vars => [H!Next]_(H!vars)
  BY HolderStep
<1>3. QED
  BY Invariant, <1>1, <1>2, PTL DEF Spec, H!Spec, ImplementsHolder

-----------------------------------------------------------------------------
\* live.go:17: what is current changes only when no caller is inside With.
THEOREM SwapsWait == Spec => SwapsBetweenReaders
<1>1. IInv /\ [Next]_vars
        => [p' # p => \A c \in Callers : using[c] = 0 /\ using'[c] = 0]_vars
  <2> SUFFICES ASSUME IInv, [Next]_vars, p' # p
               PROVE  \A c \in Callers : using[c] = 0 /\ using'[c] = 0
    OBVIOUS
  <2>1. \/ \E a \in Analyzers : Swap(a)
        \/ \E k \in Closers : CloseCurrent(k)
    BY DEF Next, vars, Reader, RLock, Enter, Answer, Leave, Analyzer, Reanalyze,
       LockReanalyzing, SetStatus, Notify, EndStatus, AnalyzeFails, AnalyzeSucceeds,
       LockToSwap, Refuse, Release, Return, Closer, Close, LockToClose, AlreadyClosed,
       Stream, Subscribe, FirstStatus, Take, Send, Disconnect, Unsubscribe,
       current, statuses
  <2>2. NoReaders /\ using' = using
    BY <2>1 DEF Swap, CloseCurrent, HasLock, caller
  <2>3. QED
    BY <2>2 DEF NoReaders, Reading, IInv, Uses
<1>2. QED
  BY Invariant, <1>1, PTL DEF Spec, SwapsBetweenReaders

\* While a client stays connected it never sees the generation go back.
THEOREM StreamsForward == Spec => StreamGoesForward
<1>1. IInv /\ [Next]_vars
        => [\A s \in Streams : pc[s] \notin {"leaving", "idle"} =>
              shown[s].generation <= shown'[s].generation]_vars
  <2> SUFFICES ASSUME IInv, [Next]_vars, NEW s \in Streams,
                      pc[s] \notin {"leaving", "idle"}
               PROVE  shown[s].generation <= shown'[s].generation
    OBVIOUS
  <2>1. shown[s].generation \in Nat
    BY DEF IInv, TypeOK
  <2>2. CASE \E t \in Streams : Send(t)
    <3>1. PICK t \in Streams : Send(t)
      BY <2>2
    <3>2. CASE t = s
      BY <3>1, <3>2 DEF Send, IInv, TypeOK, Told
    <3>3. CASE t # s
      BY <2>1, <3>1, <3>3 DEF Send, IInv, TypeOK
    <3>4. QED
      BY <3>2, <3>3
  <2>3. CASE \E t \in Streams : Unsubscribe(t)
    <3>1. PICK t \in Streams : Unsubscribe(t)
      BY <2>3
    <3>2. t # s /\ shown'[s] = shown[s]
      BY <3>1 DEF Unsubscribe, IInv, TypeOK
    <3>3. QED
      BY <2>1, <3>2
  <2>4. CASE UNCHANGED shown
    BY <2>1, <2>4
  <2>5. QED
    BY <2>2, <2>3, <2>4 DEF Next, vars, Reader, RLock, Enter, Answer, Leave, Analyzer,
       Reanalyze, LockReanalyzing, SetStatus, Notify, EndStatus, AnalyzeFails,
       AnalyzeSucceeds, LockToSwap, Swap, Refuse, Release, Return, Closer, Close,
       LockToClose, CloseCurrent, AlreadyClosed, Stream, Subscribe, FirstStatus, Take,
       Disconnect, statuses
<1>2. QED
  BY Invariant, <1>1, PTL DEF Spec, StreamGoesForward

-----------------------------------------------------------------------------
(* Analyzing is inductive beside IInv: at most one analyzer shows. *)
LEMMA StepAnalyzing == IInv /\ Analyzing /\ [Next]_vars => Analyzing'
<1> SUFFICES ASSUME IInv, Analyzing, [Next]_vars, p' # 0 PROVE Analyzing'
  BY DEF Analyzing
<1> USE ProcsAssumption DEF current, locks, caller, statuses
<1>1. \A a, b \in Analyzers : Shows(a) /\ pc[b] \in InReanalysis => a = b
  BY DEF IInv, Locks, Shows, InReanalysis
<1>2. ASSUME UNCHANGED <<p, status>>, \A a \in Analyzers : Shows(a)' <=> Shows(a)
      PROVE  Analyzing'
  BY <1>2 DEF Analyzing
<1>3. ASSUME NEW c \in Callers, Reader(c) PROVE Analyzing'
  <2>1. \A a \in Analyzers : a # c => pc'[a] = pc[a]
    BY <1>3 DEF Reader, RLock, Enter, Answer, Leave, Goto, IInv, TypeOK, PcOK
  <2>2. c \in Analyzers => ~Shows(c) /\ ~Shows(c)'
    BY <1>3 DEF Reader, RLock, MayRead, Enter, Answer, Leave, Goto, IInv, TypeOK, PcOK, Shows
  <2>3. UNCHANGED <<p, status, statusMu>>
    BY <1>3 DEF Reader, RLock, Enter, Answer, Leave
  <2>4. \A a \in Analyzers : Shows(a)' <=> Shows(a)
    BY <2>1, <2>2, <2>3 DEF Shows
  <2>5. QED
    BY <1>2, <2>3, <2>4
<1>4. ASSUME NEW a \in Analyzers, Analyzer(a) PROVE Analyzing'
  <2>1. \A b \in Analyzers :
          b # a => pc'[b] = pc[b] \/ (pc[b] = "waiting" /\ pc'[b] = "locked")
    <3> USE DEF IInv, TypeOK, PcOK
    <3>1. CASE Reanalyze(a) \/ LockReanalyzing(a) \/ Release(a) \/ Return(a)
      BY <3>1 DEF Reanalyze, LockReanalyzing, Release, Return, Goto
    <3>2. CASE AnalyzeFails(a) \/ AnalyzeSucceeds(a) \/ LockToSwap(a)
      BY <3>2 DEF AnalyzeFails, AnalyzeSucceeds, LockToSwap, Goto
    <3>3. CASE SetStatus(a) \/ \E s \in Streams : Notify(a, s)
      BY <3>3 DEF SetStatus, Notify
    <3>4. CASE EndStatus(a)
      BY <3>4 DEF EndStatus, Goto
    <3>5. CASE Swap(a) \/ Refuse(a)
      BY <3>5, ProcsAssumption DEF Swap, Refuse, UnlockTo
    <3>6. QED
      BY <1>4, <3>1, <3>2, <3>3, <3>4, <3>5 DEF Analyzer
  <2>2. ASSUME Reanalyze(a) \/ LockReanalyzing(a) \/ Release(a) \/ Return(a) PROVE Analyzing'
    <3>1. ~Shows(a) /\ ~Shows(a)' /\ UNCHANGED <<p, status, statusMu>>
      BY <2>2 DEF Reanalyze, LockReanalyzing, Release, Return, Goto, IInv, TypeOK, PcOK,
         Locks, InSetStatus, Shows
    <3>2. QED
      BY <1>2, <2>1, <3>1 DEF Shows
  <2>3. ASSUME AnalyzeFails(a) \/ AnalyzeSucceeds(a) \/ LockToSwap(a) PROVE Analyzing'
    <3>1. Shows(a) /\ Shows(a)' /\ UNCHANGED <<p, status, statusMu>>
      BY <2>3 DEF AnalyzeFails, AnalyzeSucceeds, LockToSwap, Announce, Goto, IInv, TypeOK,
         PcOK, Locks, InSetStatus, Shows
    <3>2. QED
      BY <1>2, <2>1, <3>1 DEF Shows
  <2>4. ASSUME Swap(a) PROVE Analyzing'
    <3>1. Shows(a) /\ Shows(a)' /\ UNCHANGED <<status, statusMu>> /\ p # 0
      BY <2>4 DEF Swap, UnlockTo, IInv, TypeOK, PcOK, Locks, InSetStatus, Shows
    <3>2. QED
      BY <3>1 DEF Analyzing
  <2>5. ASSUME NEW s \in Streams, Notify(a, s) PROVE Analyzing'
    BY <1>2, <2>5 DEF Notify, Shows
  <2>6. ASSUME SetStatus(a) PROVE Analyzing'
    <3>1. pc[a] \in InSetStatus /\ statusMu = Nobody /\ statusMu' = a /\ UNCHANGED <<p, pc>>
      BY <2>6 DEF SetStatus, InSetStatus
    <3>2. \A b \in Analyzers : b # a => ~Shows(b)'
      BY <1>1, <3>1 DEF Shows, InReanalysis, InSetStatus
    <3>3. status'.analyzing <=> pc[a] = "mark"
      BY <2>6, <3>1 DEF SetStatus, Updated, IInv, TypeOK
    <3>4. Shows(a)' <=> pc[a] = "mark"
      BY <3>1 DEF Shows, InSetStatus
    <3>5. QED
      BY <3>2, <3>3, <3>4 DEF Analyzing
  <2>7. ASSUME EndStatus(a) PROVE Analyzing'
    <3>1. /\ statusMu = a /\ statusMu' = Nobody /\ UNCHANGED <<p, status>>
          /\ pc[a] \in InSetStatus
      BY <2>7 DEF EndStatus, IInv, Locks
    <3>2. Shows(a)' <=> Shows(a)
      BY <2>7, <3>1 DEF EndStatus, Goto, InSetStatus, IInv, TypeOK, PcOK, Shows
    <3>3. \A b \in Analyzers : b # a => ~Shows(b) /\ ~Shows(b)'
      BY <1>1, <2>1, <3>1 DEF Shows, InReanalysis, InSetStatus
    <3>4. QED
      BY <1>2, <3>1, <3>2, <3>3
  <2>8. ASSUME Refuse(a) PROVE Analyzing'
    BY <2>8 DEF Refuse
  <2>9. QED
    BY <1>4, <2>2, <2>3, <2>4, <2>5, <2>6, <2>7, <2>8 DEF Analyzer
<1>5. ASSUME NEW k \in Closers, Closer(k) PROVE Analyzing'
  <2>1. UNCHANGED <<p, status, statusMu>>
    BY <1>5 DEF Closer, Close, LockToClose, CloseCurrent, AlreadyClosed
  <2>2. \A a \in Analyzers : pc'[a] = pc[a]
    BY <1>5 DEF Closer, Close, LockToClose, Announce, CloseCurrent, AlreadyClosed, UnlockTo,
       Goto, IInv, TypeOK, PcOK, Locks
  <2>3. QED
    BY <1>2, <2>1, <2>2 DEF Shows
<1>6. ASSUME NEW s \in Streams, Stream(s) PROVE Analyzing'
  <2>1. UNCHANGED <<p, status, statusMu>> /\ \A a \in Analyzers : pc'[a] = pc[a]
    BY <1>6 DEF Stream, Subscribe, FirstStatus, Take, Send, Disconnect, Unsubscribe, Goto,
       IInv, TypeOK, PcOK
  <2>2. QED
    BY <1>2, <2>1 DEF Shows
<1>7. ASSUME UNCHANGED vars PROVE Analyzing'
  BY <1>2, <1>7 DEF vars, Shows
<1>8. QED
  BY <1>3, <1>4, <1>5, <1>6, <1>7 DEF Next

\* live.go:37: until Close, a status that says "analyzing" is about an analyzer
\* at work, and one at work is shown.
THEOREM AnalyzingCorrect == Spec => []AnalyzingWhileAtWork
<1>1. Init => Analyzing
  BY ProcsAssumption DEF Init, Analyzing, Shows
<1>2. IInv /\ Analyzing => AnalyzingWhileAtWork
  BY ProcsAssumption DEF IInv, TypeOK, Locks, InReanalysis, InSetStatus, Analyzing, Shows,
     Working, AnalyzingWhileAtWork
<1>3. QED
  BY Invariant, StepAnalyzing, <1>1, <1>2, PTL DEF Spec

=============================================================================
