-------------------------- MODULE ActionInboxProofs --------------------------
(***************************************************************************)
(* Proofs about ActionInbox, for any disputes, managers and refreshes.     *)
(*                                                                         *)
(* AnsweredOnce follows from the types: every write of an item looks at    *)
(* its status, or is a refresh's of what it had to resolve.                *)
(* SweepIsAccurate needs what a refresh that nobody disturbed has gathered *)
(* so far, Gathered.                                                       *)
(***************************************************************************)
EXTENDS ActionInbox, TLAPS

-----------------------------------------------------------------------------
\* What an undisturbed refresh has found, and has left to write, is what there is to find
\* and to write.
Gathered(s) ==
    /\ sweep[s].at = "detect" =>
          \A k : k \in sweep[s].found <=> \E t \in Tables \ sweep[s].todo : k \in Detected(t)
    /\ sweep[s].at = "read" => \A k : k \in sweep[s].found <=> k \in Conditions
    /\ sweep[s].at = "write" =>
          \A k : /\ k \in sweep[s].new <=> k \in Conditions /\ item[k].status = "none"
                 /\ k \in sweep[s].stale <=> k \in Open /\ k \notin Conditions

GatheredInv == \A s \in Sweeps : undisturbed[s] => Gathered(s)

InboxInv == InboxTypeOK /\ GatheredInv

-----------------------------------------------------------------------------
LEMMA DetectedIsKeys == ASSUME NEW t \in Tables PROVE Detected(t) \in SUBSET Keys
  BY DEF Tables, Detected, Keys, Kinds

LEMMA InboxInit == Init => InboxInv
  BY DEF Init, InboxInv, InboxTypeOK, GatheredInv, Item, Sweep, NoSweep, Answer, NoAnswer

\* What a refresh holds, by how far it is.
LEMMA SweepAt ==
  ASSUME InboxTypeOK, NEW s \in Sweeps
  PROVE  /\ sweep[s].at = "detect" => sweep[s] \in [at : {"detect"}, todo : SUBSET Tables,
                                                   found : SUBSET Keys]
         /\ sweep[s].at = "read" => sweep[s] \in [at : {"read"}, found : SUBSET Keys]
         /\ sweep[s].at = "write" => sweep[s] \in [at : {"write"}, new : SUBSET Keys,
                                                  stale : SUBSET Keys]
<1>1. sweep[s] \in Sweep
  BY DEF InboxTypeOK
<1> QED
  BY <1>1 DEF Sweep, NoSweep, Over

\* The steps of a refresh keep the types of what they write.
LEMMA SweepTyped ==
  ASSUME InboxTypeOK, NEW s \in Sweeps, SweepNext(s)
  PROVE  item' \in [Keys -> Item] /\ sweep' \in [Sweeps -> Sweep]
<1> USE DEF InboxTypeOK
<1>1. CASE BeginSweep(s)
  BY <1>1 DEF BeginSweep, Sweep
<1>2. CASE Detect(s)
  <2>1. sweep[s] \in [at : {"detect"}, todo : SUBSET Tables, found : SUBSET Keys]
    BY <1>2, SweepAt DEF Detect
  <2>2. PICK t \in sweep[s].todo :
           LET found == sweep[s].found \cup Detected(t)
               todo == sweep[s].todo \ {t}
           IN  sweep' = [sweep EXCEPT ![s] =
                            IF todo = {} THEN [at |-> "read", found |-> found]
                            ELSE [at |-> "detect", todo |-> todo, found |-> found]]
    BY <1>2 DEF Detect
  <2>3. sweep[s].found \cup Detected(t) \in SUBSET Keys /\ sweep[s].todo \ {t} \in SUBSET Tables
    BY <2>1, DetectedIsKeys
  <2> QED
    BY <1>2, <2>2, <2>3 DEF Detect, Sweep
<1>3. CASE ReadItems(s)
  <2>1. sweep[s] \in [at : {"read"}, found : SUBSET Keys]
    BY <1>3, SweepAt DEF ReadItems
  <2>2. New(sweep[s].found) \in SUBSET Keys /\ Stale(sweep[s].found) \in SUBSET Keys
    BY <2>1 DEF New, Stale, Open
  <2> QED
    BY <1>3, <2>2 DEF ReadItems, Sweep
<1>4. CASE CreateItem(s) \/ AutoResolve(s)
  <2>1. sweep[s] \in [at : {"write"}, new : SUBSET Keys, stale : SUBSET Keys]
    BY <1>4, SweepAt DEF CreateItem, AutoResolve
  <2>2. PICK k \in Keys :
           /\ \/ item' = [item EXCEPT ![k].status = "OPEN"]
              \/ item' = [item EXCEPT ![k] = AutoResolved(k)]
              \/ item' = item
           /\ \/ sweep' = [sweep EXCEPT ![s].new = @ \ {k}]
              \/ sweep' = [sweep EXCEPT ![s].stale = @ \ {k}]
              \/ sweep' = [sweep EXCEPT ![s] = Over]
    <3>1. CASE CreateItem(s)
      BY <2>1, <3>1 DEF CreateItem
    <3>2. CASE AutoResolve(s)
      BY <2>1, <3>2 DEF AutoResolve
    <3> QED
      BY <1>4, <3>1, <3>2
  <2>3. item' \in [Keys -> Item]
    <3>1. item[k] \in Item
      OBVIOUS
    <3>2. [item[k] EXCEPT !.status = "OPEN"] \in Item /\ AutoResolved(k) \in Item
      BY <3>1 DEF Item, AutoResolved
    <3>3. item' = [item EXCEPT ![k].status = "OPEN"]
             => item' = [item EXCEPT ![k] = [item[k] EXCEPT !.status = "OPEN"]]
      OBVIOUS
    <3> QED
      BY <2>2, <3>2, <3>3
  <2>4. sweep' \in [Sweeps -> Sweep]
    <3>1. \/ sweep' = [sweep EXCEPT ![s] = [sweep[s] EXCEPT !.new = sweep[s].new \ {k}]]
          \/ sweep' = [sweep EXCEPT ![s] = [sweep[s] EXCEPT !.stale = sweep[s].stale \ {k}]]
          \/ sweep' = [sweep EXCEPT ![s] = Over]
      BY <2>2
    <3>2. /\ [sweep[s] EXCEPT !.new = sweep[s].new \ {k}] \in Sweep
          /\ [sweep[s] EXCEPT !.stale = sweep[s].stale \ {k}] \in Sweep
          /\ Over \in Sweep
      BY <2>1 DEF Sweep
    <3> QED
      BY <3>1, <3>2
  <2> QED
    BY <2>3, <2>4
<1>5. CASE EndSweep(s)
  BY <1>5 DEF EndSweep, Sweep
<1> QED
  BY <1>1, <1>2, <1>3, <1>4, <1>5 DEF SweepNext

LEMMA AnswerTyped ==
  ASSUME InboxTypeOK, NEW m \in Managers, AnswerNext(m)
  PROVE  item' \in [Keys -> Item] /\ desk' \in [Managers -> Answer]
<1> USE DEF InboxTypeOK
<1>1. ASSUME NEW k \in Keys, BeginAnswer(m, k)
      PROVE  item' \in [Keys -> Item] /\ desk' \in [Managers -> Answer]
  BY <1>1 DEF BeginAnswer, Answer
<1>2. CASE CommitAnswer(m)
  <2>1. desk' \in [Managers -> Answer]
    BY <1>2 DEF CommitAnswer, Answer
  <2>2. \/ item' = item
        \/ \E st \in Targets : item' = [item EXCEPT ![desk[m].key] = [status |-> st, by |-> m]]
    BY <1>2 DEF CommitAnswer
  <2>3. \A st \in Targets : [status |-> st, by |-> m] \in Item
    BY DEF Targets, Item
  <2> QED
    BY <2>1, <2>2, <2>3
<1> QED
  BY <1>1, <1>2 DEF AnswerNext

LEMMA InboxTyped == InboxTypeOK /\ [Next]_vars => InboxTypeOK'
<1> SUFFICES ASSUME InboxTypeOK, [Next]_vars
             PROVE  InboxTypeOK'
  OBVIOUS
<1>1. CASE /\ WorldNext
           /\ undisturbed' = [s \in Sweeps |-> FALSE]
           /\ UNCHANGED <<item, sweep, desk>>
  BY <1>1 DEF InboxTypeOK, WorldNext, Tick, Staff, Close, Distribute, MoveDispute
<1>2. CASE /\ \E m \in Managers : AnswerNext(m)
           /\ undisturbed' = [s \in Sweeps |-> FALSE]
           /\ UNCHANGED <<worldVars, sweep>>
  BY <1>2, AnswerTyped DEF InboxTypeOK, worldVars
<1>3. ASSUME NEW s \in Sweeps,
             SweepNext(s),
             undisturbed' = [t \in Sweeps |-> /\ t = s /\ sweep'[t] # Over
                                              /\ (undisturbed[t] \/ sweep[t] = NoSweep)],
             UNCHANGED <<worldVars, desk>>
      PROVE  InboxTypeOK'
  <2>1. undisturbed' \in [Sweeps -> BOOLEAN]
    BY <1>3
  <2> QED
    BY <1>3, <2>1, SweepTyped DEF InboxTypeOK, worldVars
<1>4. CASE UNCHANGED vars
  BY <1>4 DEF InboxTypeOK, vars, worldVars, inboxVars
<1> QED
  BY <1>1, <1>2, <1>3, <1>4 DEF Next

-----------------------------------------------------------------------------
\* An item in use changes only if it is open, or by a refresh that had it to resolve.
LEMMA AnswerKept ==
  ASSUME InboxTypeOK, [Next]_vars, NEW k \in Keys, item[k].status \in {"RESOLVED", "DISMISSED"}
  PROVE  \/ item'[k] = item[k]
         \/ /\ item'[k] = [status |-> "RESOLVED", by |-> None]
            /\ \E s \in Sweeps : ToResolve(s, k) /\ ~ToResolve(s, k)'
<1>1. ASSUME NEW s \in Sweeps, SweepNext(s), item'[k] # item[k]
      PROVE  item'[k] = AutoResolved(k) /\ ToResolve(s, k) /\ ~ToResolve(s, k)'
  <2>1. AutoResolve(s)
    BY <1>1 DEF InboxTypeOK, SweepNext, BeginSweep, Detect, ReadItems, CreateItem, EndSweep
  <2>2. PICK j \in sweep[s].stale :
           /\ item' = [item EXCEPT ![j] = AutoResolved(j)]
           /\ sweep' = [sweep EXCEPT ![s].stale = @ \ {j}]
    BY <2>1 DEF AutoResolve
  <2>3. j = k /\ item'[k] = AutoResolved(k)
    BY <1>1, <2>2 DEF InboxTypeOK
  <2>4. sweep[s] \in [at : {"write"}, new : SUBSET Keys, stale : SUBSET Keys]
    BY <2>1, SweepAt DEF AutoResolve
  <2>5. sweep'[s].stale = sweep[s].stale \ {k}
    BY <2>2, <2>3, <2>4 DEF InboxTypeOK
  <2> QED
    BY <2>2, <2>3, <2>4, <2>5 DEF ToResolve
<1>2. ASSUME NEW m \in Managers, AnswerNext(m)
      PROVE  item'[k] = item[k]
  BY <1>2 DEF InboxTypeOK, AnswerNext, BeginAnswer, CommitAnswer, ItemStillOpen
<1> QED
  BY <1>1, <1>2 DEF Next, vars, inboxVars, AutoResolved

\* The updates of refreshes and managers overlap at will (action-inbox.service.ts,
\* action-inbox-detectors.service.ts:110-160), and still an item that was answered or resolved
\* changes only by the update of a refresh that had found it open and writes it once.
THEOREM ItemsAnsweredOnce == Spec => AnsweredOnce
<1>1. Spec => []InboxTypeOK
  <2>1. Init => InboxTypeOK
    BY InboxInit DEF InboxInv
  <2> QED
    BY <2>1, InboxTyped, PTL DEF Spec
<1>2. InboxTypeOK /\ [Next]_vars =>
        [\A k \in Keys : item[k].status \in {"RESOLVED", "DISMISSED"} =>
            \/ item'[k] = item[k]
            \/ /\ item'[k] = [status |-> "RESOLVED", by |-> None]
               /\ \E s \in Sweeps : ToResolve(s, k) /\ ~ToResolve(s, k)']_vars
  BY AnswerKept
<1> QED
  BY <1>1, <1>2, PTL DEF Spec, AnsweredOnce

-----------------------------------------------------------------------------
(* The undisturbed refresh *)

LEMMA ConditionsAre ==
  /\ \A k : k \in Conditions <=> \E t \in Tables : k \in Detected(t)
  /\ Conditions \in SUBSET Keys
<1>1. \A k : k \in Conditions <=> \E t \in Tables : k \in Detected(t)
  BY DEF Conditions
<1> QED
  BY <1>1, DetectedIsKeys

\* The detectors go on finding what they found while nothing they read moves.
LEMMA WorldStands ==
  ASSUME UNCHANGED worldVars
  PROVE  /\ \A t \in Tables : \A k : k \in Detected(t)' <=> k \in Detected(t)
         /\ \A k : k \in Conditions' <=> k \in Conditions
<1>1. UNCHANGED <<shift, when, pool, dispute>>
  BY DEF worldVars
<1>2. ASSUME NEW t \in Tables, NEW k
      PROVE  k \in Detected(t)' <=> k \in Detected(t)
  <2>1. CASE t = "shifts"
    BY <1>1, <2>1 DEF Detected, Missing, Unassigned, CloseOverdue
  <2>2. CASE t = "tip_pools"
    BY <1>1, <2>2 DEF Detected
  <2>3. CASE t = "tip_disputes"
    BY <1>1, <2>3 DEF Detected
  <2> QED
    BY <2>1, <2>2, <2>3 DEF Tables
<1>3. \A k : k \in Conditions' <=> k \in Conditions
  BY <1>2, ConditionsAre, \A k : k \in Conditions' <=> \E t \in Tables : k \in Detected(t)'
  DEF Conditions
<1> QED
  BY <1>2, <1>3

LEMMA GatheredKept == InboxInv /\ [Next]_vars => GatheredInv'
<1> SUFFICES ASSUME InboxInv, [Next]_vars, NEW s \in Sweeps, undisturbed'[s]
             PROVE  Gathered(s)'
  BY DEF GatheredInv
<1>0. InboxTypeOK /\ item \in [Keys -> Item] /\ sweep \in [Sweeps -> Sweep]
                  /\ undisturbed \in [Sweeps -> BOOLEAN]
  BY DEF InboxInv, InboxTypeOK
<1>1. CASE UNCHANGED vars
  <2>1. undisturbed[s] /\ sweep' = sweep /\ item' = item /\ UNCHANGED worldVars
    BY <1>1 DEF vars, inboxVars
  <2>2. Gathered(s)
    BY <2>1 DEF InboxInv, GatheredInv
  <2> QED
    BY <2>1, <2>2, WorldStands DEF Gathered, Open
<1>2. CASE ~UNCHANGED vars
  <2>1. /\ SweepNext(s)
        /\ sweep'[s] # Over
        /\ undisturbed[s] \/ sweep[s] = NoSweep
        /\ UNCHANGED worldVars
    BY <1>2 DEF Next
  <2>2. /\ \A t \in Tables : \A k : k \in Detected(t)' <=> k \in Detected(t)
        /\ \A k : k \in Conditions' <=> k \in Conditions
    BY <2>1, WorldStands
  <2>3. CASE BeginSweep(s)
    <3>1. sweep'[s] = [at |-> "detect", todo |-> Tables, found |-> {}]
      BY <1>0, <2>3 DEF BeginSweep
    <3>2. sweep'[s].at = "detect" /\ sweep'[s].todo = Tables /\ sweep'[s].found = {}
      BY <3>1
    <3> QED
      BY <3>2 DEF Gathered
  <2>4. sweep[s] # NoSweep => Gathered(s)
    BY <2>1 DEF InboxInv, GatheredInv
  <2>5. CASE Detect(s)
    <3>1. sweep[s].at = "detect" /\ sweep[s].todo \in SUBSET Tables /\ Gathered(s)
      BY <1>0, <2>4, <2>5, SweepAt DEF Detect, NoSweep
    <3>2. \A k : k \in sweep[s].found <=> \E t \in Tables \ sweep[s].todo : k \in Detected(t)
      BY <3>1 DEF Gathered
    <3>3. PICK t \in sweep[s].todo :
             LET found == sweep[s].found \cup Detected(t)
                 todo == sweep[s].todo \ {t}
             IN  sweep' = [sweep EXCEPT ![s] =
                              IF todo = {} THEN [at |-> "read", found |-> found]
                              ELSE [at |-> "detect", todo |-> todo, found |-> found]]
      BY <2>5 DEF Detect
    <3> DEFINE found == sweep[s].found \cup Detected(t)
               todo == sweep[s].todo \ {t}
    <3>4. \A k : k \in found <=> \E u \in Tables \ todo : k \in Detected(u)
      BY <3>1, <3>2
    <3>5. CASE todo = {}
      <4>1. sweep'[s] = [at |-> "read", found |-> found]
        BY <1>0, <3>3, <3>5
      <4>2. sweep'[s].at = "read" /\ sweep'[s].found = found
        BY <4>1
      <4>3. \A k : k \in found <=> k \in Conditions
        BY <3>4, <3>5, ConditionsAre
      <4> QED
        BY <2>2, <4>2, <4>3 DEF Gathered
    <3>6. CASE todo # {}
      <4>1. sweep'[s] = [at |-> "detect", todo |-> todo, found |-> found]
        BY <1>0, <3>3, <3>6
      <4>2. sweep'[s].at = "detect" /\ sweep'[s].todo = todo /\ sweep'[s].found = found
        BY <4>1
      <4>3. \A k : k \in found <=> \E u \in Tables \ todo : k \in Detected(u)'
        BY <2>2, <3>4
      <4> HIDE DEF found, todo
      <4> QED
        BY <4>2, <4>3 DEF Gathered
    <3> QED
      BY <3>5, <3>6
  <2>6. CASE ReadItems(s)
    <3>1. sweep[s].at = "read" /\ Gathered(s)
      BY <2>4, <2>6 DEF ReadItems, NoSweep
    <3>2. /\ sweep'[s].at = "write"
          /\ sweep'[s].new = New(sweep[s].found)
          /\ sweep'[s].stale = Stale(sweep[s].found)
          /\ item' = item
      BY <1>0, <2>6 DEF ReadItems
    <3>3. \A k : k \in sweep[s].found <=> k \in Conditions
      BY <3>1 DEF Gathered
    <3> QED
      BY <2>2, <3>2, <3>3 DEF Gathered, New, Stale, Open
  <2>7. CASE CreateItem(s)
    <3>1. sweep[s].at = "write" /\ Gathered(s)
      BY <2>4, <2>7 DEF CreateItem, NoSweep
    <3>2. /\ sweep[s] \in [at : {"write"}, new : SUBSET Keys, stale : SUBSET Keys]
          /\ \A k : /\ k \in sweep[s].new <=> k \in Conditions /\ item[k].status = "none"
                    /\ k \in sweep[s].stale <=> k \in Open /\ k \notin Conditions
      BY <1>0, <3>1, SweepAt DEF Gathered
    <3>3. PICK k \in sweep[s].new :
             IF item[k].status = "none"
             THEN /\ item' = [item EXCEPT ![k].status = "OPEN"]
                  /\ sweep' = [sweep EXCEPT ![s].new = @ \ {k}]
             ELSE sweep' = [sweep EXCEPT ![s] = Over] /\ UNCHANGED item
      BY <2>7 DEF CreateItem
    <3>4. k \in Conditions /\ item[k].status = "none" /\ k \in Keys
      BY <3>2
    <3>5. /\ item' = [item EXCEPT ![k] = [@ EXCEPT !.status = "OPEN"]]
          /\ sweep' = [sweep EXCEPT ![s] = [sweep[s] EXCEPT !.new = sweep[s].new \ {k}]]
      BY <3>3, <3>4
    <3>6. sweep'[s] = [sweep[s] EXCEPT !.new = sweep[s].new \ {k}]
      BY <1>0, <3>5
    <3>7. /\ sweep'[s].at = "write"
          /\ sweep'[s].new = sweep[s].new \ {k}
          /\ sweep'[s].stale = sweep[s].stale
      BY <3>2, <3>6
    <3>8. \A j \in Keys : item'[j].status = IF j = k THEN "OPEN" ELSE item[j].status
      BY <1>0, <3>4, <3>5 DEF Item
    <3>9. \A j : j \in sweep'[s].new <=> j \in Conditions /\ item'[j].status = "none"
      BY <3>2, <3>4, <3>7, <3>8, ConditionsAre
    <3>10. \A j : j \in sweep'[s].stale <=> j \in Open' /\ j \notin Conditions
      BY <3>2, <3>4, <3>7, <3>8 DEF Open
    <3> QED
      BY <2>2, <3>7, <3>9, <3>10 DEF Gathered
  <2>8. CASE AutoResolve(s)
    <3>1. sweep[s].at = "write" /\ Gathered(s)
      BY <2>4, <2>8 DEF AutoResolve, NoSweep
    <3>2. /\ sweep[s] \in [at : {"write"}, new : SUBSET Keys, stale : SUBSET Keys]
          /\ \A k : /\ k \in sweep[s].new <=> k \in Conditions /\ item[k].status = "none"
                    /\ k \in sweep[s].stale <=> k \in Open /\ k \notin Conditions
      BY <1>0, <3>1, SweepAt DEF Gathered
    <3>3. PICK k \in sweep[s].stale :
             /\ item' = [item EXCEPT ![k] = AutoResolved(k)]
             /\ sweep' = [sweep EXCEPT ![s].stale = @ \ {k}]
      BY <2>8 DEF AutoResolve
    <3>4. k \in Keys /\ k \notin Conditions /\ item[k].status = "OPEN"
      BY <3>2 DEF Open
    <3>6. sweep'[s] = [sweep[s] EXCEPT !.stale = sweep[s].stale \ {k}]
      BY <1>0, <3>3
    <3>7. /\ sweep'[s].at = "write"
          /\ sweep'[s].new = sweep[s].new
          /\ sweep'[s].stale = sweep[s].stale \ {k}
      BY <3>2, <3>6
    <3>8. \A j \in Keys : item'[j].status = IF j = k THEN "RESOLVED" ELSE item[j].status
      BY <1>0, <3>3, <3>4 DEF AutoResolved
    <3>9. \A j : j \in sweep'[s].new <=> j \in Conditions /\ item'[j].status = "none"
      BY <3>2, <3>4, <3>7, <3>8, ConditionsAre
    <3>10. \A j : j \in sweep'[s].stale <=> j \in Open' /\ j \notin Conditions
      BY <3>2, <3>4, <3>7, <3>8 DEF Open
    <3> QED
      BY <2>2, <3>7, <3>9, <3>10 DEF Gathered
  <2>9. ~EndSweep(s)
    BY <1>0, <2>1 DEF EndSweep
  <2> QED
    BY <2>1, <2>3, <2>5, <2>6, <2>7, <2>8, <2>9 DEF SweepNext
<1> QED
  BY <1>1, <1>2

LEMMA GatheredIsAccurate == InboxInv => InboxSafe
<1> SUFFICES ASSUME InboxInv, NEW s \in Sweeps, SweepDone(s), undisturbed[s]
             PROVE  Open \subseteq Conditions /\ \A k \in Conditions : item[k].status # "none"
  BY DEF InboxInv, InboxSafe, SweepIsAccurate
<1> QED
  BY DEF InboxInv, GatheredInv, Gathered, SweepDone

\* A refresh with which nothing interfered from its first detector to its last write
\* (action-inbox-detectors.service.ts:52-160) leaves no item open without its condition
\* and no condition without an item.
THEOREM InboxStaysSafe == Spec => []InboxSafe
<1>1. InboxInv /\ [Next]_vars => InboxInv'
  BY InboxTyped, GatheredKept DEF InboxInv
<1> QED
  BY <1>1, InboxInit, GatheredIsAccurate, PTL DEF Spec
=============================================================================
