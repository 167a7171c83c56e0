------------------------ MODULE ImportUploadProofs ------------------------
(***************************************************************************)
(* An import records what Hue holds, delivers in order and sends nothing   *)
(* again that it recorded, for any traces, workers, refusals and faults.   *)
(***************************************************************************)
EXTENDS ImportUpload, SumTheorems, SequenceTheorems

Busy == WorkerSteps \cup {"saving"}

(* Where the actors may be: workers run only while the run waits for them, *)
(* and a request is in flight only where one is made.                      *)
Placed ==
    /\ pc[Main] \in {"down", "join", "closing"} \cup MainSteps
    /\ \A w \in Worker : pc[w] \in {"down", "pick"} \cup Busy \cup Ended
    /\ pc[Main] # "join" => \A w \in Worker : pc[w] \in {"down"} \cup Ended
    /\ \A w \in Worker : flight[w] => pc[w] \in WorkerSteps
    /\ flight[Main] => pc[Main] \in MainSteps
    /\ \A a \in Actor : tries[a] < MaxTries
    /\ \A w \in Worker : ahead[w] <= Len(writing)

(* Each trace is one worker's.                                             *)
Shared ==
    /\ \A w \in Worker : pc[w] \in Busy => trace[w] \in Trace
    /\ \A w \in Worker : trace[w] # None => trace[w] < next
    /\ \A w, u \in Worker : w # u /\ trace[w] # None => trace[u] # trace[w]

(* A worker asks for what the file says its trace needs next.              *)
Needed(w) ==
    /\ pc[w] \in WorkerSteps =>
          NextStep(trace[w], file) = IF pc[w] \in ValueSteps THEN "reserve" ELSE pc[w]
    /\ pc[w] = "complete_value" => OpenValue(w) \in objects

(* A batch on its way is due, whoever waits for its answer.                *)
LateIsDue ==
    \A r \in late : r[1] = "batch" =>
        \E t \in Trace : \E i \in DOMAIN Batches[t] : r[2] = Batches[t][i] /\ Ledger!Due(t, i)

(* What is written is behind the file in memory, and the last write is it  *)
(* when nothing changed since.                                             *)
Behind(p, q) ==
    /\ p.stored \subseteq q.stored /\ p.landed \subseteq q.landed
    /\ p.conflicts \subseteq q.conflicts
Written ==
    /\ \A p \in {disk} \cup ItemsOf(writing) : Behind(p, file)
    /\ ~writeFailed /\ ~dirty =>
          (IF writing = <<>> THEN disk ELSE writing[Len(writing)]) = file

Reported ==
    /\ \A w \in Worker : pc[w] = "already" => completed
    /\ report = "completed" => completed
    /\ pc[Main] \in {"closing", "down"} => ~timer
    /\ pc[Main] = "closing" => report # "none" /\ (~writeFailed => ~dirty)
    /\ pc[Main] = "down" => writing = <<>>
    /\ pc[Main] = "down" /\ report # "none" =>
          IF writeFailed THEN report \in {"completed", "stopped"} ELSE disk = file

IInv ==
    /\ TypeOK /\ Placed /\ Shared /\ SavedIsHeld
    /\ \A w \in Worker : Needed(w)
    /\ LateIsDue /\ Written /\ Reported

-----------------------------------------------------------------------------
(* The operators.                                                          *)

(* The first entry outside is one, and those before it are inside.         *)
LEMMA FirstOutsideIs ==
  ASSUME NEW list, list \in Seq(ItemsOf(list)), NEW done, ~(ItemsOf(list) \subseteq done)
  PROVE  \E i \in DOMAIN list :
            /\ FirstOutside(list, done) = list[i] /\ list[i] \notin done
            /\ \A j \in DOMAIN list : j < i => list[j] \in done
<1> DEFINE T == {i \in DOMAIN list : list[i] \notin done}
           Is(x) == \E i \in DOMAIN list : list[i] = x /\ \A j \in DOMAIN list :
                       j < i => list[j] \in done
<1>1. DOMAIN list \subseteq Nat
  BY ElementOfSeq DEF ItemsOf
<1>2. T # {} /\ T \subseteq Nat
  BY <1>1 DEF ItemsOf
<1>3. PICK i \in T : \A j \in T : i <= j
  BY <1>2, LeastOf
<1>4. Is(list[i]) /\ list[i] \in ItemsOf(list) \ done
  <2>1. ASSUME NEW j \in DOMAIN list, j < i PROVE list[j] \in done
    <3>1. j \in Nat /\ i \in Nat /\ ~(i <= j)
      BY <1>1, <1>2, <1>3, <2>1
    <3> QED
      BY <1>3, <3>1
  <2> QED
    BY <2>1 DEF ItemsOf
<1>5. FirstOutside(list, done) = CHOOSE x \in ItemsOf(list) \ done : Is(x)
  BY DEF FirstOutside
<1>6. /\ FirstOutside(list, done) \in ItemsOf(list) \ done
      /\ Is(FirstOutside(list, done))
  BY <1>4, <1>5
<1> QED
  BY <1>6

(* It depends on the set only as far as the list does.                     *)
LEMMA FirstOutsideSame ==
  ASSUME NEW list, list \in Seq(ItemsOf(list)), NEW done, NEW other,
         \A x \in ItemsOf(list) : x \in done <=> x \in other
  PROVE  FirstOutside(list, done) = FirstOutside(list, other)
<1>1. CASE ItemsOf(list) \subseteq done
  BY <1>1 DEF FirstOutside
<1>2. CASE ~(ItemsOf(list) \subseteq done)
  <2>1. PICK i \in DOMAIN list :
            /\ FirstOutside(list, done) = list[i] /\ list[i] \notin done
            /\ \A j \in DOMAIN list : j < i => list[j] \in done
    BY <1>2, FirstOutsideIs
  <2>2. PICK k \in DOMAIN list :
            /\ FirstOutside(list, other) = list[k] /\ list[k] \notin other
            /\ \A j \in DOMAIN list : j < k => list[j] \in other
    BY <1>2, FirstOutsideIs
  <2>3. i \in Nat /\ k \in Nat
    BY ElementOfSeq
  <2>4. ~(i < k) /\ ~(k < i)
    BY <2>1, <2>2 DEF ItemsOf
  <2> QED
    BY <2>1, <2>2, <2>3, <2>4
<1> QED
  BY <1>1, <1>2

(* What the next step says of the file.                                    *)
LEMMA NextStepIs ==
  ASSUME NEW t \in Trace, NEW p \in Record
  PROVE  /\ NextStep(t, p) \in {"pick", "reserve", "batch", "receipt"}
         /\ NextStep(t, p) = "reserve" =>
               FirstOutside(Values[t], p.stored \cup p.conflicts)
                  \in ItemsOf(Values[t]) \ (p.stored \cup p.conflicts)
         /\ NextStep(t, p) = "batch" =>
               /\ ItemsOf(Values[t]) \subseteq p.stored
               /\ FirstOutside(Batches[t], p.landed) \notin p.conflicts
               /\ \E i \in DOMAIN Batches[t] :
                     /\ FirstOutside(Batches[t], p.landed) = Batches[t][i]
                     /\ Batches[t][i] \notin p.landed
                     /\ \A j \in DOMAIN Batches[t] : j < i => Batches[t][j] \in p.landed
         /\ NextStep(t, p) = "receipt" =>
               ItemsOf(Values[t]) \subseteq p.stored /\ ItemsOf(Batches[t]) \subseteq p.landed
<1> DEFINE value == FirstOutside(Values[t], p.stored \cup p.conflicts)
           batch == FirstOutside(Batches[t], p.landed)
<1>1. /\ Values[t] \in Seq(ItemsOf(Values[t])) /\ Batches[t] \in Seq(ItemsOf(Batches[t]))
      /\ None \notin ItemsOf(Values[t]) /\ None \notin ItemsOf(Batches[t])
  BY ImportAssumption DEF AllValues, AllBatches
<1>2. value # None =>
         value \in ItemsOf(Values[t]) \ (p.stored \cup p.conflicts)
  <2> SUFFICES ASSUME value # None
               PROVE  value \in ItemsOf(Values[t]) \ (p.stored \cup p.conflicts)
    OBVIOUS
  <2>1. ~(ItemsOf(Values[t]) \subseteq p.stored \cup p.conflicts)
    BY DEF FirstOutside
  <2>2. PICK i \in DOMAIN Values[t] :
           value = Values[t][i] /\ Values[t][i] \notin p.stored \cup p.conflicts
    BY <1>1, <2>1, FirstOutsideIs
  <2> QED
    BY <2>2 DEF ItemsOf
<1>3. ItemsOf(Values[t]) \subseteq p.stored => value = None
  BY DEF FirstOutside
<1>4. batch # None => \E i \in DOMAIN Batches[t] :
                         /\ batch = Batches[t][i] /\ Batches[t][i] \notin p.landed
                         /\ \A j \in DOMAIN Batches[t] : j < i => Batches[t][j] \in p.landed
  <2>1. batch # None => ~(ItemsOf(Batches[t]) \subseteq p.landed)
    BY DEF FirstOutside
  <2> QED
    BY <1>1, <2>1, FirstOutsideIs
<1>5. batch = None => ItemsOf(Batches[t]) \subseteq p.landed
  <2> SUFFICES ASSUME ~(ItemsOf(Batches[t]) \subseteq p.landed) PROVE batch # None
    OBVIOUS
  <2>1. batch \in ItemsOf(Batches[t])
    BY <1>1, FirstOutsideIs DEF ItemsOf
  <2> QED
    BY <1>1, <2>1
<1> HIDE DEF value, batch
<1>6. NextStep(t, p) =
        CASE t \in p.verified -> "pick"
          [] t \notin p.verified /\ value # None -> "reserve"
          [] t \notin p.verified /\ value = None /\ ~(ItemsOf(Values[t]) \subseteq p.stored) -> "pick"
          [] t \notin p.verified /\ ItemsOf(Values[t]) \subseteq p.stored ->
               IF batch = None THEN "receipt"
               ELSE IF batch \in p.conflicts THEN "pick" ELSE "batch"
  BY DEF NextStep, value, batch
<1>7. CASE t \in p.verified
  <2>1. NextStep(t, p) = "pick"
    BY <1>6, <1>7
  <2> QED
    BY <2>1
<1>8. CASE t \notin p.verified /\ value # None
  <2>1. NextStep(t, p) = "reserve"
    BY <1>3, <1>6, <1>8
  <2> QED
    BY <1>2, <1>8, <2>1 DEF value
<1>9. CASE t \notin p.verified /\ value = None /\ ~(ItemsOf(Values[t]) \subseteq p.stored)
  <2>1. NextStep(t, p) = "pick"
    BY <1>6, <1>9
  <2> QED
    BY <2>1
<1>10. CASE t \notin p.verified /\ value = None /\ ItemsOf(Values[t]) \subseteq p.stored
  <2>1. NextStep(t, p) = IF batch = None THEN "receipt"
                         ELSE IF batch \in p.conflicts THEN "pick" ELSE "batch"
    BY <1>6, <1>10
  <2>2. CASE batch = None
    BY <1>5, <1>10, <2>1, <2>2 DEF batch
  <2>3. CASE batch # None
    BY <1>4, <1>10, <2>1, <2>3 DEF batch
  <2> QED
    BY <2>2, <2>3
<1> QED
  BY <1>7, <1>8, <1>9, <1>10

(* Two files that agree on a trace say the same of it.                     *)
Agree(t, p, q) ==
    /\ \A x \in Items(t) :
          /\ x \in p.stored <=> x \in q.stored
          /\ x \in p.landed <=> x \in q.landed
          /\ x \in p.conflicts <=> x \in q.conflicts
    /\ t \in p.verified <=> t \in q.verified

LEMMA AgreeSame ==
  ASSUME NEW t \in Trace, NEW p, NEW q, Agree(t, p, q)
  PROVE  /\ NextStep(t, p) = NextStep(t, q)
         /\ FirstOutside(Values[t], p.stored \cup p.conflicts) =
               FirstOutside(Values[t], q.stored \cup q.conflicts)
         /\ FirstOutside(Batches[t], p.landed) = FirstOutside(Batches[t], q.landed)
<1>1. /\ Values[t] \in Seq(ItemsOf(Values[t])) /\ Batches[t] \in Seq(ItemsOf(Batches[t]))
  BY ImportAssumption
<1>2. FirstOutside(Values[t], p.stored \cup p.conflicts) =
               FirstOutside(Values[t], q.stored \cup q.conflicts)
  BY <1>1, FirstOutsideSame DEF Agree, Items
<1>3. FirstOutside(Batches[t], p.landed) = FirstOutside(Batches[t], q.landed)
  BY <1>1, FirstOutsideSame DEF Agree, Items
<1>4. ItemsOf(Values[t]) \subseteq p.stored <=> ItemsOf(Values[t]) \subseteq q.stored
  BY DEF Agree, Items
<1>5. FirstOutside(Batches[t], p.landed) # None /\ ~(ItemsOf(Batches[t]) \subseteq p.landed) =>
         (FirstOutside(Batches[t], p.landed) \in p.conflicts <=>
          FirstOutside(Batches[t], q.landed) \in q.conflicts)
  <2>1. ~(ItemsOf(Batches[t]) \subseteq p.landed) => FirstOutside(Batches[t], p.landed) \in Items(t)
    BY <1>1, FirstOutsideIs DEF Items, ItemsOf
  <2> QED
    BY <1>3, <2>1 DEF Agree
<1>6. ItemsOf(Batches[t]) \subseteq p.landed => FirstOutside(Batches[t], p.landed) = None
  BY DEF FirstOutside
<1>7. t \in p.verified <=> t \in q.verified
  BY DEF Agree
<1>8. NextStep(t, p) = NextStep(t, q)
  BY <1>2, <1>3, <1>4, <1>5, <1>6, <1>7 DEF NextStep
<1> QED
  BY <1>2, <1>3, <1>8

-----------------------------------------------------------------------------
(* Hue.                                                                    *)

(* The requests that may be on their way.                                  *)
DueNow ==
    {r \in Effect : r[1] = "batch" =>
        \E t \in Trace : \E i \in DOMAIN Batches[t] : r[2] = Batches[t][i] /\ Ledger!Due(t, i)}

(* What Hue holds only grows, and what is on its way is due.               *)
HueGrows ==
    /\ bad' = bad
    /\ objects \subseteq objects' /\ objects' \subseteq AllValues
    /\ held \subseteq held' /\ held' \subseteq AllValues
    /\ landed \subseteq landed' /\ landed' \subseteq AllBatches
    /\ completed' \in BOOLEAN /\ (completed => completed')
    /\ late' \subseteq DueNow

LEMMA Actors ==
  /\ Actor = Worker \cup {Main} /\ Main \notin Worker /\ Worker \subseteq Trace
  /\ Trace \subseteq Nat /\ None \notin Trace
BY ImportAssumption DEF Actor, Worker, Main, Trace

LEMMA EffectIs ==
  ASSUME NEW r \in Effect
  PROVE  /\ r[1] = "put" => r[2] \in AllValues
         /\ r[1] = "complete_value" => r[2] \in AllValues
         /\ r[1] = "batch" => r[2] \in AllBatches
BY DEF Effect

LEMMA LateDue ==
  ASSUME IInv
  PROVE  late \subseteq DueNow
BY DEF IInv, TypeOK, LateIsDue, DueNow

(* What is recorded stays true, what is on its way stays due.              *)
LEMMA HueKeeps ==
  ASSUME HueGrows
  PROVE  /\ \A p : RecordedIsTrue(p) => RecordedIsTrue(p)'
         /\ late' \subseteq Effect /\ LateIsDue'
<1>1. \A t : Whole(t) => Whole(t)'
  BY DEF HueGrows, Whole
<1>2. \A p : RecordedIsTrue(p) => RecordedIsTrue(p)'
  BY <1>1 DEF HueGrows, RecordedIsTrue
<1>3. \A t, i : Ledger!Due(t, i) => Ledger!Due(t, i)'
  BY DEF HueGrows, Ledger!Due, Ledger!ItemsOf
<1>4. LateIsDue'
  <2>1. ASSUME NEW r \in late', r[1] = "batch"
        PROVE  \E t \in Trace : \E i \in DOMAIN Batches[t] : r[2] = Batches[t][i] /\ Ledger!Due(t, i)'
    BY <1>3, <2>1 DEF HueGrows, DueNow
  <2> QED
    BY <2>1 DEF LateIsDue
<1>5. late' \subseteq Effect
  BY DEF HueGrows, DueNow
<1> QED
  BY <1>2, <1>4, <1>5

LEMMA ArriveGrows ==
  ASSUME TypeOK, NEW R, R \subseteq DueNow, Arrive(R), bad' = bad, late' \subseteq DueNow
  PROVE  HueGrows
<1>1. \A r \in R : /\ r[1] = "put" => r[2] \in AllValues
                   /\ r[1] = "complete_value" => r[2] \in AllValues
                   /\ r[1] = "batch" => r[2] \in AllBatches
  BY EffectIs DEF DueNow
<1>2. objects \subseteq objects' /\ objects' \subseteq AllValues
  BY <1>1 DEF Arrive, TypeOK
<1>3. held \subseteq held' /\ held' \subseteq AllValues
  BY <1>1 DEF Arrive, TypeOK
<1>4. landed \subseteq landed' /\ landed' \subseteq AllBatches
  BY <1>1 DEF Arrive, TypeOK
<1>5. completed' \in BOOLEAN /\ (completed => completed')
  BY DEF Arrive, TypeOK
<1> QED
  BY <1>2, <1>3, <1>4, <1>5 DEF HueGrows

LEMMA StillGrows ==
  ASSUME TypeOK, late' \subseteq DueNow, UNCHANGED <<bad, objects, held, landed, completed>>
  PROVE  HueGrows
BY DEF TypeOK, HueGrows

(* The item a worker asks for.                                             *)
LEMMA ItemIs ==
  ASSUME IInv, NEW w \in Worker, pc[w] \in WorkerSteps
  PROVE  /\ trace[w] \in Trace
         /\ pc[w] \in ValueSteps =>
               /\ Item(w) \in ItemsOf(Values[trace[w]]) \ (file.stored \cup file.conflicts)
               /\ Item(w) \in AllValues
         /\ pc[w] = "batch" =>
               /\ ItemsOf(Values[trace[w]]) \subseteq file.stored
               /\ Item(w) \notin file.landed \cup file.conflicts
               /\ Item(w) \in ItemsOf(Batches[trace[w]]) /\ Item(w) \in AllBatches
               /\ \E i \in DOMAIN Batches[trace[w]] :
                     /\ Item(w) = Batches[trace[w]][i]
                     /\ \A j \in DOMAIN Batches[trace[w]] : j < i => Batches[trace[w]][j] \in file.landed
         /\ pc[w] = "receipt" =>
               ItemsOf(Values[trace[w]]) \subseteq file.stored /\ ItemsOf(Batches[trace[w]]) \subseteq file.landed
<1>1. trace[w] \in Trace /\ file \in Record
  BY DEF IInv, Shared, Busy, TypeOK
<1>2. NextStep(trace[w], file) = IF pc[w] \in ValueSteps THEN "reserve" ELSE pc[w]
  BY DEF IInv, Needed
<1>3. CASE pc[w] \in ValueSteps
  <2>1. Item(w) = FirstOutside(Values[trace[w]], file.stored \cup file.conflicts)
    BY <1>3 DEF Item, OpenValue
  <2>2. Item(w) \in ItemsOf(Values[trace[w]]) \ (file.stored \cup file.conflicts)
    <3>1. NextStep(trace[w], file) = "reserve"
      BY <1>2, <1>3
    <3>2. FirstOutside(Values[trace[w]], file.stored \cup file.conflicts)
            \in ItemsOf(Values[trace[w]]) \ (file.stored \cup file.conflicts)
      BY <1>1, <3>1, NextStepIs
    <3> QED
      BY <2>1, <3>2
  <2>3. Item(w) \in AllValues
    BY <1>1, <2>2 DEF AllValues
  <2> QED
    BY <1>1, <1>3, <2>2, <2>3 DEF ValueSteps
<1>4. CASE pc[w] \notin ValueSteps
  <2>1. Item(w) = FirstOutside(Batches[trace[w]], file.landed) /\ NextStep(trace[w], file) = pc[w]
    BY <1>2, <1>4 DEF Item, OpenBatch
  <2>2. pc[w] = "batch" =>
           /\ ItemsOf(Values[trace[w]]) \subseteq file.stored
           /\ Item(w) \notin file.conflicts
           /\ \E i \in DOMAIN Batches[trace[w]] :
                 /\ Item(w) = Batches[trace[w]][i]
                 /\ Item(w) \notin file.landed
                 /\ \A j \in DOMAIN Batches[trace[w]] : j < i => Batches[trace[w]][j] \in file.landed
    <3> SUFFICES ASSUME pc[w] = "batch"
                 PROVE  /\ ItemsOf(Values[trace[w]]) \subseteq file.stored
                        /\ Item(w) \notin file.conflicts
                        /\ \E i \in DOMAIN Batches[trace[w]] :
                              /\ Item(w) = Batches[trace[w]][i]
                              /\ Item(w) \notin file.landed
                              /\ \A j \in DOMAIN Batches[trace[w]] :
                                    j < i => Batches[trace[w]][j] \in file.landed
      OBVIOUS
    <3>1. NextStep(trace[w], file) = "batch"
      BY <2>1
    <3>2. ItemsOf(Values[trace[w]]) \subseteq file.stored /\ Item(w) \notin file.conflicts
      <4>1. /\ ItemsOf(Values[trace[w]]) \subseteq file.stored
            /\ FirstOutside(Batches[trace[w]], file.landed) \notin file.conflicts
        BY <1>1, <3>1, NextStepIs, Zenon
      <4> QED
        BY <2>1, <4>1
    <3>3. PICK i \in DOMAIN Batches[trace[w]] :
             /\ FirstOutside(Batches[trace[w]], file.landed) = Batches[trace[w]][i]
             /\ Batches[trace[w]][i] \notin file.landed
             /\ \A j \in DOMAIN Batches[trace[w]] : j < i => Batches[trace[w]][j] \in file.landed
      BY <1>1, <3>1, NextStepIs
    <3> QED
      BY <2>1, <3>2, <3>3
  <2>3. pc[w] = "receipt" =>
           ItemsOf(Values[trace[w]]) \subseteq file.stored /\ ItemsOf(Batches[trace[w]]) \subseteq file.landed
    BY <1>1, <2>1, NextStepIs
  <2>4. pc[w] = "batch" => Item(w) \in ItemsOf(Batches[trace[w]]) /\ Item(w) \in AllBatches
    BY <1>1, <2>2 DEF ItemsOf, AllBatches
  <2> QED
    BY <1>1, <1>4, <2>2, <2>3, <2>4
<1> QED
  BY <1>3, <1>4

(* What an actor sends is due: at most one request.                        *)
LEMMA RequestIs ==
  ASSUME IInv, NEW a \in Actor
  PROVE  /\ Request(a) \subseteq DueNow
         /\ pc[a] \in {"put", "complete_value", "batch"} => a \in Worker /\ Request(a) = {<<pc[a], Item(a)>>}
         /\ pc[a] = "complete" => Request(a) = {<<"complete", None>>}
<1>1. a = Main => pc[a] \notin {"put", "complete_value", "batch"}
  BY DEF IInv, Placed, MainSteps
<1>2. CASE pc[a] \in {"put", "complete_value", "batch"}
  <2>1. a \in Worker /\ a # Main /\ Request(a) = {<<pc[a], Item(a)>>}
    BY <1>1, <1>2, Actors DEF Request
  <2>2. pc[a] \in WorkerSteps
    BY <1>2 DEF WorkerSteps, ValueSteps
  <2>3. CASE pc[a] \in {"put", "complete_value"}
    <3>1. Item(a) \in AllValues
      BY <2>1, <2>2, <2>3, ItemIs DEF ValueSteps
    <3>2. <<pc[a], Item(a)>> \in Effect
      BY <2>3, <3>1 DEF Effect
    <3> QED
      BY <1>2, <2>1, <2>3, <3>2 DEF DueNow
  <2>4. CASE pc[a] = "batch"
    <3>1. /\ trace[a] \in Trace /\ Item(a) \in AllBatches
          /\ ItemsOf(Values[trace[a]]) \subseteq file.stored
      BY <2>1, <2>2, <2>4, ItemIs
    <3>2. PICK i \in DOMAIN Batches[trace[a]] :
             /\ Item(a) = Batches[trace[a]][i]
             /\ \A j \in DOMAIN Batches[trace[a]] : j < i => Batches[trace[a]][j] \in file.landed
      BY <2>1, <2>2, <2>4, ItemIs
    <3>3. file.stored \subseteq held /\ file.landed \subseteq landed
      BY DEF IInv, SavedIsHeld, RecordedIsTrue
    <3>4. Ledger!Due(trace[a], i)
      BY <3>1, <3>2, <3>3 DEF Ledger!Due, Ledger!ItemsOf, ItemsOf
    <3>5. <<"batch", Item(a)>> \in DueNow
      BY <3>1, <3>2, <3>4 DEF DueNow, Effect
    <3> QED
      BY <1>2, <2>1, <2>4, <3>5
  <2> QED
    BY <1>2, <2>3, <2>4, <2>1
<1>3. CASE pc[a] = "complete"
  <2>1. Request(a) = {<<"complete", None>>}
    BY <1>3 DEF Request
  <2> QED
    BY <1>3, <2>1 DEF DueNow, Effect
<1>4. CASE pc[a] \notin {"put", "complete_value", "batch", "complete"}
  <2>1. Request(a) = {}
    BY <1>4 DEF Request
  <2> QED
    BY <1>4, <2>1
<1> QED
  BY <1>2, <1>3, <1>4

(* A single arrival is a step of the ledger, or changes nothing of it.     *)
LEMMA ArriveIsLedger ==
  ASSUME TypeOK, NEW r \in DueNow, Arrive({r})
  PROVE  Ledger!Next \/ UNCHANGED <<held, landed, completed>>
<1>1. r \in Effect
  BY DEF DueNow
<1>2. CASE r[1] = "complete_value"
  <2>1. r[2] \in AllValues /\ landed' = landed /\ completed' = completed
    BY <1>1, <1>2, EffectIs DEF Arrive, TypeOK
  <2>2. held' = held \/ held' = held \cup {r[2]}
    BY <1>2 DEF Arrive
  <2>3. AllValues = Ledger!AllValues
    BY DEF AllValues, ItemsOf, Ledger!AllValues, Ledger!ItemsOf
  <2> QED
    BY <2>1, <2>2, <2>3 DEF Ledger!Next, Ledger!Hold
<1>3. CASE r[1] = "batch"
  <2>1. PICK t \in Trace : \E i \in DOMAIN Batches[t] : r[2] = Batches[t][i] /\ Ledger!Due(t, i)
    BY <1>3 DEF DueNow
  <2>2. PICK i \in DOMAIN Batches[t] : r[2] = Batches[t][i] /\ Ledger!Due(t, i)
    BY <2>1
  <2>3. held' = held /\ completed' = completed
    BY <1>1, <1>3 DEF Arrive, TypeOK
  <2>4. landed' = landed \/ landed' = landed \cup {Batches[t][i]}
    BY <1>3, <2>2 DEF Arrive
  <2> QED
    BY <2>2, <2>3, <2>4 DEF Ledger!Next, Ledger!Land
<1>4. CASE r = <<"complete", None>>
  <2>1. held' = held /\ landed' = landed
    BY <1>4 DEF Arrive
  <2>2. completed' = completed \/ (completed' = TRUE /\ \A t \in Trace : Whole(t))
    BY DEF Arrive, TypeOK
  <2> QED
    BY <2>1, <2>2 DEF Ledger!Next, Ledger!Complete, Whole, Ledger!Whole, Ledger!ItemsOf, ItemsOf
<1>5. CASE r[1] = "put"
  <2>1. r # <<"complete", None>>
    BY <1>5
  <2> QED
    BY <1>5, <2>1 DEF Arrive, TypeOK
<1> QED
  BY <1>1, <1>2, <1>3, <1>4, <1>5 DEF Effect

-----------------------------------------------------------------------------
(* The progress file and its writer.                                       *)

WriterTyped ==
    /\ disk \in Record /\ file \in Record
    /\ dirty \in BOOLEAN /\ timer \in BOOLEAN /\ writeFailed \in BOOLEAN
    /\ writing \in Seq(Record) /\ Len(writing) <= MaxWrites

WriterKept == WriterTyped /\ SavedIsHeld /\ Written

LEMMA BlankIs ==
  Blank \in Record /\ RecordedIsTrue(Blank) /\ ItemsOf(<<>>) = {}
BY DEF Blank, Record, RecordedIsTrue, ItemsOf

LEMMA WritesAre ==
  ASSUME NEW list \in Seq(Record), NEW p \in Record
  PROVE  /\ Append(list, p) \in Seq(Record) /\ Len(Append(list, p)) = Len(list) + 1
         /\ ItemsOf(Append(list, p)) = ItemsOf(list) \cup {p}
         /\ Append(list, p) # <<>> /\ Append(list, p)[Len(list) + 1] = p
         /\ Len(list) \in Nat
         /\ list # <<>> =>
               /\ Head(list) \in ItemsOf(list) /\ Head(list) \in Record
               /\ Tail(list) \in Seq(Record) /\ Len(Tail(list)) = Len(list) - 1
               /\ ItemsOf(Tail(list)) \subseteq ItemsOf(list)
               /\ Tail(list) = <<>> => Head(list) = list[Len(list)]
               /\ Tail(list) # <<>> => Tail(list)[Len(Tail(list))] = list[Len(list)]
<1>1. /\ Append(list, p) \in Seq(Record) /\ Len(Append(list, p)) = Len(list) + 1
      /\ \A i \in 1..Len(list) : Append(list, p)[i] = list[i]
      /\ Append(list, p)[Len(list) + 1] = p
      /\ Len(list) \in Nat
      /\ DOMAIN Append(list, p) = 1..Len(list) + 1 /\ DOMAIN list = 1..Len(list)
  OBVIOUS
<1>2. ItemsOf(Append(list, p)) = ItemsOf(list) \cup {p}
  <2>1. 1..Len(list) + 1 = 1..Len(list) \cup {Len(list) + 1}
    BY <1>1
  <2> QED
    BY <1>1, <2>1 DEF ItemsOf
<1>3. Append(list, p) # <<>>
  BY <1>1
<1>4. ASSUME list # <<>>
      PROVE  /\ Head(list) \in ItemsOf(list) /\ Head(list) \in Record
             /\ Tail(list) \in Seq(Record) /\ Len(Tail(list)) = Len(list) - 1
             /\ ItemsOf(Tail(list)) \subseteq ItemsOf(list)
             /\ Tail(list) = <<>> => Head(list) = list[Len(list)]
             /\ Tail(list) # <<>> => Tail(list)[Len(Tail(list))] = list[Len(list)]
  <2>1. /\ Head(list) = list[1] /\ Len(list) >= 1 /\ Head(list) \in Record
        /\ Tail(list) \in Seq(Record) /\ Len(Tail(list)) = Len(list) - 1
        /\ \A i \in 1..Len(list) - 1 : Tail(list)[i] = list[i + 1]
        /\ DOMAIN Tail(list) = 1..Len(list) - 1
    BY <1>4
  <2>2. Head(list) \in ItemsOf(list)
    BY <1>1, <2>1 DEF ItemsOf
  <2>3. ItemsOf(Tail(list)) \subseteq ItemsOf(list)
    BY <1>1, <2>1 DEF ItemsOf
  <2>4. Tail(list) = <<>> => Len(list) = 1
    <3>1. Len(<<>>) = 0
      BY EmptySeq
    <3>2. Tail(list) = <<>> => Len(Tail(list)) = 0
      BY <3>1, Zenon
    <3> QED
      BY <1>1, <2>1, <3>2
  <2>5. Tail(list) # <<>> => Len(list) - 1 \in 1..Len(list) - 1
    BY <1>1, <2>1
  <2> QED
    BY <1>1, <2>1, <2>2, <2>3, <2>4, <2>5
<1> QED
  BY <1>1, <1>2, <1>3, <1>4

LEMMA BehindIs ==
  /\ \A p : Behind(p, p)
  /\ \A p, q, r : Behind(p, q) /\ Behind(q, r) => Behind(p, r)
BY DEF Behind

LEMMA StillWritten ==
  ASSUME IInv, HueGrows, UNCHANGED writer
  PROVE  WriterKept'
<1>1. WriterTyped'
  BY DEF IInv, TypeOK, writer, WriterTyped
<1>2. SavedIsHeld'
  BY HueKeeps DEF IInv, SavedIsHeld, writer
<1>3. Written'
  BY DEF IInv, Written, writer
<1> QED
  BY <1>1, <1>2, <1>3 DEF WriterKept

(* A worker's record, written at the end of the interval.                  *)
LEMMA RecordKeeps ==
  ASSUME IInv, HueGrows, NEW content \in Record, RecordedIsTrue(content)', Behind(file, content),
         file' = content, UNCHANGED <<disk, writing, writeFailed>>, dirty' = TRUE, timer' \in BOOLEAN
  PROVE  WriterKept'
<1>1. WriterTyped'
  BY DEF IInv, TypeOK, WriterTyped
<1>2. \A p \in {disk} \cup ItemsOf(writing) : RecordedIsTrue(p)' /\ Behind(p, content)
  BY HueKeeps, BehindIs DEF IInv, SavedIsHeld, Written
<1>3. SavedIsHeld'
  BY <1>2 DEF SavedIsHeld
<1>4. Written'
  BY <1>2 DEF Written
<1> QED
  BY <1>1, <1>3, <1>4 DEF WriterKept

(* A write that begins holds what the file does, and it is the last.       *)
LEMMA FlushKeeps ==
  ASSUME IInv, HueGrows, NEW content \in Record, RecordedIsTrue(content)', Behind(file, content),
         NEW changed \in BOOLEAN, FlushNow(content, changed), ~changed => content = file /\ ~dirty,
         file' = content, UNCHANGED <<disk, writeFailed>>
  PROVE  /\ WriterKept'
         /\ Len(writing) <= Len(writing') /\ Len(writing) \in Nat /\ Len(writing') \in Nat
         /\ Len(writing') <= MaxWrites
         /\ ~timer' /\ (~writeFailed => ~dirty')
<1>1. /\ WriterTyped /\ writing \in Seq(Record) /\ Len(writing) \in Nat /\ MaxWrites \in Nat
      /\ disk \in Record
  BY ImportAssumption DEF IInv, TypeOK, WriterTyped
<1>2. \A p \in {disk} \cup ItemsOf(writing) : RecordedIsTrue(p)' /\ Behind(p, content)
  BY HueKeeps, BehindIs DEF IInv, SavedIsHeld, Written
<1>3. CASE changed /\ ~writeFailed
  <2>1. /\ writing' = Append(writing, content) /\ dirty' = FALSE /\ timer' = FALSE
        /\ Len(writing) < MaxWrites
    BY <1>3 DEF FlushNow
  <2>2. /\ writing' \in Seq(Record) /\ Len(writing') = Len(writing) + 1
        /\ ItemsOf(writing') = ItemsOf(writing) \cup {content}
        /\ writing' # <<>> /\ writing'[Len(writing')] = content
    BY <1>1, <2>1, WritesAre
  <2>3. WriterTyped' /\ Len(writing') <= MaxWrites
    <3>1. Len(writing') <= MaxWrites
      BY <1>1, <2>1, <2>2
    <3>2. disk' \in Record /\ file' \in Record /\ writeFailed' \in BOOLEAN
      BY <1>1 DEF WriterTyped
    <3> QED
      BY <2>1, <2>2, <3>1, <3>2 DEF WriterTyped
  <2>4. \A p \in {disk} \cup ItemsOf(writing') : RecordedIsTrue(p)' /\ Behind(p, content)
    BY <1>2, <2>2, BehindIs
  <2>5. SavedIsHeld' /\ Written'
    BY <2>2, <2>4 DEF SavedIsHeld, Written
  <2> QED
    BY <1>1, <2>1, <2>2, <2>3, <2>5 DEF WriterKept
<1>4. CASE ~(changed /\ ~writeFailed)
  <2>1. writing' = writing /\ dirty' = changed /\ timer' = FALSE
    BY <1>4 DEF FlushNow
  <2>2. WriterTyped' /\ Len(writing') <= MaxWrites
    BY <1>1, <2>1 DEF WriterTyped
  <2>3. SavedIsHeld'
    BY <1>2, <2>1 DEF SavedIsHeld
  <2>4. Written'
    BY <1>2, <1>4, <2>1 DEF Written, IInv
  <2> QED
    BY <1>1, <1>4, <2>1, <2>2, <2>3, <2>4 DEF WriterKept
<1> QED
  BY <1>3, <1>4

-----------------------------------------------------------------------------
(* The actors.                                                             *)

WorkTyped ==
    /\ pc \in [Actor -> Place]
    /\ trace \in [Worker -> Trace \cup {None}]
    /\ flight \in [Actor -> BOOLEAN]
    /\ tries \in [Actor -> 0..MaxTries] /\ \A a \in Actor : tries[a] < MaxTries
    /\ again \in [Worker -> BOOLEAN]
    /\ ahead \in [Worker -> 0..MaxWrites] /\ \A w \in Worker : ahead[w] <= Len(writing)
    /\ next \in 1..Traces + 1
    /\ stopping \in BOOLEAN /\ forced \in BOOLEAN
    /\ report \in Report /\ faults \in 0..MaxFaults

LEMMA WorkIs ==
  ASSUME IInv
  PROVE  TypeOK /\ WorkTyped
BY DEF IInv, TypeOK, Placed, WorkTyped

LEMMA Assembled ==
  ASSUME IInv, HueGrows, WriterKept', WorkTyped', Placed', Shared',
         \A w \in Worker : Needed(w)', Reported'
  PROVE  IInv'
<1>1. bad' \in Refusable /\ late' \subseteq Effect /\ LateIsDue'
  BY HueKeeps DEF IInv, TypeOK, HueGrows
<1>2. TypeOK'
  BY <1>1 DEF HueGrows, WriterKept, WriterTyped, WorkTyped, TypeOK
<1> QED
  BY <1>1, <1>2 DEF IInv, WriterKept

(* What the others need does not change.                                   *)
LEMMA OthersNeed ==
  ASSUME IInv, HueGrows, NEW w \in Worker,
         pc'[w] = pc[w], trace'[w] = trace[w], pc[w] \in WorkerSteps => Agree(trace[w], file, file')
  PROVE  Needed(w)'
<1>1. CASE pc[w] \notin WorkerSteps
  BY <1>1 DEF Needed, WorkerSteps, ValueSteps
<1>2. CASE pc[w] \in WorkerSteps
  <2>1. trace[w] \in Trace /\ Agree(trace[w], file, file')
    BY <1>2, ItemIs
  <2>2. /\ NextStep(trace[w], file) = NextStep(trace[w], file')
        /\ OpenValue(w) = OpenValue(w)'
    <3>1. OpenValue(w)' = FirstOutside(Values[trace[w]], file'.stored \cup file'.conflicts)
      BY DEF OpenValue
    <3>2. OpenValue(w) = FirstOutside(Values[trace[w]], file.stored \cup file.conflicts)
      BY DEF OpenValue
    <3> QED
      BY <2>1, <3>1, <3>2, AgreeSame
  <2> QED
    BY <2>2 DEF IInv, Needed, HueGrows
<1> QED
  BY <1>1, <1>2

(* A worker goes from one step to another.                                 *)
LEMMA WorkerKeeps ==
  ASSUME IInv, HueGrows, WriterKept', WorkTyped', Shared', NEW w \in Worker,
         NEW step \in {"pick"} \cup Busy \cup Ended,
         pc[w] \in {"pick"} \cup Busy, Go(w, step), Needed(w)',
         \A u \in Worker \ {w} :
            /\ trace'[u] = trace[u]
            /\ pc[u] \in WorkerSteps => Agree(trace[u], file, file'),
         \A a \in Actor \ {w} : flight'[a] = flight[a],
         flight'[w] => step \in WorkerSteps,
         step = "already" => completed', report' = report
  PROVE  IInv'
<1>1. pc \in [Actor -> Place]
  BY WorkIs DEF WorkTyped
<1>2. pc'[w] = step /\ \A a \in Actor \ {w} : pc'[a] = pc[a]
  BY <1>1, Actors DEF Go
<1>3. pc[Main] = "join" /\ pc'[Main] = "join" /\ flight'[Main] = flight[Main]
  <2>1. pc[w] \notin {"down"} \cup Ended
    BY DEF Busy, WorkerSteps, ValueSteps, Ended
  <2> QED
    BY <1>2, <2>1, Actors DEF IInv, Placed
<1>4. Placed'
  <2>1. \A u \in Worker : pc'[u] \in {"down", "pick"} \cup Busy \cup Ended
    BY <1>2, Actors DEF IInv, Placed
  <2>2. \A u \in Worker : flight'[u] => pc'[u] \in WorkerSteps
    BY <1>2, Actors DEF IInv, Placed
  <2> QED
    BY <1>3, <2>1, <2>2 DEF IInv, Placed, WorkTyped
<1>5. \A u \in Worker : Needed(u)'
  BY <1>2, OthersNeed, Actors
<1>6. Reported'
  <2>1. \A u \in Worker : pc'[u] = "already" => completed'
    BY <1>2, Actors DEF IInv, Reported, HueGrows
  <2>2. report' = "completed" => completed'
    BY DEF IInv, Reported, HueGrows
  <2> QED
    BY <1>3, <2>1, <2>2 DEF Reported
<1> QED
  BY <1>4, <1>5, <1>6, Assembled

(* The worker's trace is its own still.                                    *)
LEMMA StillShared ==
  ASSUME IInv, NEW w \in Worker, UNCHANGED <<trace, next>>,
         \A u \in Worker \ {w} : pc'[u] = pc[u], pc[w] \in Busy \/ pc'[w] \notin Busy
  PROVE  Shared'
BY DEF IInv, Shared

(* The run goes from one step to another, no worker being at work.         *)
LEMMA MainKeeps ==
  ASSUME IInv, HueGrows, WriterKept', WorkTyped', NEW step \in {"down", "closing"} \cup MainSteps,
         \A w \in Worker : pc[w] \in {"down"} \cup Ended,
         Go(Main, step), UNCHANGED <<file, trace, next>>,
         \A w \in Worker : flight'[w] = flight[w],
         flight'[Main] => step \in MainSteps,
         report' = "completed" => completed',
         step \in {"closing", "down"} => ~timer',
         step = "closing" => report' # "none" /\ (~writeFailed' => ~dirty'),
         step = "down" => writing' = <<>>,
         step = "down" /\ report' # "none" =>
            IF writeFailed' THEN report' \in {"completed", "stopped"} ELSE disk' = file'
  PROVE  IInv'
<1>1. pc \in [Actor -> Place]
  BY WorkIs DEF WorkTyped
<1>2. pc'[Main] = step /\ \A w \in Worker : pc'[w] = pc[w]
  BY <1>1, Actors DEF Go
<1>3. step # "join"
  BY DEF MainSteps
<1>4. Placed'
  <2>1. \A u \in Worker : flight'[u] => pc'[u] \in WorkerSteps
    BY <1>2, Actors DEF IInv, Placed
  <2> QED
    BY <1>2, <1>3, <2>1 DEF IInv, Placed, WorkTyped
<1>5. \A u \in Worker : Needed(u)'
  BY <1>2, OthersNeed DEF Agree
<1>6. Shared'
  BY <1>2 DEF IInv, Shared
<1>7. Reported'
  <2>1. \A u \in Worker : pc'[u] = "already" => completed'
    BY <1>2, Actors DEF IInv, Reported, HueGrows
  <2> QED
    BY <1>2, <2>1 DEF Reported
<1> QED
  BY <1>4, <1>5, <1>6, <1>7, Assembled

-----------------------------------------------------------------------------
(* What a step does to Hue: nothing, or one request that was due arrives.  *)

HueStep ==
    /\ bad' = bad /\ late' \subseteq DueNow
    /\ \/ UNCHANGED <<objects, held, landed, completed>>
       \/ \E r \in DueNow : Arrive({r})

LEMMA AnswerHue ==
  ASSUME IInv, NEW a \in Actor, Answered(a),
         \/ UNCHANGED <<objects, held, landed, completed>>
         \/ Arrive(Request(a)) /\ pc[a] \in {"put", "complete_value", "batch", "complete"}
  PROVE  HueStep
<1>1. bad' = bad /\ late' \subseteq DueNow
  BY LateDue DEF Answered
<1>2. CASE Arrive(Request(a)) /\ pc[a] \in {"put", "complete_value", "batch", "complete"}
  <2>1. PICK r : Request(a) = {r}
    BY <1>2, RequestIs
  <2>2. r \in DueNow
    BY <2>1, RequestIs
  <2> QED
    BY <1>1, <1>2, <2>1, <2>2 DEF HueStep
<1> QED
  BY <1>1, <1>2 DEF HueStep

LEMMA NextHue ==
  ASSUME IInv, Next
  PROVE  HueStep
<1>1. \A a \in Actor : Request(a) \subseteq DueNow
  BY RequestIs
<1>2. late \subseteq DueNow
  BY LateDue
<1>3. UNCHANGED hue => HueStep
  BY <1>2 DEF hue, HueStep
<1>4. ASSUME NEW a \in Actor, RequestStep(a) \/ Fail(a) \/ StopAnswer(a)
      PROVE  HueStep
  <2>1. CASE Begin(a)
    BY <1>3, <2>1 DEF Begin
  <2>2. CASE Abort(a)
    BY <1>1, <1>2, <2>2 DEF Abort, HueStep
  <2>3. CASE AlreadyCompleted(a)
    BY <2>3, AnswerHue DEF AlreadyCompleted
  <2>4. CASE Fail(a)
    BY <1>1, <1>2, <2>4 DEF Fail, HueStep
  <2>5. CASE StopAnswer(a)
    BY <2>5, AnswerHue DEF StopAnswer
  <2> QED
    BY <1>4, <2>1, <2>2, <2>3, <2>4, <2>5 DEF RequestStep
<1>5. ASSUME NEW w \in Worker, WorkerStep(w)
      PROVE  HueStep
  <2>0. w \in Actor
    BY Actors
  <2>1. CASE RequestStep(w)
    BY <1>4, <2>0, <2>1
  <2>2. CASE Pick(w) \/ Saved(w)
    BY <1>3, <2>2 DEF Pick, Saved
  <2>3. CASE ReserveAnswer(w)
    BY <2>0, <2>3, AnswerHue DEF ReserveAnswer, Conflict
  <2>4. CASE PutAnswer(w)
    BY <2>0, <2>4, AnswerHue DEF PutAnswer
  <2>5. CASE CompleteValueAnswer(w)
    BY <2>0, <2>5, AnswerHue DEF CompleteValueAnswer, Conflict
  <2>6. CASE BatchAnswer(w)
    BY <2>0, <2>6, AnswerHue DEF BatchAnswer, Conflict
  <2>7. CASE ReceiptAnswer(w)
    BY <2>0, <2>7, AnswerHue DEF ReceiptAnswer
  <2> QED
    BY <1>5, <2>1, <2>2, <2>3, <2>4, <2>5, <2>6, <2>7 DEF WorkerStep, WorkerAnswer
<1>6. CASE MainStep
  <2>0. Main \in Actor
    BY Actors
  <2>1. CASE RequestStep(Main)
    BY <1>4, <2>0, <2>1
  <2>2. CASE Join \/ Finish \/ RegisterAnswer
    BY <1>3, <2>2 DEF Join, Finish, RegisterAnswer
  <2>3. CASE ReconcileAnswer
    BY <2>0, <2>3, AnswerHue DEF ReconcileAnswer
  <2>4. CASE CompleteAnswer
    BY <2>0, <2>4, AnswerHue DEF CompleteAnswer
  <2>5. CASE ListAnswer
    BY <2>0, <2>5, AnswerHue DEF ListAnswer
  <2> QED
    BY <1>6, <2>1, <2>2, <2>3, <2>4, <2>5 DEF MainStep, MainAnswer
<1>7. CASE TimerFires \/ WriteEnds \/ Start \/ Interrupt
  BY <1>3, <1>7 DEF TimerFires, WriteEnds, Start, Interrupt
<1>8. CASE Die
  <2>1. PICK sent \in SUBSET {a \in Actor : flight[a]} :
           late' = late \cup UNION {Request(a) : a \in sent}
    BY <1>8 DEF Die
  <2>2. late' \subseteq DueNow
    BY <1>1, <1>2, <2>1
  <2> QED
    BY <1>8, <2>2 DEF Die, HueStep
<1>9. CASE LateArrives
  <2>1. PICK r \in late : late' = late \ {r} /\ Arrive({r})
    BY <1>9 DEF LateArrives
  <2> QED
    BY <1>2, <1>9, <2>1 DEF LateArrives, HueStep
<1> QED
  BY <1>4, <1>5, <1>6, <1>7, <1>8, <1>9 DEF Next

LEMMA NextGrows ==
  ASSUME IInv, Next
  PROVE  HueGrows
<1>1. HueStep /\ TypeOK
  BY NextHue, WorkIs
<1>2. CASE UNCHANGED <<objects, held, landed, completed>>
  BY <1>1, <1>2, StillGrows DEF HueStep
<1>3. ASSUME NEW r \in DueNow, Arrive({r}) PROVE HueGrows
  BY <1>1, <1>3, ArriveGrows DEF HueStep
<1> QED
  BY <1>1, <1>2, <1>3 DEF HueStep

-----------------------------------------------------------------------------
(* The three ways a step ends.                                             *)

Rests(a) ==
    /\ flight' \in [Actor -> BOOLEAN] /\ ~flight'[a]
    /\ \A b \in Actor \ {a} : flight'[b] = flight[b]
    /\ faults' \in 0..MaxFaults
    /\ UNCHANGED <<trace, next, forced>>

LEMMA ThrowKeeps ==
  ASSUME IInv, HueGrows, NEW a \in Actor, NEW why, Throw(a, why), Rests(a),
         why \in {"interrupted", "stopped", "already"} \/ (a = Main /\ why \in {"completed", "incomplete"}),
         a # Main => pc[a] \in Busy,
         a = Main => \A w \in Worker : pc[w] \in {"down"} \cup Ended,
         UNCHANGED <<tries, again, ahead>>,
         why \in {"already", "completed"} => completed'
  PROVE  IInv'
<1>1. WorkTyped /\ TypeOK
  BY WorkIs
<1>2. CASE a = Main
  <2>1. /\ Go(Main, "closing") /\ FlushNow(file, dirty) /\ UNCHANGED <<disk, file, writeFailed, stopping>>
        /\ report' = IF why = "already" THEN "completed" ELSE why
    BY <1>2 DEF Throw
  <2>2. PICK content : content = file
    OBVIOUS
  <2>3. content \in Record /\ Behind(file, content) /\ RecordedIsTrue(content)'
    <3>1. RecordedIsTrue(content)
      BY <2>2 DEF IInv, SavedIsHeld
    <3> QED
      BY <1>1, <2>2, <3>1, HueKeeps, BehindIs DEF TypeOK
  <2>4. PICK changed : changed = dirty
    OBVIOUS
  <2>5. changed \in BOOLEAN
    BY <1>1, <2>4 DEF TypeOK
  <2>6. FlushNow(content, changed) /\ file' = content /\ (~changed => content = file /\ ~dirty)
    BY <2>1, <2>2, <2>4
  <2>7. /\ WriterKept' /\ ~timer' /\ (~writeFailed => ~dirty')
        /\ Len(writing) <= Len(writing') /\ Len(writing) \in Nat /\ Len(writing') \in Nat
    BY <2>1, <2>3, <2>5, <2>6, FlushKeeps
  <2>8. WorkTyped'
    <3>1. pc' \in [Actor -> Place]
      BY <1>1, <2>1 DEF WorkTyped, Go, Place
    <3>2. report' \in Report
      BY <2>1 DEF Report
    <3>3. \A w \in Worker : ahead'[w] <= Len(writing')
      <4>1. MaxWrites \in Nat
        BY ImportAssumption
      <4> QED
        BY <1>1, <2>7, <4>1 DEF WorkTyped
    <3>4. stopping' \in BOOLEAN
      BY <1>1, <2>1 DEF WorkTyped
    <3> QED
      BY <1>1, <3>1, <3>2, <3>3, <3>4 DEF WorkTyped, Rests
  <2>9. report' = "completed" => completed'
    BY <2>1
  <2>10. report' # "none"
    BY <2>1
  <2>11. \A w \in Worker : flight'[w] = flight[w]
    BY <1>2, Actors DEF Rests
  <2>12. ~flight'[Main] /\ UNCHANGED <<file, trace, next>>
    BY <1>2, <2>1 DEF Rests
  <2>13. ~writeFailed' => ~dirty'
    BY <2>1, <2>7
  <2> QED
    BY <1>2, <2>1, <2>7, <2>8, <2>9, <2>10, <2>11, <2>12, <2>13, MainKeeps
<1>3. CASE a # Main
  <2>1. /\ Go(a, why) /\ stopping' = TRUE /\ UNCHANGED <<writer, report>>
        /\ a \in Worker /\ pc[a] \in Busy /\ why \in Ended
    BY <1>3, Actors DEF Throw, Ended
  <2>2. WriterKept'
    BY <2>1, StillWritten
  <2>3. WorkTyped'
    <3>1. pc' \in [Actor -> Place]
      BY <1>1, <2>1 DEF WorkTyped, Go, Place
    <3>2. writing' = writing
      BY <2>1 DEF writer
    <3> QED
      BY <1>1, <2>1, <3>1, <3>2 DEF WorkTyped, Rests
  <2>4. \A b \in Actor \ {a} : pc'[b] = pc[b] /\ flight'[b] = flight[b]
    BY <1>1, <2>1 DEF WorkTyped, Go, Rests
  <2>5. pc'[a] = why /\ pc'[a] \notin Busy /\ ~flight'[a]
    BY <1>1, <2>1 DEF WorkTyped, Go, Rests, Busy, WorkerSteps, ValueSteps, Ended
  <2>6. Shared'
    BY <2>1, <2>4, <2>5, StillShared, Actors DEF Rests
  <2>7. Needed(a)'
    BY <2>5 DEF Needed, Busy, WorkerSteps, ValueSteps
  <2>8. \A u \in Worker \ {a} : trace'[u] = trace[u] /\ Agree(trace[u], file, file')
    BY <2>1 DEF Rests, writer, Agree
  <2>9. why = "already" => completed'
    OBVIOUS
  <2> QED
    BY <2>1, <2>2, <2>3, <2>4, <2>5, <2>6, <2>7, <2>8, <2>9, WorkerKeeps
<1> QED
  BY <1>2, <1>3

LEMMA OnwardKeeps ==
  ASSUME IInv, HueGrows, NEW w \in Worker, pc[w] \in WorkerSteps,
         NEW step \in {"pick"} \cup WorkerSteps, Onward(w, step), Rests(w),
         again' \in [Worker -> BOOLEAN], UNCHANGED <<stopping, report>>,
         step \in WorkerSteps =>
            NextStep(trace[w], file) = IF step \in ValueSteps THEN "reserve" ELSE step,
         step = "complete_value" => OpenValue(w) \in objects'
  PROVE  IInv'
<1>1. WorkTyped /\ TypeOK
  BY WorkIs
<1>2. Go(w, step) /\ tries' = [tries EXCEPT ![w] = 0] /\ UNCHANGED <<writer, ahead>>
  BY DEF Onward
<1>3. WriterKept'
  BY <1>2, StillWritten
<1>4. WorkTyped'
  <2>1. pc' \in [Actor -> Place]
    BY <1>1, <1>2 DEF WorkTyped, Go, Place
  <2>2. writing' = writing
    BY <1>2 DEF writer
  <2>3. tries' \in [Actor -> 0..MaxTries] /\ \A a \in Actor : tries'[a] < MaxTries
    BY <1>1, <1>2, Actors, ImportAssumption DEF WorkTyped
  <2> QED
    BY <1>1, <1>2, <2>1, <2>2, <2>3 DEF WorkTyped, Rests
<1>5. w \in Actor /\ pc'[w] = step /\ \A a \in Actor \ {w} : pc'[a] = pc[a] /\ flight'[a] = flight[a]
  BY <1>1, <1>2, Actors DEF WorkTyped, Go, Rests
<1>6. pc[w] \in Busy /\ step \in {"pick"} \cup Busy \cup Ended
  BY DEF Busy
<1>7. Shared'
  BY <1>5, <1>6, StillShared, Actors DEF Rests
<1>8. Needed(w)'
  <2>1. file' = file /\ trace' = trace
    BY <1>2 DEF writer, Rests
  <2> QED
    BY <1>5, <2>1 DEF Needed, OpenValue
<1>9. \A u \in Worker \ {w} : trace'[u] = trace[u] /\ Agree(trace[u], file, file')
  BY <1>2 DEF Rests, writer, Agree
<1>10. ~flight'[w] /\ step # "already"
  BY DEF Rests, WorkerSteps, ValueSteps
<1> QED
  BY <1>2, <1>3, <1>4, <1>5, <1>6, <1>7, <1>8, <1>9, <1>10, WorkerKeeps

(* A worker records a step of its trace.                                   *)
LEMMA ChangedKeeps ==
  ASSUME IInv, HueGrows, NEW w \in Worker, pc[w] \in WorkerSteps, NEW content \in Record,
         Changed(w, content), Rests(w), UNCHANGED <<stopping, report>>,
         RecordedIsTrue(content)', Behind(file, content),
         \A t \in Trace \ {trace[w]} : Agree(t, file, content)
  PROVE  IInv'
<1>1. WorkTyped /\ TypeOK
  BY WorkIs
<1>2. /\ file' = content /\ UNCHANGED <<disk, writeFailed>>
      /\ tries' = [tries EXCEPT ![w] = 0] /\ again' = [again EXCEPT ![w] = FALSE]
  BY DEF Changed
<1>3. trace[w] \in Trace /\ w \in Actor /\ NextStep(trace[w], content) \in {"pick", "reserve", "batch", "receipt"}
  BY ItemIs, NextStepIs, Actors
<1>4. PICK step : /\ Go(w, step) /\ WriterKept'
                  /\ step = "saving" \/ step = NextStep(trace[w], content)
                  /\ ahead' \in [Worker -> 0..MaxWrites]
                  /\ \A u \in Worker : ahead'[u] <= Len(writing')
  <2>0. MaxWrites \in Nat
    BY ImportAssumption
  <2>1. CASE FlushNow(content, TRUE) /\ ahead' = [ahead EXCEPT ![w] = Len(writing')] /\ Go(w, "saving")
    <3>1. /\ WriterKept' /\ Len(writing') <= MaxWrites
          /\ Len(writing) <= Len(writing') /\ Len(writing) \in Nat /\ Len(writing') \in Nat
      BY <1>2, <2>1, FlushKeeps
    <3>2. ahead' \in [Worker -> 0..MaxWrites] /\ \A u \in Worker : ahead'[u] <= Len(writing')
      BY <1>1, <2>0, <2>1, <3>1 DEF WorkTyped
    <3> QED
      BY <2>1, <3>1, <3>2
  <2>2. CASE /\ timer' = TRUE /\ dirty' = TRUE /\ Go(w, NextStep(trace[w], content))
             /\ UNCHANGED <<writing, ahead>>
    <3>1. WriterKept'
      BY <1>2, <2>2, RecordKeeps
    <3> QED
      BY <1>1, <2>2, <3>1 DEF WorkTyped
  <2> QED
    BY <2>1, <2>2 DEF Changed
<1>5. step \in {"pick"} \cup Busy \cup Ended /\ step # "already" /\ step \in Place
  BY <1>3, <1>4 DEF Busy, WorkerSteps, ValueSteps, Place
<1>6. WorkTyped'
  <2>1. pc' \in [Actor -> Place]
    BY <1>1, <1>4, <1>5 DEF WorkTyped, Go
  <2>2. tries' \in [Actor -> 0..MaxTries] /\ \A a \in Actor : tries'[a] < MaxTries
    BY <1>1, <1>2, Actors, ImportAssumption DEF WorkTyped
  <2>3. again' \in [Worker -> BOOLEAN]
    BY <1>1, <1>2 DEF WorkTyped
  <2> QED
    BY <1>1, <1>4, <2>1, <2>2, <2>3 DEF WorkTyped, Rests
<1>7. pc'[w] = step /\ \A a \in Actor \ {w} : pc'[a] = pc[a] /\ flight'[a] = flight[a]
  BY <1>1, <1>3, <1>4 DEF WorkTyped, Go, Rests
<1>8. pc[w] \in Busy
  BY DEF Busy
<1>9. Shared'
  BY <1>7, <1>8, StillShared, Actors DEF Rests
<1>10. Needed(w)'
  <2>1. file' = content /\ trace' = trace
    BY <1>2 DEF Rests
  <2>2. step # "complete_value" /\ step # "saving" => step = NextStep(trace[w], content)
    BY <1>4
  <2> QED
    BY <1>3, <1>4, <1>7, <2>1, <2>2 DEF Needed, WorkerSteps, ValueSteps
<1>11. ASSUME NEW u \in Worker \ {w}
       PROVE  trace'[u] = trace[u] /\ (pc[u] \in WorkerSteps => Agree(trace[u], file, file'))
  <2>1. pc[u] \in WorkerSteps => trace[u] \in Trace /\ trace[u] # trace[w]
    BY <1>3, Actors DEF IInv, Shared, Busy
  <2> QED
    BY <1>2, <2>1 DEF Rests
<1>12. ~flight'[w]
  BY DEF Rests
<1> QED
  BY <1>4, <1>5, <1>6, <1>7, <1>8, <1>9, <1>10, <1>11, <1>12, WorkerKeeps

-----------------------------------------------------------------------------
(* The answers to a worker.                                                *)

LEMMA RestsIs ==
  ASSUME IInv, NEW a \in Actor, Answered(a), Fault \/ faults' = faults
  PROVE  Rests(a)
<1>1. WorkTyped /\ MaxFaults \in Nat
  BY WorkIs, ImportAssumption
<1>2. faults' \in 0..MaxFaults
  BY <1>1 DEF WorkTyped, Fault
<1> QED
  BY <1>1, <1>2 DEF WorkTyped, Answered, Rests

(* What is recorded of one trace says nothing of another.                  *)
LEMMA Apart ==
  ASSUME NEW t \in Trace, NEW x \in Items(t), NEW p \in Record, NEW u \in Trace \ {t}
  PROVE  /\ Agree(u, p, [p EXCEPT !.stored = @ \cup {x}])
         /\ Agree(u, p, [p EXCEPT !.landed = @ \cup {x}])
         /\ Agree(u, p, [p EXCEPT !.conflicts = @ \cup {x}])
         /\ Agree(u, p, [p EXCEPT !.verified = @ \cup {t}])
<1>1. \A y \in Items(u) : y # x
  BY ImportAssumption
<1> QED
  BY <1>1 DEF Agree, Record

LEMMA ConflictKeeps ==
  ASSUME IInv, HueGrows, NEW w \in Worker, pc[w] \in ValueSteps \cup {"batch"}, Conflict(w),
         Answered(w), UNCHANGED <<stopping, report>>
  PROVE  IInv'
<1>0. pc[w] \in WorkerSteps /\ w \in Actor
  BY Actors DEF WorkerSteps
<1>1. PICK content : content = [file EXCEPT !.conflicts = @ \cup {Item(w)}]
  OBVIOUS
<1>2. /\ trace[w] \in Trace /\ Item(w) \in Items(trace[w])
      /\ Item(w) \in AllValues \cup AllBatches /\ file \in Record
  BY <1>0, ItemIs, WorkIs DEF Items, TypeOK
<1>3. content \in Record /\ Behind(file, content)
  BY <1>1, <1>2 DEF Record, Behind
<1>4. \A t \in Trace \ {trace[w]} : Agree(t, file, content)
  BY <1>1, <1>2, Apart
<1>5. RecordedIsTrue(content)'
  <2>1. RecordedIsTrue(file) /\ Item(w) \in bad
    BY DEF IInv, SavedIsHeld, Conflict
  <2>2. RecordedIsTrue(content)
    BY <1>1, <1>2, <2>1 DEF RecordedIsTrue, Record
  <2> QED
    BY <2>2, HueKeeps
<1>6. Changed(w, content) /\ Rests(w)
  BY <1>0, <1>1, RestsIs DEF Conflict
<1> QED
  BY <1>0, <1>3, <1>4, <1>5, <1>6, ChangedKeeps

LEMMA ReserveKeeps ==
  ASSUME IInv, HueGrows, NEW w \in Worker, ReserveAnswer(w)
  PROVE  IInv'
<1>1. /\ pc[w] = "reserve" /\ pc[w] \in ValueSteps /\ pc[w] \in WorkerSteps /\ w \in Actor
      /\ Answered(w) /\ UNCHANGED <<stopping, report>>
  BY Actors DEF ReserveAnswer, ValueSteps, WorkerSteps
<1>2. CASE Conflict(w)
  BY <1>1, <1>2, ConflictKeeps
<1>3. CASE ~Conflict(w)
  <2>1. PICK step : step = IF Item(w) \in objects THEN "complete_value" ELSE "put"
    OBVIOUS
  <2>2. Onward(w, step) /\ UNCHANGED <<objects, again, faults>>
    BY <1>3, <2>1 DEF ReserveAnswer
  <2>3. Rests(w) /\ again' \in [Worker -> BOOLEAN]
    BY <1>1, <2>2, RestsIs, WorkIs DEF WorkTyped
  <2>4. NextStep(trace[w], file) = "reserve" /\ step \in ValueSteps /\ step \in WorkerSteps
    BY <1>1, <2>1 DEF IInv, Needed, ValueSteps, WorkerSteps
  <2>5. step = "complete_value" => OpenValue(w) \in objects'
    BY <1>1, <2>1, <2>2 DEF Item
  <2> QED
    BY <1>1, <2>2, <2>3, <2>4, <2>5, OnwardKeeps
<1> QED
  BY <1>2, <1>3

LEMMA PutKeeps ==
  ASSUME IInv, HueGrows, NEW w \in Worker, PutAnswer(w)
  PROVE  IInv'
<1>1. /\ pc[w] = "put" /\ pc[w] \in ValueSteps /\ pc[w] \in WorkerSteps /\ w \in Actor
      /\ Answered(w) /\ UNCHANGED <<stopping, report>>
  BY Actors DEF PutAnswer, ValueSteps, WorkerSteps
<1>2. NextStep(trace[w], file) = "reserve" /\ again \in [Worker -> BOOLEAN]
  BY <1>1, WorkIs DEF IInv, Needed, WorkTyped
<1>3. CASE Arrive(Request(w)) /\ Onward(w, "complete_value") /\ UNCHANGED <<again, faults>>
  <2>1. Request(w) = {<<"put", Item(w)>>}
    BY <1>1, RequestIs
  <2>2. Item(w) \in objects'
    BY <1>3, <2>1 DEF Arrive
  <2>3. OpenValue(w) \in objects'
    BY <1>1, <2>2 DEF Item
  <2>4. Rests(w)
    BY <1>1, <1>3, RestsIs
  <2>5. "complete_value" \in ValueSteps /\ "complete_value" \in WorkerSteps
    BY DEF ValueSteps, WorkerSteps
  <2> QED
    BY <1>1, <1>2, <1>3, <2>3, <2>4, <2>5, OnwardKeeps
<1>4. CASE Fault /\ Onward(w, "reserve") /\ again' = [again EXCEPT ![w] = TRUE]
  <2>1. Rests(w) /\ again' \in [Worker -> BOOLEAN]
    BY <1>1, <1>2, <1>4, RestsIs
  <2>2. "reserve" \in ValueSteps /\ "reserve" \in WorkerSteps
    BY DEF ValueSteps, WorkerSteps
  <2> QED
    BY <1>1, <1>2, <1>4, <2>1, <2>2, OnwardKeeps
<1> QED
  BY <1>3, <1>4 DEF PutAnswer

LEMMA CompleteValueKeeps ==
  ASSUME IInv, HueGrows, NEW w \in Worker, CompleteValueAnswer(w)
  PROVE  IInv'
<1>1. /\ pc[w] = "complete_value" /\ pc[w] \in ValueSteps /\ pc[w] \in WorkerSteps /\ w \in Actor
      /\ Answered(w) /\ UNCHANGED <<stopping, report>>
  BY Actors DEF CompleteValueAnswer, ValueSteps, WorkerSteps
<1>2. CASE Conflict(w)
  BY <1>1, <1>2, ConflictKeeps
<1>3. CASE ~Conflict(w)
  <2>1. PICK content : content = [file EXCEPT !.stored = @ \cup {Item(w)}]
    OBVIOUS
  <2>2. Item(w) \notin bad /\ Arrive(Request(w)) /\ Changed(w, content) /\ faults' = faults
    BY <1>3, <2>1 DEF CompleteValueAnswer
  <2>3. /\ trace[w] \in Trace /\ Item(w) \in Items(trace[w])
        /\ Item(w) \in AllValues /\ file \in Record
    BY <1>1, ItemIs, WorkIs DEF Items, TypeOK
  <2>4. content \in Record /\ Behind(file, content)
    BY <2>1, <2>3 DEF Record, Behind
  <2>5. \A t \in Trace \ {trace[w]} : Agree(t, file, content)
    BY <2>1, <2>3, Apart
  <2>6. RecordedIsTrue(content)'
    <3>1. Request(w) = {<<"complete_value", Item(w)>>} /\ Item(w) \in objects
      BY <1>1, RequestIs DEF IInv, Needed, Item
    <3>2. Item(w) \in held'
      BY <2>2, <3>1 DEF Arrive
    <3>3. PICK known : known = file
      OBVIOUS
    <3>4. RecordedIsTrue(known)'
      BY <3>3, HueKeeps DEF IInv, SavedIsHeld
    <3> QED
      BY <2>1, <2>3, <3>2, <3>3, <3>4 DEF RecordedIsTrue, Record
  <2>7. Rests(w)
    BY <1>1, <2>2, RestsIs
  <2> QED
    BY <1>1, <2>2, <2>4, <2>5, <2>6, <2>7, ChangedKeeps
<1> QED
  BY <1>2, <1>3

LEMMA BatchKeeps ==
  ASSUME IInv, HueGrows, NEW w \in Worker, BatchAnswer(w)
  PROVE  IInv'
<1>1. /\ pc[w] = "batch" /\ pc[w] \in WorkerSteps /\ w \in Actor
      /\ Answered(w) /\ UNCHANGED <<stopping, report>>
  BY Actors DEF BatchAnswer, WorkerSteps
<1>2. CASE Conflict(w)
  BY <1>1, <1>2, ConflictKeeps
<1>3. CASE ~Conflict(w)
  <2>1. PICK content : content = [file EXCEPT !.landed = @ \cup {Item(w)}]
    OBVIOUS
  <2>2. Item(w) \notin bad /\ Arrive(Request(w)) /\ Changed(w, content) /\ faults' = faults
    BY <1>3, <2>1 DEF BatchAnswer
  <2>3. /\ trace[w] \in Trace /\ Item(w) \in Items(trace[w])
        /\ Item(w) \in AllBatches /\ file \in Record
    BY <1>1, ItemIs, WorkIs DEF Items, TypeOK
  <2>4. content \in Record /\ Behind(file, content)
    BY <2>1, <2>3 DEF Record, Behind
  <2>5. \A t \in Trace \ {trace[w]} : Agree(t, file, content)
    BY <2>1, <2>3, Apart
  <2>6. RecordedIsTrue(content)'
    <3>1. Request(w) = {<<"batch", Item(w)>>}
      BY <1>1, RequestIs
    <3>2. Item(w) \in landed'
      BY <2>2, <3>1 DEF Arrive
    <3>3. PICK known : known = file
      OBVIOUS
    <3>4. RecordedIsTrue(known)'
      BY <3>3, HueKeeps DEF IInv, SavedIsHeld
    <3> QED
      BY <2>1, <2>3, <3>2, <3>3, <3>4 DEF RecordedIsTrue, Record
  <2>7. Rests(w)
    BY <1>1, <2>2, RestsIs
  <2> QED
    BY <1>1, <2>2, <2>4, <2>5, <2>6, <2>7, ChangedKeeps
<1> QED
  BY <1>2, <1>3

LEMMA ReceiptKeeps ==
  ASSUME IInv, HueGrows, NEW w \in Worker, ReceiptAnswer(w)
  PROVE  IInv'
<1>1. /\ pc[w] = "receipt" /\ pc[w] \in WorkerSteps /\ pc[w] \notin ValueSteps /\ w \in Actor
      /\ Answered(w) /\ UNCHANGED <<stopping, report>>
  BY Actors DEF ReceiptAnswer, ValueSteps, WorkerSteps
<1>2. /\ trace[w] \in Trace /\ file \in Record /\ again \in [Worker -> BOOLEAN]
      /\ ItemsOf(Values[trace[w]]) \subseteq file.stored
  BY <1>1, ItemIs, WorkIs DEF TypeOK
<1>3. CASE /\ ItemsOf(Batches[trace[w]]) \subseteq landed
           /\ Changed(w, [file EXCEPT !.verified = @ \cup {trace[w]}])
           /\ faults' = faults
  <2>1. PICK content : content = [file EXCEPT !.verified = @ \cup {trace[w]}]
    OBVIOUS
  <2>2. content \in Record /\ Behind(file, content)
    BY <1>2, <2>1 DEF Record, Behind
  <2>3. \A t \in Trace \ {trace[w]} : Agree(t, file, content)
    BY <1>2, <2>1 DEF Agree, Record
  <2>4. RecordedIsTrue(content)'
    <3>1. RecordedIsTrue(file) /\ Whole(trace[w])
      BY <1>2, <1>3 DEF IInv, SavedIsHeld, RecordedIsTrue, Whole
    <3>2. RecordedIsTrue(content)
      BY <1>2, <2>1, <3>1 DEF RecordedIsTrue, Record
    <3> QED
      BY <3>2, HueKeeps
  <2>5. Rests(w) /\ Changed(w, content)
    BY <1>1, <1>3, <2>1, RestsIs
  <2> QED
    BY <1>1, <2>2, <2>3, <2>4, <2>5, ChangedKeeps
<1>4. CASE /\ Fault
           /\ Onward(w, IF again[w] THEN "pick" ELSE "receipt")
           /\ again' = [again EXCEPT ![w] = TRUE]
  <2>1. PICK step : step = IF again[w] THEN "pick" ELSE "receipt"
    OBVIOUS
  <2>2. Rests(w) /\ again' \in [Worker -> BOOLEAN]
    BY <1>1, <1>2, <1>4, RestsIs
  <2>3. step \in {"pick", "receipt"} /\ Onward(w, step)
    BY <1>4, <2>1
  <2>4. step = "receipt" => step \in WorkerSteps /\ step \notin ValueSteps
    BY DEF WorkerSteps, ValueSteps
  <2>5. step = "pick" => step \notin WorkerSteps
    BY DEF WorkerSteps, ValueSteps
  <2>6. NextStep(trace[w], file) = "receipt"
    BY <1>1 DEF IInv, Needed
  <2> QED
    BY <1>1, <2>2, <2>3, <2>4, <2>5, <2>6, OnwardKeeps
<1> QED
  BY <1>3, <1>4 DEF ReceiptAnswer

-----------------------------------------------------------------------------
(* Requests.                                                               *)

LEMMA AtWork ==
  ASSUME IInv, NEW a \in Actor, flight[a] \/ pc[a] \in WorkerSteps \cup MainSteps
  PROVE  /\ a # Main => a \in Worker /\ pc[a] \in WorkerSteps /\ pc[a] \in Busy
         /\ a = Main => pc[Main] \in MainSteps /\ \A w \in Worker : pc[w] \in {"down"} \cup Ended
<1>1. CASE a # Main
  <2>1. a \in Worker
    BY <1>1, Actors
  <2>2. pc[a] \in {"down", "pick"} \cup Busy \cup Ended /\ (flight[a] => pc[a] \in WorkerSteps)
    BY <2>1 DEF IInv, Placed
  <2>3. pc[a] \in WorkerSteps
    BY <2>2 DEF Busy, WorkerSteps, ValueSteps, MainSteps, Ended
  <2> QED
    BY <1>1, <2>1, <2>3 DEF Busy
<1>2. CASE a = Main
  <2>1. pc[Main] \in {"down", "join", "closing"} \cup MainSteps /\ (flight[Main] => pc[Main] \in MainSteps)
    BY DEF IInv, Placed
  <2>2. pc[Main] \in MainSteps
    BY <1>2, <2>1 DEF WorkerSteps, ValueSteps, MainSteps
  <2>3. pc[Main] # "join"
    BY <2>2 DEF MainSteps
  <2> QED
    BY <1>2, <2>2, <2>3 DEF IInv, Placed
<1> QED
  BY <1>1, <1>2

(* An actor stays where it is: its request is made, or failed.             *)
LEMMA StaysKeeps ==
  ASSUME IInv, HueGrows, NEW a \in Actor, pc[a] \in WorkerSteps \cup MainSteps,
         flight' \in [Actor -> BOOLEAN], \A b \in Actor \ {a} : flight'[b] = flight[b],
         tries' \in [Actor -> 0..MaxTries], \A b \in Actor : tries'[b] < MaxTries,
         faults' \in 0..MaxFaults,
         UNCHANGED <<writer, pc, stopping, report, trace, again, ahead, next, forced>>
  PROVE  IInv'
<1>1. WorkTyped
  BY WorkIs
<1>2. WriterKept' /\ writing' = writing /\ file' = file
  BY StillWritten DEF writer
<1>3. WorkTyped'
  BY <1>1, <1>2 DEF WorkTyped
<1>4. Go(a, pc[a])
  BY <1>1 DEF WorkTyped, Go
<1>5. CASE a # Main
  <2>1. a \in Worker /\ pc[a] \in WorkerSteps /\ pc[a] \in Busy
    BY <1>5, AtWork
  <2>2. Shared'
    BY DEF IInv, Shared
  <2>3. Needed(a)'
    BY <1>2, <2>1, OthersNeed DEF Agree
  <2>4. \A u \in Worker \ {a} : trace'[u] = trace[u] /\ Agree(trace[u], file, file')
    BY <1>2 DEF Agree
  <2>5. PICK step : step = pc[a]
    OBVIOUS
  <2>6. step \in {"pick"} \cup Busy \cup Ended /\ Go(a, step) /\ step \in WorkerSteps /\ step # "already"
    BY <1>4, <2>1, <2>5 DEF WorkerSteps, ValueSteps
  <2> QED
    BY <1>2, <1>3, <2>1, <2>2, <2>3, <2>4, <2>6, WorkerKeeps
<1>6. CASE a = Main
  <2>1. pc[Main] \in MainSteps /\ \A w \in Worker : pc[w] \in {"down"} \cup Ended
    BY <1>6, AtWork
  <2>2. PICK step : step = pc[Main]
    OBVIOUS
  <2>3. step \in MainSteps /\ Go(Main, step) /\ step \notin {"closing", "down"}
    BY <1>4, <1>6, <2>1, <2>2 DEF MainSteps
  <2>4. \A w \in Worker : flight'[w] = flight[w]
    BY <1>6, Actors
  <2>5. report' = "completed" => completed'
    BY DEF IInv, Reported, HueGrows
  <2> QED
    BY <1>2, <1>3, <2>1, <2>3, <2>4, <2>5, MainKeeps
<1> QED
  BY <1>5, <1>6

LEMMA BeginKeeps ==
  ASSUME IInv, HueGrows, NEW a \in Actor, Begin(a)
  PROVE  IInv'
<1>1. pc[a] \in WorkerSteps \cup MainSteps /\ ~flight[a] /\ WorkTyped
  BY WorkIs DEF Begin
<1>2. CASE stopping
  <2>1. Throw(a, "interrupted") /\ UNCHANGED <<flight, trace, tries, again, ahead, next, forced, faults>>
    BY <1>2 DEF Begin
  <2>2. Rests(a)
    BY <1>1, <2>1 DEF Rests, WorkTyped
  <2> QED
    BY <1>1, <2>1, <2>2, AtWork, ThrowKeeps
<1>3. CASE ~stopping
  <2>1. /\ flight' = [flight EXCEPT ![a] = TRUE]
        /\ UNCHANGED <<writer, pc, stopping, report, trace, tries, again, ahead, next, forced, faults>>
    BY <1>3 DEF Begin
  <2> QED
    BY <1>1, <2>1, StaysKeeps DEF WorkTyped
<1> QED
  BY <1>2, <1>3

LEMMA FailKeeps ==
  ASSUME IInv, HueGrows, NEW a \in Actor, Fail(a)
  PROVE  IInv'
<1>1. /\ flight[a] /\ WorkTyped /\ flight' = [flight EXCEPT ![a] = FALSE]
      /\ UNCHANGED <<trace, again, ahead, next, forced>>
      /\ MaxTries \in Nat /\ MaxFaults \in Nat
  BY WorkIs, ImportAssumption DEF Fail
<1>2. faults' \in 0..MaxFaults
  BY <1>1 DEF Fail, Fault, WorkTyped
<1>3. CASE tries[a] + 1 = MaxTries
  <2>1. Throw(a, "stopped") /\ UNCHANGED <<tries>>
    BY <1>3 DEF Fail
  <2>2. Rests(a)
    BY <1>1, <1>2 DEF Rests, WorkTyped
  <2> QED
    BY <1>1, <2>1, <2>2, AtWork, ThrowKeeps
<1>4. CASE tries[a] + 1 # MaxTries
  <2>1. tries' = [tries EXCEPT ![a] = tries[a] + 1] /\ UNCHANGED <<writer, pc, stopping, report>>
    BY <1>4 DEF Fail
  <2>2. tries' \in [Actor -> 0..MaxTries] /\ \A b \in Actor : tries'[b] < MaxTries
    BY <1>1, <1>4, <2>1 DEF WorkTyped
  <2>3. pc[a] \in WorkerSteps \cup MainSteps
    BY <1>1, AtWork
  <2>4. flight' \in [Actor -> BOOLEAN] /\ \A b \in Actor \ {a} : flight'[b] = flight[b]
    BY <1>1 DEF WorkTyped
  <2> QED
    BY <1>1, <1>2, <2>1, <2>2, <2>3, <2>4, StaysKeeps
<1> QED
  BY <1>3, <1>4

LEMMA StopsKeep ==
  ASSUME IInv, HueGrows, NEW a \in Actor, Abort(a) \/ AlreadyCompleted(a) \/ StopAnswer(a)
  PROVE  IInv'
<1>1. flight[a] /\ WorkTyped
  BY WorkIs DEF Abort, AlreadyCompleted, StopAnswer, Answered
<1>2. CASE Abort(a)
  <2>1. Rests(a)
    BY <1>1, <1>2 DEF Abort, Rests, WorkTyped
  <2> QED
    BY <1>1, <1>2, <2>1, AtWork, ThrowKeeps DEF Abort
<1>3. CASE AlreadyCompleted(a)
  <2>1. Rests(a)
    BY <1>3, RestsIs DEF AlreadyCompleted
  <2> QED
    BY <1>1, <1>3, <2>1, AtWork, ThrowKeeps DEF AlreadyCompleted
<1>4. CASE StopAnswer(a)
  <2>1. Rests(a)
    BY <1>4, RestsIs DEF StopAnswer
  <2> QED
    BY <1>1, <1>4, <2>1, AtWork, ThrowKeeps DEF StopAnswer
<1> QED
  BY <1>2, <1>3, <1>4

-----------------------------------------------------------------------------
(* The worker loop.                                                        *)

LEMMA SavedKeeps ==
  ASSUME IInv, HueGrows, NEW w \in Worker, Saved(w)
  PROVE  IInv'
<1>1. /\ pc[w] = "saving" /\ pc[w] \in Busy /\ w \in Actor /\ WorkTyped /\ trace[w] \in Trace
      /\ file \in Record
  BY WorkIs, Actors DEF Saved, Busy, IInv, Shared, TypeOK
<1>2. PICK step : step = NextStep(trace[w], file)
  OBVIOUS
<1>3. /\ Go(w, step) /\ UNCHANGED <<writer, trace, flight, tries, again, ahead, next, signals, report, faults>>
  BY <1>2 DEF Saved
<1>4. step \in {"pick", "reserve", "batch", "receipt"}
  BY <1>1, <1>2, NextStepIs
<1>5. WriterKept' /\ writing' = writing /\ file' = file
  BY <1>3, StillWritten DEF writer
<1>6. pc'[w] = step /\ (\A a \in Actor \ {w} : pc'[a] = pc[a]) /\ pc' \in [Actor -> Place]
  BY <1>1, <1>3, <1>4 DEF WorkTyped, Go, Place, WorkerSteps, ValueSteps
<1>7. WorkTyped'
  BY <1>1, <1>3, <1>5, <1>6 DEF WorkTyped, signals
<1>8. Shared'
  BY <1>1, <1>3, <1>6, StillShared, Actors
<1>9. Needed(w)'
  BY <1>2, <1>3, <1>4, <1>5, <1>6 DEF Needed, ValueSteps
<1>10. \A u \in Worker \ {w} : trace'[u] = trace[u] /\ Agree(trace[u], file, file')
  BY <1>3, <1>5 DEF Agree
<1>11. ~flight'[w] /\ step # "already" /\ step \in {"pick"} \cup Busy \cup Ended
  <2>1. ~flight[w]
    BY <1>1 DEF IInv, Placed, WorkerSteps, ValueSteps
  <2> QED
    BY <1>3, <1>4, <2>1 DEF Busy, WorkerSteps, ValueSteps
<1>12. \A a \in Actor \ {w} : flight'[a] = flight[a]
  BY <1>3
<1> QED
  BY <1>1, <1>3, <1>5, <1>7, <1>8, <1>9, <1>10, <1>11, <1>12, WorkerKeeps

LEMMA PickKeeps ==
  ASSUME IInv, HueGrows, NEW w \in Worker, Pick(w)
  PROVE  IInv'
<1>1. /\ pc[w] = "pick" /\ w \in Actor /\ WorkTyped /\ file \in Record /\ ~flight[w]
      /\ tries' = [tries EXCEPT ![w] = 0] /\ again' = [again EXCEPT ![w] = FALSE]
      /\ UNCHANGED <<writer, flight, ahead, signals, report, faults>>
  BY WorkIs, Actors DEF Pick, Busy, IInv, Placed, TypeOK, WorkerSteps, ValueSteps
<1>2. WriterKept' /\ writing' = writing /\ file' = file
  BY <1>1, StillWritten DEF writer
<1>3. tries' \in [Actor -> 0..MaxTries] /\ (\A a \in Actor : tries'[a] < MaxTries) /\ again' \in [Worker -> BOOLEAN]
  BY <1>1, ImportAssumption DEF WorkTyped
<1>4. next \in 1..Traces + 1 /\ Traces \in Nat
  BY <1>1, ImportAssumption DEF WorkTyped
<1>5. CASE stopping \/ next > Traces
  <2>1. Go(w, "returned") /\ trace' = [trace EXCEPT ![w] = None] /\ next' = next
    BY <1>5 DEF Pick
  <2>2. pc'[w] = "returned" /\ (\A a \in Actor \ {w} : pc'[a] = pc[a]) /\ pc' \in [Actor -> Place]
    BY <1>1, <2>1 DEF WorkTyped, Go, Place, Ended
  <2>3. trace'[w] = None /\ (\A u \in Worker \ {w} : trace'[u] = trace[u])
        /\ trace' \in [Worker -> Trace \cup {None}]
    BY <1>1, <2>1 DEF WorkTyped
  <2>4. WorkTyped'
    BY <1>1, <1>2, <1>3, <2>1, <2>2, <2>3 DEF WorkTyped, signals
  <2>5. Shared'
    <3>1. "returned" \notin Busy
      BY DEF Busy, WorkerSteps, ValueSteps
    <3> QED
      BY <2>1, <2>2, <2>3, <3>1, Actors DEF IInv, Shared
  <2>6. Needed(w)'
    BY <2>2 DEF Needed, WorkerSteps, ValueSteps
  <2>7. \A u \in Worker \ {w} : trace'[u] = trace[u] /\ Agree(trace[u], file, file')
    BY <1>2, <2>3 DEF Agree
  <2>8. ~flight'[w] /\ (\A a \in Actor \ {w} : flight'[a] = flight[a]) /\ "returned" \in Ended
    BY <1>1 DEF Ended
  <2> QED
    BY <1>1, <1>2, <2>1, <2>4, <2>5, <2>6, <2>7, <2>8, WorkerKeeps
<1>6. CASE ~(stopping \/ next > Traces)
  <2>0. PICK step : step = NextStep(next, file)
    OBVIOUS
  <2>1. Go(w, step) /\ trace' = [trace EXCEPT ![w] = next] /\ next' = next + 1 /\ next \in Trace
    BY <1>4, <1>6, <2>0 DEF Pick, Trace
  <2>2. step \in {"pick", "reserve", "batch", "receipt"}
    BY <1>1, <2>0, <2>1, NextStepIs
  <2>3. pc'[w] = step /\ (\A a \in Actor \ {w} : pc'[a] = pc[a]) /\ pc' \in [Actor -> Place]
    BY <1>1, <2>1, <2>2 DEF WorkTyped, Go, Place, WorkerSteps, ValueSteps
  <2>4. trace'[w] = next /\ (\A u \in Worker \ {w} : trace'[u] = trace[u])
        /\ trace' \in [Worker -> Trace \cup {None}] /\ next' \in 1..Traces + 1
    BY <1>1, <1>4, <2>1 DEF WorkTyped, Trace
  <2>5. WorkTyped'
    BY <1>1, <1>2, <1>3, <2>1, <2>3, <2>4 DEF WorkTyped, signals
  <2>6. Shared'
    <3>1. \A u \in Worker : trace[u] # None => trace[u] \in Nat /\ trace[u] < next
      BY <1>1, Actors DEF IInv, Shared, WorkTyped
    <3>2. \A u \in Worker \ {w} : trace[u] # next
      BY <1>4, <2>1, <3>1, Actors
    <3>3. \A u \in Worker : trace'[u] # None => trace'[u] < next'
      BY <1>4, <2>1, <2>4, <3>1
    <3>4. \A u \in Worker : pc'[u] \in Busy => trace'[u] \in Trace
      BY <2>1, <2>3, <2>4, Actors DEF IInv, Shared
    <3>5. \A u, x \in Worker : u # x /\ trace'[u] # None => trace'[x] # trace'[u]
      BY <2>1, <2>4, <3>2, Actors DEF IInv, Shared
    <3> QED
      BY <3>3, <3>4, <3>5 DEF Shared
  <2>7. Needed(w)'
    BY <1>2, <2>0, <2>2, <2>3, <2>4 DEF Needed, ValueSteps
  <2>8. \A u \in Worker \ {w} : trace'[u] = trace[u] /\ Agree(trace[u], file, file')
    BY <1>2, <2>4 DEF Agree
  <2>9. /\ ~flight'[w] /\ \A a \in Actor \ {w} : flight'[a] = flight[a]
        /\ step # "already" /\ step \in {"pick"} \cup Busy \cup Ended
    BY <1>1, <2>2 DEF Busy, WorkerSteps, ValueSteps
  <2> QED
    BY <1>1, <1>2, <2>1, <2>5, <2>6, <2>7, <2>8, <2>9, WorkerKeeps
<1> QED
  BY <1>5, <1>6

-----------------------------------------------------------------------------
(* The run.                                                                *)

(* The first worker that stopped for a reason of its own.                  *)
LEMMA JoinedIs ==
  ASSUME IInv
  PROVE  Joined \in {"interrupted", "stopped", "already"} /\ (Joined = "already" => completed)
<1> DEFINE Threw(w) == pc[w] \in {"already", "stopped"}
           first == CHOOSE w \in Worker : Threw(w) /\ \A u \in Worker : Threw(u) => w <= u
<1>1. Joined = IF \E w \in Worker : Threw(w) THEN pc[first]
               ELSE IF writeFailed THEN "stopped" ELSE "interrupted"
  BY DEF Joined
<1>2. CASE ~ \E w \in Worker : Threw(w)
  BY <1>1, <1>2
<1>3. CASE \E w \in Worker : Threw(w)
  <2>1. {w \in Worker : Threw(w)} \subseteq Nat /\ {w \in Worker : Threw(w)} # {}
    BY <1>3, Actors
  <2>2. \E w \in Worker : Threw(w) /\ \A u \in Worker : Threw(u) => w <= u
    <3> HIDE DEF Threw
    <3> QED
      BY <2>1, LeastOf
  <2>3. first \in Worker /\ Threw(first)
    BY <2>2
  <2>4. pc[first] = "already" => completed
    BY <2>3 DEF IInv, Reported
  <2> QED
    BY <1>1, <1>3, <2>3, <2>4
<1> QED
  BY <1>2, <1>3

LEMMA JoinKeeps ==
  ASSUME IInv, HueGrows, Join
  PROVE  IInv'
<1>1. /\ pc[Main] = "join" /\ (\A w \in Worker : pc[w] \in Ended) /\ WorkTyped /\ ~flight[Main]
      /\ UNCHANGED <<hue, trace, flight, again, ahead, next, forced, faults>> /\ Main \in Actor
  BY WorkIs, Actors DEF Join, IInv, Placed, MainSteps
<1>2. CASE writeFailed \/ stopping
  <2>1. PICK why : why = Joined
    OBVIOUS
  <2>2. Throw(Main, why) /\ tries' = tries
    BY <1>2, <2>1 DEF Join
  <2>3. why \in {"interrupted", "stopped", "already"} /\ (why = "already" => completed')
    BY <1>1, <2>1, JoinedIs DEF hue
  <2>4. Rests(Main)
    BY <1>1 DEF Rests, WorkTyped
  <2> QED
    BY <1>1, <2>2, <2>3, <2>4, ThrowKeeps
<1>3. CASE ~(writeFailed \/ stopping)
  <2>1. Go(Main, "reconcile") /\ tries' = [tries EXCEPT ![Main] = 0] /\ UNCHANGED <<writer, stopping, report>>
    BY <1>3 DEF Join
  <2>2. WriterKept' /\ writing' = writing /\ file' = file
    BY <2>1, StillWritten DEF writer
  <2>3. tries' \in [Actor -> 0..MaxTries] /\ \A a \in Actor : tries'[a] < MaxTries
    BY <1>1, <2>1, ImportAssumption DEF WorkTyped
  <2>4. pc' \in [Actor -> Place]
    BY <1>1, <2>1 DEF WorkTyped, Go, Place, MainSteps
  <2>5. WorkTyped'
    BY <1>1, <2>1, <2>2, <2>3, <2>4 DEF WorkTyped
  <2>6. report' = "completed" => completed'
    BY <2>1 DEF IInv, Reported, HueGrows
  <2>7. "reconcile" \in MainSteps /\ \A w \in Worker : flight'[w] = flight[w]
    BY <1>1 DEF MainSteps
  <2> QED
    BY <1>1, <2>1, <2>2, <2>5, <2>6, <2>7, MainKeeps
<1> QED
  BY <1>2, <1>3

(* The run goes on to its next request.                                    *)
LEMMA AskNext ==
  ASSUME IInv, HueGrows, flight[Main], NEW step \in MainSteps, Go(Main, step),
         flight' = [flight EXCEPT ![Main] = FALSE], tries' = [tries EXCEPT ![Main] = 0],
         UNCHANGED <<writer, trace, again, ahead, next, stopping, forced, report, faults>>
  PROVE  IInv'
<1>1. WorkTyped /\ Main \in Actor /\ \A w \in Worker : pc[w] \in {"down"} \cup Ended
  BY WorkIs, AtWork, Actors
<1>2. WriterKept' /\ writing' = writing /\ file' = file
  BY StillWritten DEF writer
<1>3. tries' \in [Actor -> 0..MaxTries] /\ \A a \in Actor : tries'[a] < MaxTries
  BY <1>1, ImportAssumption DEF WorkTyped
<1>4. pc' \in [Actor -> Place]
  BY <1>1 DEF WorkTyped, Go, Place
<1>5. /\ flight' \in [Actor -> BOOLEAN] /\ ~flight'[Main]
      /\ \A w \in Worker : flight'[w] = flight[w]
  BY <1>1, Actors DEF WorkTyped
<1>6. WorkTyped'
  BY <1>1, <1>2, <1>3, <1>4, <1>5 DEF WorkTyped
<1>7. report' = "completed" => completed'
  BY DEF IInv, Reported, HueGrows
<1>8. step \notin {"closing", "down"}
  BY DEF MainSteps
<1> QED
  BY <1>1, <1>2, <1>5, <1>6, <1>7, <1>8, MainKeeps

LEMMA MainAnswersKeep ==
  ASSUME IInv, HueGrows, ReconcileAnswer \/ CompleteAnswer \/ ListAnswer
  PROVE  IInv'
<1>1. flight[Main] /\ Answered(Main) /\ Main \in Actor /\ faults' = faults
  BY Actors DEF ReconcileAnswer, CompleteAnswer, ListAnswer, Answered
<1>2. Rests(Main) /\ \A w \in Worker : pc[w] \in {"down"} \cup Ended
  BY <1>1, RestsIs, AtWork
<1>3. CASE ReconcileAnswer
  BY <1>1, <1>3, AskNext DEF ReconcileAnswer, Answered, MainSteps
<1>4. CASE CompleteAnswer /\ completed'
  <2>1. Throw(Main, "completed") /\ UNCHANGED <<tries, again, ahead>>
    BY <1>4 DEF CompleteAnswer
  <2> QED
    BY <1>1, <1>2, <1>4, <2>1, ThrowKeeps
<1>5. CASE CompleteAnswer /\ ~completed'
  <2>1. /\ Go(Main, "list") /\ tries' = [tries EXCEPT ![Main] = 0]
        /\ UNCHANGED <<writer, stopping, report, again, ahead, faults>>
    BY <1>5 DEF CompleteAnswer
  <2> QED
    BY <1>1, <2>1, AskNext DEF Answered, MainSteps
<1>6. CASE ListAnswer
  <2>1. Throw(Main, "incomplete") /\ UNCHANGED <<tries, again, ahead>>
    BY <1>6 DEF ListAnswer
  <2> QED
    BY <1>1, <1>2, <2>1, ThrowKeeps
<1> QED
  BY <1>3, <1>4, <1>5, <1>6

(* The workers start, each with a trace of its own.                        *)
LEMMA RegisterKeeps ==
  ASSUME IInv, HueGrows, RegisterAnswer
  PROVE  IInv'
<1>1. /\ flight[Main] /\ flight' = [flight EXCEPT ![Main] = FALSE] /\ Main \in Actor /\ WorkTyped
      /\ UNCHANGED <<hue, writer, tries, again, ahead, signals, report, faults>>
      /\ file \in Record
  BY WorkIs, Actors DEF RegisterAnswer, TypeOK
<1>2. \A w \in Worker : pc[w] \in {"down"} \cup Ended
  BY <1>1, AtWork
<1>3. WriterKept' /\ writing' = writing /\ file' = file
  BY <1>1, StillWritten DEF writer
<1>4. flight' \in [Actor -> BOOLEAN] /\ \A a \in Actor : ~flight'[a]
  <2>1. \A w \in Worker : ~flight[w]
    BY <1>2 DEF IInv, Placed, WorkerSteps, ValueSteps, Ended
  <2> QED
    BY <1>1, <2>1, Actors DEF WorkTyped
<1>5. report' = "completed" => completed'
  BY <1>1 DEF IInv, Reported, HueGrows
<1>6. CASE stopping
  <2>1. /\ pc' = [a \in Actor |-> IF a = Main THEN "join" ELSE "returned"]
        /\ UNCHANGED <<trace, next>>
    BY <1>6 DEF RegisterAnswer
  <2>2. pc' \in [Actor -> Place] /\ pc'[Main] = "join" /\ \A w \in Worker : pc'[w] = "returned"
    BY <2>1, Actors DEF Place, Ended
  <2>3. WorkTyped'
    BY <1>1, <1>3, <1>4, <2>1, <2>2 DEF WorkTyped, signals
  <2>4. Placed'
    BY <1>4, <2>2, <2>3, Actors DEF Placed, WorkTyped, Ended
  <2>5. Shared'
    BY <2>1, <2>2 DEF IInv, Shared, Busy, WorkerSteps, ValueSteps
  <2>6. \A w \in Worker : Needed(w)'
    BY <2>2 DEF Needed, WorkerSteps, ValueSteps
  <2>7. Reported'
    BY <1>5, <2>2 DEF Reported
  <2> QED
    BY <1>3, <2>3, <2>4, <2>5, <2>6, <2>7, Assembled
<1>7. CASE ~stopping
  <2>1. /\ pc' = [a \in Actor |-> IF a = Main THEN "join" ELSE NextStep(a, file)]
        /\ trace' = [w \in Worker |-> w] /\ next' = Workers + 1
    BY <1>7 DEF RegisterAnswer
  <2>2. ASSUME NEW w \in Worker
        PROVE  pc'[w] = NextStep(w, file) /\ pc'[w] \in {"pick", "reserve", "batch", "receipt"}
    BY <1>1, <2>1, Actors, NextStepIs
  <2>3. pc'[Main] = "join"
    BY <2>1, Actors
  <2>4. pc' \in [Actor -> Place]
    <3>1. \A a \in Actor : pc'[a] \in Place
      BY <2>2, <2>3, Actors DEF Place, WorkerSteps, ValueSteps
    <3> QED
      BY <2>1, <3>1
  <2>5. WorkTyped'
    <3>1. next' \in 1..Traces + 1
      BY <2>1, ImportAssumption
    <3>2. trace' \in [Worker -> Trace \cup {None}]
      BY <2>1, Actors
    <3> QED
      BY <1>1, <1>3, <1>4, <2>4, <3>1, <3>2 DEF WorkTyped, signals
  <2>6. Placed'
    <3>1. \A w \in Worker : pc'[w] \in {"down", "pick"} \cup Busy \cup Ended
      BY <2>2 DEF Busy, WorkerSteps, ValueSteps
    <3> QED
      BY <1>4, <2>3, <2>5, <3>1, Actors DEF Placed, WorkTyped
  <2>7. Shared'
    <3>1. \A w \in Worker : trace'[w] = w /\ w \in Trace /\ w < next'
      BY <2>1, Actors, ImportAssumption DEF Worker
    <3> QED
      BY <3>1 DEF Shared
  <2>8. \A w \in Worker : Needed(w)'
    <3>1. \A w \in Worker : trace'[w] = w
      BY <2>1
    <3> QED
      BY <1>3, <2>2, <3>1 DEF Needed, ValueSteps
  <2>9. Reported'
    BY <1>5, <2>2, <2>3 DEF Reported
  <2> QED
    BY <1>3, <2>5, <2>6, <2>7, <2>8, <2>9, Assembled
<1> QED
  BY <1>6, <1>7

LEMMA FinishKeeps ==
  ASSUME IInv, HueGrows, Finish
  PROVE  IInv'
<1>1. /\ pc[Main] = "closing" /\ writing = <<>> /\ Go(Main, "down") /\ WorkTyped
      /\ report' = IF writeFailed /\ report # "completed" THEN "stopped" ELSE report
      /\ UNCHANGED <<hue, writer, trace, flight, tries, again, ahead, next, signals, faults>>
  BY WorkIs DEF Finish
<1>2. WriterKept' /\ UNCHANGED <<disk, file, writing, timer, writeFailed>>
  BY <1>1, StillWritten DEF writer
<1>3. /\ ~timer /\ report # "none" /\ (~writeFailed => ~dirty) /\ ~flight[Main]
      /\ report = "completed" => completed
      /\ \A w \in Worker : pc[w] \in {"down"} \cup Ended
  BY <1>1 DEF IInv, Placed, Reported, MainSteps
<1>4. ~writeFailed => disk = file
  BY <1>1, <1>3 DEF IInv, Written
<1>5. WorkTyped'
  <2>1. pc' \in [Actor -> Place] /\ report' \in Report
    BY <1>1 DEF WorkTyped, Go, Place, Report
  <2> QED
    BY <1>1, <1>2, <2>1 DEF WorkTyped, signals
<1>6. report' = "completed" => completed'
  BY <1>1, <1>3 DEF HueGrows
<1>7. IF writeFailed' THEN report' \in {"completed", "stopped"} ELSE disk' = file'
  BY <1>1, <1>2, <1>4
<1> QED
  BY <1>1, <1>2, <1>3, <1>5, <1>6, <1>7, MainKeeps

(* A process that starts knows what the progress file says.                *)
LEMMA AfreshKeeps ==
  ASSUME IInv, HueGrows, Afresh, pc' \in [Actor -> Place], \A w \in Worker : pc'[w] = "down",
         pc'[Main] \in {"down", "register"}, faults' \in 0..MaxFaults
  PROVE  IInv'
<1>1. WorkTyped /\ disk \in Record /\ MaxTries \in Nat \ {0} /\ MaxWrites \in Nat /\ Traces \in Nat
  BY WorkIs, ImportAssumption DEF TypeOK
<1>2. /\ file' = disk /\ disk' = disk /\ dirty' = FALSE /\ timer' = FALSE
      /\ writing' = <<>> /\ writeFailed' = FALSE /\ report' = "none"
      /\ trace' = [w \in Worker |-> None] /\ flight' = [a \in Actor |-> FALSE]
      /\ ahead' = [w \in Worker |-> 0]
  BY DEF Afresh
<1>3. <<>> \in Seq(Record) /\ Len(<<>>) = 0 /\ ItemsOf(<<>>) = {}
  BY EmptySeq, BlankIs
<1>4. WriterKept'
  <2>1. WriterTyped'
    <3>1. writing' \in Seq(Record) /\ Len(writing') <= MaxWrites
      <4>1. 0 <= MaxWrites
        BY <1>1
      <4> QED
        BY <1>2, <1>3, <4>1
    <3>2. disk' \in Record /\ file' \in Record
      BY <1>1, <1>2
    <3>3. dirty' \in BOOLEAN /\ timer' \in BOOLEAN /\ writeFailed' \in BOOLEAN
      BY <1>2
    <3> QED
      BY <3>1, <3>2, <3>3 DEF WriterTyped
  <2>2. SavedIsHeld'
    <3>1. \A p : p = disk => RecordedIsTrue(p)'
      BY HueKeeps DEF IInv, SavedIsHeld
    <3> QED
      BY <1>2, <1>3, <3>1 DEF SavedIsHeld
  <2>3. Written'
    BY <1>2, <1>3, BehindIs DEF Written
  <2> QED
    BY <2>1, <2>2, <2>3 DEF WriterKept
<1>5. WorkTyped'
  <2>1. /\ trace' \in [Worker -> Trace \cup {None}] /\ flight' \in [Actor -> BOOLEAN]
        /\ again' \in [Worker -> BOOLEAN]
    BY DEF Afresh
  <2>2. tries' \in [Actor -> 0..MaxTries] /\ \A a \in Actor : tries'[a] < MaxTries
    BY <1>1 DEF Afresh
  <2>3. ahead' \in [Worker -> 0..MaxWrites] /\ \A w \in Worker : ahead'[w] <= Len(writing')
    <3>1. 0 <= Len(writing')
      BY <1>2, <1>3
    <3> QED
      BY <1>1, <1>2, <3>1
  <2>4. next' \in 1..Traces + 1
    BY <1>1 DEF Afresh
  <2>5. stopping' \in BOOLEAN /\ forced' \in BOOLEAN /\ report' \in Report
    BY DEF Afresh, Report
  <2> QED
    BY <2>1, <2>2, <2>3, <2>4, <2>5 DEF WorkTyped
<1>6. Placed'
  <2>1. pc'[Main] \in {"down", "join", "closing"} \cup MainSteps /\ \A a \in Actor : ~flight'[a]
    BY <1>2 DEF MainSteps
  <2> QED
    BY <1>5, <2>1, Actors DEF Placed, WorkTyped
<1>7. Shared'
  BY <1>2 DEF Shared, Busy, WorkerSteps, ValueSteps
<1>8. \A w \in Worker : Needed(w)'
  BY DEF Needed, WorkerSteps, ValueSteps
<1>9. Reported'
  BY <1>2 DEF Reported
<1> QED
  BY <1>4, <1>5, <1>6, <1>7, <1>8, <1>9, Assembled

(* Nothing but the writer, the signals or Hue changes.                     *)
LEMMA CalmKeeps ==
  ASSUME IInv, HueGrows, WriterKept', WorkTyped', Reported', UNCHANGED <<file, pc, trace, flight, next>>
  PROVE  IInv'
<1>1. Placed'
  BY DEF IInv, Placed, WorkTyped
<1>2. Shared'
  BY DEF IInv, Shared
<1>3. \A w \in Worker : Needed(w)'
  BY OthersNeed DEF Agree
<1> QED
  BY <1>1, <1>2, <1>3, Assembled

LEMMA TimerKeeps ==
  ASSUME IInv, HueGrows, TimerFires
  PROVE  IInv'
<1>1. /\ timer /\ FlushNow(file, dirty) /\ WorkTyped
      /\ UNCHANGED <<hue, disk, file, writeFailed, work, signals, report, faults>>
  BY WorkIs DEF TimerFires
<1>2. PICK content, changed : content = file /\ changed = dirty
  OBVIOUS
<1>3. content \in Record /\ changed \in BOOLEAN /\ Behind(file, content) /\ RecordedIsTrue(content)'
  BY <1>2, WorkIs, HueKeeps, BehindIs DEF TypeOK, IInv, SavedIsHeld
<1>4. FlushNow(content, changed) /\ file' = content /\ (~changed => content = file /\ ~dirty)
  BY <1>1, <1>2
<1>5. /\ WriterKept' /\ ~timer'
      /\ Len(writing) <= Len(writing') /\ Len(writing) \in Nat /\ Len(writing') \in Nat
  BY <1>1, <1>3, <1>4, FlushKeeps
<1>6. WorkTyped'
  <2>1. \A w \in Worker : ahead'[w] <= Len(writing')
    BY <1>1, <1>5, ImportAssumption DEF WorkTyped, work
  <2> QED
    BY <1>1, <2>1 DEF WorkTyped, work, signals
<1>7. Reported'
  BY <1>1 DEF IInv, Reported, hue, work
<1> QED
  BY <1>1, <1>5, <1>6, <1>7, CalmKeeps DEF work

LEMMA WriteKeeps ==
  ASSUME IInv, HueGrows, WriteEnds
  PROVE  IInv'
<1>1. /\ writing # <<>> /\ writing' = Tail(writing) /\ WorkTyped
      /\ ahead' = [w \in Worker |-> IF ahead[w] = 0 THEN 0 ELSE ahead[w] - 1]
      /\ UNCHANGED <<hue, file, dirty, timer, pc, trace, flight, tries, again, next, forced, report>>
  BY WorkIs DEF WriteEnds
<1>2. writing \in Seq(Record) /\ disk \in Record /\ file \in Record /\ WriterTyped
      /\ MaxWrites \in Nat /\ MaxFaults \in Nat
  BY WorkIs, ImportAssumption DEF TypeOK, WriterTyped
<1>3. /\ Head(writing) \in ItemsOf(writing) /\ Head(writing) \in Record
      /\ Tail(writing) \in Seq(Record) /\ Len(Tail(writing)) = Len(writing) - 1
      /\ ItemsOf(Tail(writing)) \subseteq ItemsOf(writing)
      /\ Tail(writing) = <<>> => Head(writing) = writing[Len(writing)]
      /\ Tail(writing) # <<>> => Tail(writing)[Len(Tail(writing))] = writing[Len(writing)]
      /\ Len(writing) \in Nat
  BY <1>1, <1>2, WritesAre
<1>4. /\ disk' \in {disk, Head(writing)} /\ writeFailed' \in BOOLEAN
      /\ (~writeFailed' => ~writeFailed /\ disk' = Head(writing))
      /\ stopping' \in BOOLEAN /\ faults' \in 0..MaxFaults
  <2>1. writeFailed \in BOOLEAN /\ stopping \in BOOLEAN /\ faults \in 0..MaxFaults
    BY <1>1, <1>2 DEF WriterTyped, WorkTyped
  <2>2. CASE disk' = (IF writeFailed THEN disk ELSE Head(writing)) /\ UNCHANGED <<writeFailed, stopping, faults>>
    BY <2>1, <2>2
  <2>3. CASE Fault /\ writeFailed' = TRUE /\ stopping' = TRUE /\ disk' = disk
    BY <1>2, <2>1, <2>3 DEF Fault
  <2> QED
    BY <2>2, <2>3 DEF WriteEnds
<1>5. WriterKept'
  <2>1. WriterTyped'
    BY <1>1, <1>2, <1>3, <1>4 DEF WriterTyped
  <2>2. \A p \in {disk'} \cup ItemsOf(writing') : p \in {disk} \cup ItemsOf(writing)
    BY <1>1, <1>3, <1>4
  <2>3. SavedIsHeld'
    <3>1. \A p \in {disk, file} \cup ItemsOf(writing) : RecordedIsTrue(p)'
      BY HueKeeps DEF IInv, SavedIsHeld
    <3> QED
      BY <1>1, <2>2, <3>1 DEF SavedIsHeld
  <2>4. Written'
    BY <1>1, <1>3, <1>4, <2>2 DEF IInv, Written
  <2> QED
    BY <2>1, <2>3, <2>4 DEF WriterKept
<1>6. WorkTyped'
  <2>1. ahead' \in [Worker -> 0..MaxWrites] /\ \A w \in Worker : ahead'[w] <= Len(writing')
    BY <1>1, <1>2, <1>3 DEF WorkTyped
  <2> QED
    BY <1>1, <1>4, <2>1 DEF WorkTyped
<1>7. Reported'
  BY <1>1, <1>4 DEF IInv, Reported, hue
<1> QED
  BY <1>1, <1>5, <1>6, <1>7, CalmKeeps

LEMMA InterruptKeeps ==
  ASSUME IInv, HueGrows, Interrupt
  PROVE  IInv'
<1>1. UNCHANGED <<hue, writer, work, report>> /\ WorkTyped
  BY WorkIs DEF Interrupt
<1>2. WriterKept'
  BY <1>1, StillWritten
<1>3. stopping' \in BOOLEAN /\ forced' \in BOOLEAN /\ faults' \in 0..MaxFaults
  <2>1. stopping \in BOOLEAN /\ forced \in BOOLEAN /\ faults \in 0..MaxFaults /\ MaxFaults \in Nat
    BY <1>1, ImportAssumption DEF WorkTyped
  <2>2. stopping' \in BOOLEAN /\ forced' \in BOOLEAN
    BY <2>1 DEF Interrupt
  <2>3. faults' \in 0..MaxFaults
    BY <2>1 DEF Interrupt, Fault
  <2> QED
    BY <2>2, <2>3
<1>4. WorkTyped'
  BY <1>1, <1>3 DEF WorkTyped, work, writer
<1>5. Reported'
  BY <1>1 DEF IInv, Reported, hue, writer, work
<1> QED
  BY <1>1, <1>2, <1>4, <1>5, CalmKeeps DEF work, writer

LEMMA LateKeeps ==
  ASSUME IInv, HueGrows, LateArrives
  PROVE  IInv'
<1>1. UNCHANGED <<bad, writer, work, signals, report, faults>> /\ WorkTyped
  BY WorkIs DEF LateArrives
<1>2. WriterKept'
  BY <1>1, StillWritten
<1>3. WorkTyped'
  BY <1>1 DEF WorkTyped, work, writer, signals
<1>4. Reported'
  BY <1>1 DEF IInv, Reported, HueGrows, writer, work
<1> QED
  BY <1>1, <1>2, <1>3, <1>4, CalmKeeps DEF work, writer

LEMMA StartKeeps ==
  ASSUME IInv, HueGrows, Start
  PROVE  IInv'
<1>1. /\ Afresh /\ pc' = [a \in Actor |-> IF a = Main THEN "register" ELSE "down"]
      /\ faults' = faults /\ WorkTyped
  BY WorkIs DEF Start
<1>2. /\ pc' \in [Actor -> Place] /\ pc'[Main] \in {"down", "register"}
      /\ \A w \in Worker : pc'[w] = "down"
  BY <1>1, Actors DEF Place, MainSteps
<1> QED
  BY <1>1, <1>2, AfreshKeeps DEF WorkTyped

LEMMA DieKeeps ==
  ASSUME IInv, HueGrows, Die
  PROVE  IInv'
<1>1. Afresh /\ pc' = [a \in Actor |-> "down"] /\ WorkTyped /\ Fault /\ MaxFaults \in Nat
  BY WorkIs, ImportAssumption DEF Die
<1>2. pc' \in [Actor -> Place] /\ pc'[Main] \in {"down", "register"} /\ \A w \in Worker : pc'[w] = "down"
  BY <1>1, Actors DEF Place
<1>3. faults' \in 0..MaxFaults
  BY <1>1 DEF Fault, WorkTyped
<1> QED
  BY <1>1, <1>2, <1>3, AfreshKeeps

LEMMA InitInv == Init => IInv
<1> SUFFICES ASSUME Init PROVE IInv
  OBVIOUS
<1>1. Blank \in Record /\ RecordedIsTrue(Blank) /\ <<>> \in Seq(Record) /\ Len(<<>>) = 0 /\ ItemsOf(<<>>) = {}
  BY BlankIs, EmptySeq
<1>2. MaxTries \in Nat \ {0} /\ MaxWrites \in Nat /\ MaxFaults \in Nat /\ Traces \in Nat
  BY ImportAssumption
<1>3. WorkTyped
  <2>1. pc \in [Actor -> Place] /\ flight \in [Actor -> BOOLEAN] /\ again \in [Worker -> BOOLEAN]
    BY DEF Init, Place
  <2>2. tries \in [Actor -> 0..MaxTries] /\ \A a \in Actor : tries[a] < MaxTries
    BY <1>2 DEF Init
  <2>3. ahead \in [Worker -> 0..MaxWrites] /\ \A w \in Worker : ahead[w] <= Len(writing)
    BY <1>1, <1>2 DEF Init
  <2>4. trace \in [Worker -> Trace \cup {None}] /\ next \in 1..Traces + 1 /\ faults \in 0..MaxFaults
    BY <1>2 DEF Init
  <2>5. stopping \in BOOLEAN /\ forced \in BOOLEAN /\ report \in Report
    BY DEF Init, Report
  <2> QED
    BY <2>1, <2>2, <2>3, <2>4, <2>5 DEF WorkTyped
<1>4. TypeOK
  <2>1. writing \in Seq(Record) /\ Len(writing) <= MaxWrites
    BY <1>1, <1>2 DEF Init
  <2>2. disk \in Record /\ file \in Record /\ dirty \in BOOLEAN /\ timer \in BOOLEAN /\ writeFailed \in BOOLEAN
    BY <1>1 DEF Init
  <2>3. /\ bad \in Refusable /\ objects \subseteq AllValues /\ held \subseteq AllValues
        /\ landed \subseteq AllBatches /\ completed \in BOOLEAN /\ late \subseteq Effect
    BY DEF Init
  <2> QED
    BY <1>3, <2>1, <2>2, <2>3 DEF WorkTyped, TypeOK
<1>5. Placed
  <2>1. \A a \in Actor : pc[a] = "down" /\ ~flight[a]
    BY DEF Init
  <2> QED
    BY <1>3, <2>1, Actors DEF Placed, WorkTyped
<1>6. Shared /\ (\A w \in Worker : Needed(w)) /\ LateIsDue
  BY Actors DEF Init, Shared, Needed, LateIsDue, Busy, WorkerSteps, ValueSteps
<1>7. SavedIsHeld /\ Written
  BY <1>1, BehindIs DEF Init, SavedIsHeld, Written
<1>8. Reported
  BY Actors DEF Init, Reported
<1> QED
  BY <1>4, <1>5, <1>6, <1>7, <1>8 DEF IInv

LEMMA NextInv == IInv /\ [Next]_vars => IInv'
<1> SUFFICES ASSUME IInv, [Next]_vars PROVE IInv'
  OBVIOUS
<1>1. CASE Next
  <2>1. HueGrows
    BY <1>1, NextGrows
  <2>2. ASSUME NEW a \in Actor, RequestStep(a) \/ Fail(a) \/ StopAnswer(a) PROVE IInv'
    BY <2>1, <2>2, BeginKeeps, FailKeeps, StopsKeep DEF RequestStep
  <2>3. ASSUME NEW w \in Worker, WorkerStep(w) PROVE IInv'
    <3>1. CASE RequestStep(w)
      BY <2>2, <3>1, Actors
    <3>2. CASE Pick(w) \/ Saved(w)
      BY <2>1, <3>2, PickKeeps, SavedKeeps
    <3>3. CASE WorkerAnswer(w)
      BY <2>1, <3>3, ReserveKeeps, PutKeeps, CompleteValueKeeps, BatchKeeps, ReceiptKeeps DEF WorkerAnswer
    <3> QED
      BY <2>3, <3>1, <3>2, <3>3 DEF WorkerStep
  <2>4. CASE MainStep
    <3>1. CASE RequestStep(Main)
      BY <2>2, <3>1, Actors
    <3>2. CASE Join \/ Finish \/ MainAnswer
      BY <2>1, <3>2, JoinKeeps, FinishKeeps, RegisterKeeps, MainAnswersKeep DEF MainAnswer
    <3> QED
      BY <2>4, <3>1, <3>2 DEF MainStep
  <2>5. CASE TimerFires \/ WriteEnds \/ Start \/ Interrupt \/ Die \/ LateArrives
    BY <2>1, <2>5, TimerKeeps, WriteKeeps, StartKeeps, InterruptKeeps, DieKeeps, LateKeeps
  <2> QED
    BY <1>1, <2>2, <2>3, <2>4, <2>5 DEF Next
<1>2. CASE UNCHANGED vars
  <2>1. HueGrows
    BY <1>2, WorkIs, LateDue, StillGrows DEF vars, hue
  <2>2. WriterKept'
    BY <1>2, <2>1, StillWritten DEF vars
  <2>3. WorkTyped'
    BY <1>2, WorkIs DEF WorkTyped, vars, writer, work, signals
  <2>4. Reported'
    BY <1>2 DEF IInv, Reported, vars, hue, writer, work
  <2> QED
    BY <1>2, <2>1, <2>2, <2>3, <2>4, CalmKeeps DEF vars, writer, work
<1> QED
  BY <1>1, <1>2

-----------------------------------------------------------------------------
(* Theorems.                                                               *)

(* The progress file, in memory, on disk and in every write under way,     *)
(* names only what Hue holds or refuses, and the report of a run that      *)
(* ended is true of the file and of Hue (sendBatch, uploadBlob,            *)
(* Progress.flush, the finally block of uploadTraces), through stops,      *)
(* lost answers, failed writes and deaths.                                 *)
THEOREM RecordsHold == Spec => []RecordsAreTrue
<1>1. Spec => []IInv
  BY InitInv, NextInv, PTL DEF Spec
<1>2. IInv => ReportIsTrue
  <2> SUFFICES ASSUME IInv, pc[Main] = "down", report # "none"
               PROVE  /\ \A a \in Actor : ~flight[a]
                      /\ writing = <<>> /\ ~timer
                      /\ IF writeFailed THEN report \in {"completed", "stopped"} ELSE disk = file
                      /\ report = "completed" => completed
    BY DEF ReportIsTrue
  <2>1. \A w \in Worker : pc[w] \in {"down"} \cup Ended
    BY DEF IInv, Placed
  <2>2. \A w \in Worker : ~flight[w]
    BY <2>1 DEF IInv, Placed, Ended, WorkerSteps, ValueSteps
  <2>3. ~flight[Main]
    BY DEF IInv, Placed, MainSteps
  <2> QED
    BY <2>2, <2>3, Actors DEF IInv, Reported
<1>3. IInv => RecordsAreTrue
  BY <1>2 DEF IInv, RecordsAreTrue
<1> QED
  BY <1>1, <1>3, PTL

(* What the progress file on disk records is never asked for again, by     *)
(* this run or a later one (the conditions of processTrace).               *)
THEOREM RecordedIsNotSent == Spec => NotSentAgain
<1>1. Spec => []IInv
  BY InitInv, NextInv, PTL DEF Spec
<1>2. IInv /\ [Next]_vars =>
         \A w \in Worker : flight'[w] /\ ~flight[w] /\ pc[w] # "receipt" =>
            Item(w) \notin disk.stored \cup disk.landed \cup disk.conflicts
  <2> SUFFICES ASSUME IInv, [Next]_vars, NEW w \in Worker, flight'[w], ~flight[w], pc[w] # "receipt"
               PROVE  Item(w) \notin disk.stored \cup disk.landed \cup disk.conflicts
    OBVIOUS
  <2>1. flight \in [Actor -> BOOLEAN] /\ w \in Actor /\ w # Main
    BY WorkIs, Actors DEF WorkTyped
  <2>2. pc[w] \in WorkerSteps
    <3>1. \A a \in Actor : flight' = [flight EXCEPT ![a] = FALSE] => ~flight'[w]
      BY <2>1
    <3>2. flight' # flight
      OBVIOUS
    <3>3. flight' # [a \in Actor |-> FALSE]
      BY <2>1
    <3>4. ASSUME NEW a \in Actor, RequestStep(a) \/ Fail(a) \/ StopAnswer(a)
          PROVE  pc[w] \in WorkerSteps
      <4>1. Begin(a)
        BY <3>1, <3>4 DEF RequestStep, Abort, AlreadyCompleted, Fail, StopAnswer, Answered
      <4>2. flight' = [flight EXCEPT ![a] = TRUE] /\ pc[a] \in WorkerSteps \cup MainSteps
        BY <3>2, <4>1 DEF Begin
      <4>3. a = w
        BY <2>1, <4>2
      <4> QED
        BY <2>1, <4>2, <4>3, AtWork
    <3>5. ASSUME NEW u \in Worker, WorkerStep(u) PROVE pc[w] \in WorkerSteps
      BY <3>1, <3>2, <3>4, <3>5, Actors
         DEF WorkerStep, Pick, Saved, WorkerAnswer, ReserveAnswer, PutAnswer, CompleteValueAnswer,
             BatchAnswer, ReceiptAnswer, Answered
    <3>6. ASSUME MainStep PROVE pc[w] \in WorkerSteps
      BY <3>1, <3>2, <3>4, <3>6, Actors
         DEF MainStep, Join, Finish, MainAnswer, RegisterAnswer, ReconcileAnswer, CompleteAnswer,
             ListAnswer, Answered
    <3>7. ~(TimerFires \/ WriteEnds \/ Start \/ Interrupt \/ Die \/ LateArrives \/ UNCHANGED vars)
      BY <3>2, <3>3 DEF TimerFires, WriteEnds, Start, Interrupt, Die, LateArrives, Afresh, vars, work
    <3> QED
      BY <3>4, <3>5, <3>6, <3>7 DEF Next
  <2>3. Behind(disk, file) /\ disk \in Record /\ file \in Record
    BY WorkIs DEF IInv, Written, TypeOK
  <2>4. AllValues \cap AllBatches = {} /\ disk.stored \subseteq AllValues /\ disk.landed \subseteq AllBatches
    BY <2>3, ImportAssumption DEF Record
  <2>5. CASE pc[w] \in ValueSteps
    BY <2>2, <2>3, <2>4, <2>5, ItemIs DEF Behind
  <2>6. CASE pc[w] = "batch"
    BY <2>2, <2>3, <2>4, <2>6, ItemIs DEF Behind
  <2> QED
    BY <2>2, <2>5, <2>6 DEF WorkerSteps
<1> QED
  BY <1>1, <1>2, PTL DEF Spec, NotSentAgain

(* The deliveries implement the ledger: a trace's values, then its batches *)
(* in order, then completion of whole traces, whatever arrives late.       *)
THEOREM DeliversInOrder == Spec => KeepsLedger
<1>1. Spec => []IInv
  BY InitInv, NextInv, PTL DEF Spec
<1>2. Init => Ledger!Init
  BY DEF Init, Ledger!Init
<1>3. IInv /\ [Next]_vars => [Ledger!Next]_<<held, landed, completed>>
  <2> SUFFICES ASSUME IInv, [Next]_vars PROVE Ledger!Next \/ UNCHANGED <<held, landed, completed>>
    OBVIOUS
  <2>1. CASE Next
    <3>1. HueStep /\ TypeOK
      BY <2>1, NextHue, WorkIs
    <3>2. CASE UNCHANGED <<objects, held, landed, completed>>
      BY <3>2
    <3>3. ASSUME NEW r \in DueNow, Arrive({r}) PROVE Ledger!Next \/ UNCHANGED <<held, landed, completed>>
      BY <3>1, <3>3, ArriveIsLedger
    <3> QED
      BY <3>1, <3>2, <3>3 DEF HueStep
  <2>2. CASE UNCHANGED vars
    BY <2>2 DEF vars, hue
  <2> QED
    BY <2>1, <2>2
<1> QED
  BY <1>1, <1>2, <1>3, PTL DEF Spec, KeepsLedger, Ledger!Spec
=============================================================================
