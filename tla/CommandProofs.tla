----------------------------- MODULE CommandProofs -----------------------------
(***************************************************************************)
(* Proofs about two commands of the CLI, for any sequence of starts,       *)
(* failures and kills.  `hue listen`: a request reaches the receiver once, *)
(* and a stop abandons nothing that was accepted.  `hue setup`: nothing is *)
(* repeated or forgotten, and its records are true, whatever the owner and *)
(* the service do meanwhile.                                               *)
(***************************************************************************)
EXTENDS ProjectSetup, EventListener, SumTheorems, SequenceTheorems
-----------------------------------------------------------------------------
(* `hue listen`: the invariant.                                            *)

(* A request that was sent is still under way or remembered, unless        *)
(* nothing is sent any more.                                               *)
SentAndKnown ==
    \A d \in Delivery :
        /\ sent[d] <= 1
        /\ sent[d] # 0 =>
              \/ stop = "forced" \/ phase \in Stopped
              \/ \E i \in DOMAIN tasks : tasks[i].d = d /\ tasks[i].at = "forwarding"
              \/ \E j \in DOMAIN remembered : remembered[j].d = d

(* The answers that are kept are answers to the delivery they are kept of. *)
AnswersAreOwn ==
    /\ \A d \in Delivery : record[d] # None => record[d] \in produced[d]
    /\ \A i \in DOMAIN tasks : tasks[i].answer # None => tasks[i].answer \in produced[tasks[i].d]
    /\ \A j \in DOMAIN remembered : remembered[j].answer \in produced[remembered[j].d]

(* What was accepted waits to be forwarded or acknowledged for the first   *)
(* time.                                                                   *)
Accepted ==
    stop = "forced" \/
        /\ phase = "reading" => owed \subseteq ToSet(Kept)
        /\ phase = "delivering" =>
              \A d \in owed : \E i \in DOMAIN tasks :
                  tasks[i].d = d /\ tasks[i].at \in {"forwarding", "acking"} /\ tasks[i].first

(* Where the command is: it forwards only while it delivers, and hears     *)
(* interrupts until it has ended and a repeated one would count again.     *)
Whereabouts ==
    /\ phase # "delivering" => tasks = <<>>
    /\ ~listening => phase = "ended" \/ phase \in Stopped
    /\ phase = "ended" /\ ~listening => stop = "no" \/ second

ListenerInv ==
    /\ ListenerTypeOK
    /\ SentAndKnown /\ AnswersAreOwn /\ Accepted /\ Whereabouts /\ StopIsOrderly

-----------------------------------------------------------------------------
(* What a pull keeps of an answer: the fold over the items, for any length *)
(* of it.  The smallest set of which a claim fails stands in for           *)
(* induction.                                                              *)

(* The last of some positions is one of them.                              *)
Positions(S) == S \in SUBSET Nat /\ IsFiniteSet(S)

LEMMA LastIsIn ==
  ASSUME NEW S, Positions(S), S # {}
  PROVE  Max(S) \in S
<1>0. IsFiniteSet(S)
  BY DEF Positions
<1> DEFINE HasLast(T) == \E x \in T : \A y \in T : x >= y
           F == {T \in SUBSET S : T # {} /\ ~HasLast(T)}
<1> SUFFICES HasLast(S)
  BY DEF Max
<1> SUFFICES ASSUME ~HasLast(S) PROVE FALSE
  OBVIOUS
<1>1. F \subseteq SUBSET S /\ F # {}
  <2> HIDE DEF HasLast
  <2> QED
    OBVIOUS
<1>2. PICK T \in F : \A U \in F : U \subseteq T => U = T
  <2> HIDE DEF F
  <2> QED
    BY <1>0, <1>1, SmallestSet
<1>3. T \in SUBSET S /\ T # {} /\ ~HasLast(T)
  BY <1>2
<1>4. PICK a \in T : TRUE
  BY <1>3
<1>5. T \ {a} = {} \/ HasLast(T \ {a})
  <2> HIDE DEF HasLast
  <2> QED
    BY <1>2, <1>4
<1>6. CASE T \ {a} = {}
  <2>1. a \in Nat /\ T = {a}
    BY <1>3, <1>4, <1>6 DEF Positions
  <2>2. a >= a
    BY <2>1
  <2> QED
    BY <1>3, <2>1, <2>2
<1>7. CASE HasLast(T \ {a})
  <2>1. PICK m \in T \ {a} : \A y \in T \ {a} : m >= y
    BY <1>7
  <2>2. a \in Nat /\ m \in Nat /\ \A y \in T : y \in Nat
    BY <1>3, <1>4 DEF Positions
  <2>3. CASE m >= a
    BY <1>3, <2>1, <2>2, <2>3
  <2>4. CASE ~(m >= a)
    <3>1. \A y \in T : a >= y
      BY <2>1, <2>2, <2>4
    <3> QED
      BY <1>3, <1>4, <3>1
  <2> QED
    BY <2>3, <2>4
<1> QED
  BY <1>5, <1>6, <1>7

(* The fold's own table: what is kept of the items at some positions.      *)
KeptOf(S, g) ==
  g = [s \in SUBSET S |-> IF s = {} THEN <<>> ELSE Keep(g[s \ {Max(s)}], items[Max(s)])]

LEMMA KeptOfAgree ==
  ASSUME NEW S, Positions(S), NEW T \in SUBSET S,
         NEW g, NEW h, KeptOf(S, g), KeptOf(T, h)
  PROVE  \A s \in SUBSET T : g[s] = h[s]
<1>0. IsFiniteSet(S)
  BY DEF Positions
<1> SUFFICES ASSUME ~ \A s \in SUBSET T : g[s] = h[s] PROVE FALSE
  OBVIOUS
<1> DEFINE F == {s \in SUBSET T : g[s] # h[s]}
<1>1. F \subseteq SUBSET S /\ F # {}
  OBVIOUS
<1>2. PICK s \in F : \A u \in F : u \subseteq s => u = s
  <2> HIDE DEF F
  <2> QED
    BY <1>0, <1>1, SmallestSet
<1>3. s \in SUBSET S /\ s \in SUBSET T
  BY <1>2
<1>4. /\ g[s] = IF s = {} THEN <<>> ELSE Keep(g[s \ {Max(s)}], items[Max(s)])
      /\ h[s] = IF s = {} THEN <<>> ELSE Keep(h[s \ {Max(s)}], items[Max(s)])
  BY <1>3, Zenon DEF KeptOf
<1>5. s # {} => Max(s) \in s
  <2>1. Positions(s)
    BY <1>0, <1>3, FS_Subset DEF Positions
  <2> QED
    BY <2>1, LastIsIn
<1>6. s # {} => g[s \ {Max(s)}] = h[s \ {Max(s)}]
  BY <1>2, <1>5
<1> QED
  BY <1>2, <1>4, <1>6

LEMMA KeptOfExists ==
  ASSUME NEW S, Positions(S)
  PROVE  \E g : KeptOf(S, g)
<1>0. IsFiniteSet(S)
  BY DEF Positions
<1> SUFFICES ASSUME ~ \E g : KeptOf(S, g) PROVE FALSE
  OBVIOUS
<1> DEFINE F == {T \in SUBSET S : ~ \E g : KeptOf(T, g)}
<1>1. F \subseteq SUBSET S /\ F # {}
  OBVIOUS
<1>2. PICK T \in F : \A U \in F : U \subseteq T => U = T
  <2> HIDE DEF F
  <2> QED
    BY <1>0, <1>1, SmallestSet
<1>3. \A s \in SUBSET T : Positions(s) /\ (s # {} => Max(s) \in s)
  <2>1. \A s \in SUBSET T : Positions(s)
    BY <1>0, <1>2, FS_Subset DEF Positions
  <2> QED
    BY <2>1, LastIsIn
<1> DEFINE of(s) == (CHOOSE h : KeptOf(s, h))[s]
           g == [s \in SUBSET T |-> IF s = {} THEN <<>> ELSE Keep(of(s \ {Max(s)}), items[Max(s)])]
<1>4. \A s \in SUBSET T : s # T => KeptOf(s, CHOOSE h : KeptOf(s, h))
  <2> SUFFICES ASSUME NEW s \in SUBSET T, s # T PROVE \E h : KeptOf(s, h)
    OBVIOUS
  <2> QED
    BY <1>2
<1>5. ASSUME NEW s \in SUBSET T, s # T PROVE of(s) = g[s]
  <2> DEFINE h == CHOOSE f : KeptOf(s, f)
  <2>1. KeptOf(s, h)
    BY <1>4, <1>5
  <2>2. h[s] = IF s = {} THEN <<>> ELSE Keep(h[s \ {Max(s)}], items[Max(s)])
    <3> HIDE DEF h
    <3> QED
      BY <2>1, Zenon DEF KeptOf
  <2>3. ASSUME s # {} PROVE h[s \ {Max(s)}] = of(s \ {Max(s)})
    <3> DEFINE u == s \ {Max(s)}
               k == CHOOSE f : KeptOf(u, f)
    <3>1. Max(s) \in s
      BY <1>3, <2>3
    <3>2. u \in SUBSET T /\ u # T /\ u \in SUBSET s
      BY <3>1
    <3>3. KeptOf(u, k)
      BY <1>4, <3>2
    <3>4. Positions(s)
      BY <1>3
    <3> HIDE DEF h, k, u
    <3>5. h[u] = k[u]
      BY <2>1, <3>2, <3>3, <3>4, KeptOfAgree
    <3> QED
      BY <3>5 DEF k, u
  <2>4. h[s] = g[s]
    <3> HIDE DEF h, of
    <3>1. g[s] = IF s = {} THEN <<>> ELSE Keep(of(s \ {Max(s)}), items[Max(s)])
      OBVIOUS
    <3> HIDE DEF g
    <3> QED
      BY <2>2, <2>3, <3>1
  <2> QED
    BY <2>4
<1>6. KeptOf(T, g)
  <2>1. ASSUME NEW s \in SUBSET T, s # {} PROVE of(s \ {Max(s)}) = g[s \ {Max(s)}]
    <3>1. Max(s) \in s
      BY <1>3, <2>1
    <3>2. s \ {Max(s)} \in SUBSET T /\ s \ {Max(s)} # T
      BY <3>1
    <3> HIDE DEF of, g
    <3> QED
      BY <1>5, <3>2
  <2>2. /\ g = [s \in SUBSET T |-> g[s]]
        /\ \A s \in SUBSET T : g[s] = IF s = {} THEN <<>> ELSE Keep(of(s \ {Max(s)}), items[Max(s)])
    OBVIOUS
  <2> HIDE DEF of, g
  <2>3. g = [s \in SUBSET T |-> IF s = {} THEN <<>> ELSE Keep(g[s \ {Max(s)}], items[Max(s)])]
    BY <2>1, <2>2
  <2> QED
    BY <2>3 DEF KeptOf
<1> QED
  BY <1>2, <1>6

(* No more than --max deliveries of the answer are kept, each once.        *)
IsKept(q) ==
    /\ q \in Seq(Delivery) /\ Len(q) <= max
    /\ \A i, j \in 1..Len(q) : q[i] = q[j] => i = j
    /\ \A i \in 1..Len(q) : \E k \in DOMAIN items : q[i] = items[k]

LEMMA KeepKeeps ==
  ASSUME max \in Nat, items \in Seq(Delivery \cup {None}),
         NEW q, IsKept(q), NEW k \in DOMAIN items
  PROVE  IsKept(Keep(q, items[k]))
<1> DEFINE d == items[k]
<1>1. CASE d = None \/ Contains(q, d) \/ Len(q) >= max
  <2>1. Keep(q, d) = q
    BY <1>1, Zenon DEF Keep
  <2> QED
    BY <2>1
<1>2. CASE ~(d = None \/ Contains(q, d) \/ Len(q) >= max)
  <2>1. Keep(q, d) = Append(q, d)
    BY <1>2, Zenon DEF Keep
  <2>2. d \in Delivery /\ ~Contains(q, d) /\ ~(Len(q) >= max)
    BY <1>2
  <2>3. q \in Seq(Delivery) /\ Len(q) \in Nat
    BY DEF IsKept
  <2>4. \A i \in 1..Len(q) : q[i] # d
    BY <2>2 DEF Contains
  <2> DEFINE r == Append(q, d)
  <2>5. /\ r \in Seq(Delivery) /\ Len(r) = Len(q) + 1
        /\ \A i \in 1..Len(q) : r[i] = q[i]
        /\ r[Len(q) + 1] = d
    BY <2>2, <2>3, AppendProperties
  <2>6. Len(r) <= max
    BY <2>2, <2>3, <2>5
  <2> HIDE DEF r, d
  <2>7. \A i \in 1..Len(r) : i \in 1..Len(q) \/ i = Len(q) + 1
    BY <2>3, <2>5
  <2>8. \A i, j \in 1..Len(r) : r[i] = r[j] => i = j
    BY <2>4, <2>5, <2>7 DEF IsKept
  <2>9. \A i \in 1..Len(r) : \E n \in DOMAIN items : r[i] = items[n]
    BY <2>5, <2>7 DEF IsKept, d
  <2> QED
    BY <2>1, <2>5, <2>6, <2>8, <2>9 DEF IsKept, r, d
<1> QED
  BY <1>1, <1>2

LEMMA KeptIsKept ==
  ASSUME max \in Nat, items \in Seq(Delivery \cup {None})
  PROVE  IsKept(Kept)
<1> DEFINE S == DOMAIN items
           g == CHOOSE f : KeptOf(S, f)
           F == {s \in SUBSET S : ~IsKept(g[s])}
<1>1. Kept = g[S]
  BY DEF Kept, FoldLeft, MapThenFoldSet, KeptOf
<1>2. S = 1..Len(items) /\ Len(items) \in Nat
  OBVIOUS
<1>3. Positions(S) /\ IsFiniteSet(S)
  <2>1. IsFiniteSet(1..Len(items))
    BY <1>2, FS_Interval
  <2> QED
    BY <1>2, <2>1 DEF Positions
<1>4. KeptOf(S, g)
  <2> HIDE DEF S
  <2> QED
    BY <1>3, KeptOfExists
<1> HIDE DEF g, S
<1> SUFFICES ASSUME ~IsKept(g[S]) PROVE FALSE
  BY <1>1
<1>5. F \subseteq SUBSET S /\ F # {}
  OBVIOUS
<1>6. PICK s \in F : \A u \in F : u \subseteq s => u = s
  <2> HIDE DEF F
  <2> QED
    BY <1>3, <1>5, SmallestSet
<1>7. s \in SUBSET S /\ ~IsKept(g[s])
  BY <1>6
<1>8. g[s] = IF s = {} THEN <<>> ELSE Keep(g[s \ {Max(s)}], items[Max(s)])
  BY <1>4, <1>7, Zenon DEF KeptOf
<1>9. CASE s = {}
  BY <1>7, <1>8, <1>9, EmptySeq DEF IsKept
<1>10. CASE s # {}
  <2>1. Max(s) \in s
    <3>1. Positions(s)
      BY <1>3, <1>7, FS_Subset DEF Positions
    <3> QED
      BY <1>10, <3>1, LastIsIn
  <2>2. IsKept(g[s \ {Max(s)}])
    BY <1>6, <1>7, <2>1
  <2>3. Max(s) \in DOMAIN items
    BY <1>7, <2>1 DEF S
  <2>4. IsKept(Keep(g[s \ {Max(s)}], items[Max(s)]))
    BY <2>2, <2>3, KeepKeeps
  <2> QED
    BY <1>7, <1>8, <1>10, <2>4
<1> QED
  BY <1>9, <1>10


LEMMA KeptStays ==
  ASSUME items' = items, max' = max
  PROVE  Kept' = Kept
BY DEF Kept, Keep, FoldLeft, MapThenFoldSet

-----------------------------------------------------------------------------
(* A step of one task changes that task alone.                             *)

LEMMA TaskBecomes ==
  ASSUME tasks \in Seq(Task), NEW i \in DOMAIN tasks, NEW t \in Task,
         NEW new, new = [tasks EXCEPT ![i] = t]
  PROVE  /\ new \in Seq(Task) /\ Len(new) = Len(tasks) /\ DOMAIN new = DOMAIN tasks
         /\ new[i] = t
         /\ \A j \in DOMAIN tasks : j # i => new[j] = tasks[j]
<1>1. i \in 1..Len(tasks) /\ Len(tasks) \in Nat
  OBVIOUS
<1> QED
  BY <1>1, ExceptSeq

LEMMA TaskAt ==
  ASSUME tasks \in Seq(Task), NEW i \in DOMAIN tasks, NEW x \in At,
         NEW new, new = [tasks EXCEPT ![i].at = x]
  PROVE  /\ new \in Seq(Task) /\ Len(new) = Len(tasks) /\ DOMAIN new = DOMAIN tasks
         /\ new[i].d = tasks[i].d /\ new[i].at = x /\ new[i].answer = tasks[i].answer
         /\ new[i].first = tasks[i].first
         /\ \A j \in DOMAIN tasks : j # i => new[j] = tasks[j]
<1>1. tasks[i] \in Task /\ i \in 1..Len(tasks) /\ Len(tasks) \in Nat
  OBVIOUS
<1> DEFINE t == [tasks[i] EXCEPT !.at = x]
<1>2. t \in Task /\ t.d = tasks[i].d /\ t.at = x /\ t.answer = tasks[i].answer /\ t.first = tasks[i].first
  BY <1>1 DEF Task
<1>3. new = [tasks EXCEPT ![i] = t]
  OBVIOUS
<1> HIDE DEF t
<1>4. /\ new \in Seq(Task) /\ Len(new) = Len(tasks) /\ DOMAIN new = DOMAIN tasks
      /\ new[i] = t
      /\ \A j \in DOMAIN tasks : j # i => new[j] = tasks[j]
  BY <1>2, <1>3, TaskBecomes, Zenon
<1> QED
  BY <1>2, <1>4, Zenon

LEMMA TaskAnswered ==
  ASSUME tasks \in Seq(Task), NEW i \in DOMAIN tasks, NEW a \in Answer,
         tasks' = [tasks EXCEPT ![i].at = "acking", ![i].answer = a]
  PROVE  /\ tasks' \in Seq(Task) /\ Len(tasks') = Len(tasks) /\ DOMAIN tasks' = DOMAIN tasks
         /\ tasks'[i].d = tasks[i].d /\ tasks'[i].at = "acking" /\ tasks'[i].answer = a
         /\ tasks'[i].first = tasks[i].first
         /\ \A j \in DOMAIN tasks : j # i => tasks'[j] = tasks[j]
<1>1. tasks[i] \in Task /\ i \in 1..Len(tasks) /\ Len(tasks) \in Nat
  OBVIOUS
<1> DEFINE t == [tasks[i] EXCEPT !.at = "acking", !.answer = a]
<1>2. t \in Task /\ t.d = tasks[i].d /\ t.at = "acking" /\ t.answer = a /\ t.first = tasks[i].first
  BY <1>1 DEF Task, At
<1>3. tasks' = [tasks EXCEPT ![i] = t]
  OBVIOUS
<1> HIDE DEF t
<1>4. /\ tasks' \in Seq(Task) /\ Len(tasks') = Len(tasks) /\ DOMAIN tasks' = DOMAIN tasks
      /\ tasks'[i] = t
      /\ \A j \in DOMAIN tasks : j # i => tasks'[j] = tasks[j]
  BY <1>2, <1>3, TaskBecomes, Zenon
<1> QED
  BY <1>2, <1>4, Zenon

LEMMA TaskFirst ==
  ASSUME tasks \in Seq(Task), NEW i \in DOMAIN tasks, NEW f \in BOOLEAN,
         NEW new, new = [tasks EXCEPT ![i].at = "acking", ![i].first = f]
  PROVE  /\ new \in Seq(Task) /\ Len(new) = Len(tasks) /\ DOMAIN new = DOMAIN tasks
         /\ new[i].d = tasks[i].d /\ new[i].at = "acking" /\ new[i].answer = tasks[i].answer
         /\ \A j \in DOMAIN tasks : j # i => new[j] = tasks[j]
<1>1. tasks[i] \in Task /\ i \in 1..Len(tasks) /\ Len(tasks) \in Nat
  OBVIOUS
<1> DEFINE t == [tasks[i] EXCEPT !.at = "acking", !.first = f]
<1>2. t \in Task /\ t.d = tasks[i].d /\ t.at = "acking" /\ t.answer = tasks[i].answer
  BY <1>1 DEF Task, At
<1>3. new = [tasks EXCEPT ![i] = t]
  OBVIOUS
<1> HIDE DEF t
<1>4. /\ new \in Seq(Task) /\ Len(new) = Len(tasks) /\ DOMAIN new = DOMAIN tasks
      /\ new[i] = t
      /\ \A j \in DOMAIN tasks : j # i => new[j] = tasks[j]
  BY <1>2, <1>3, TaskBecomes, Zenon
<1> QED
  BY <1>2, <1>4, Zenon

LEMMA TaskOver ==
  ASSUME tasks \in Seq(Task), NEW i \in DOMAIN tasks, NEW b \in BOOLEAN,
         NEW new, new = [tasks EXCEPT ![i].over = b]
  PROVE  /\ new \in Seq(Task) /\ Len(new) = Len(tasks) /\ DOMAIN new = DOMAIN tasks
         /\ new[i].d = tasks[i].d /\ new[i].at = tasks[i].at /\ new[i].answer = tasks[i].answer
         /\ new[i].first = tasks[i].first
         /\ \A j \in DOMAIN tasks : j # i => new[j] = tasks[j]
<1>1. tasks[i] \in Task /\ i \in 1..Len(tasks) /\ Len(tasks) \in Nat
  OBVIOUS
<1> DEFINE t == [tasks[i] EXCEPT !.over = b]
<1>2. t \in Task /\ t.d = tasks[i].d /\ t.at = tasks[i].at /\ t.answer = tasks[i].answer /\ t.first = tasks[i].first
  BY <1>1 DEF Task
<1>3. new = [tasks EXCEPT ![i] = t]
  OBVIOUS
<1> HIDE DEF t
<1>4. /\ new \in Seq(Task) /\ Len(new) = Len(tasks) /\ DOMAIN new = DOMAIN tasks
      /\ new[i] = t
      /\ \A j \in DOMAIN tasks : j # i => new[j] = tasks[j]
  BY <1>2, <1>3, TaskBecomes, Zenon
<1> QED
  BY <1>2, <1>4, Zenon

-----------------------------------------------------------------------------
(* The parts a step leaves alone.                                          *)

LEMMA SentStays ==
  ASSUME ListenerInv, UNCHANGED <<tasks, remembered, sent, produced, record>>,
         stop = "forced" => stop' = "forced",
         phase \in Stopped => phase' \in Stopped
  PROVE  SentAndKnown' /\ AnswersAreOwn'
BY DEF ListenerInv, SentAndKnown, AnswersAreOwn

-----------------------------------------------------------------------------
(* The invariant holds when the command starts.                            *)

LEMMA ListenerStarts ==
  ASSUME ListenerAssumption, ListenerInit
  PROVE  ListenerInv
<1> USE DEF ListenerInit
<1>1. ListenerTypeOK
  <2>1. <<>> \in Seq(Delivery \cup {None}) /\ <<>> \in Seq(Task) /\ Len(<<>>) = 0
        /\ <<>> \in Seq([d : Delivery, answer : Answer])
    BY EmptySeq
  <2>2. max \in Nat /\ MaxItems \in Nat /\ Memory \in Nat /\ MaxRuns \in Nat \ {0}
    BY DEF ListenerAssumption
  <2>3. 0 <= max /\ 0 <= MaxItems /\ 0 <= Memory /\ 1 \in 1..MaxRuns
    BY <2>2
  <2>4. /\ items \in Seq(Delivery \cup {None}) /\ Len(items) <= MaxItems
        /\ tasks \in Seq(Task) /\ Len(tasks) <= max
        /\ remembered \in Seq([d : Delivery, answer : Answer]) /\ Len(remembered) <= Memory
    BY <2>1, <2>3
  <2> QED
    BY <2>3, <2>4 DEF ListenerTypeOK
<1>2. SentAndKnown /\ Accepted /\ Whereabouts
  BY DEF SentAndKnown, Accepted, Whereabouts
<1>3. AnswersAreOwn
  BY EmptySeq DEF AnswersAreOwn
<1>4. StopIsOrderly
  BY DEF StopIsOrderly, OwedAreAcknowledged, RepeatIsHeard
<1> QED
  BY <1>1, <1>2, <1>3, <1>4 DEF ListenerInv

-----------------------------------------------------------------------------
(* The steps of a pull.                                                    *)

Calm == UNCHANGED <<max, runs, items, tasks, remembered, huevars, counts>>

LEMMA CalmTyping ==
  ASSUME ListenerAssumption, ListenerInv, UNCHANGED <<max, runs, tasks, remembered, counts, record>>,
         items' = items \/ items' = <<>>,
         hue' \in [Delivery -> {"due", "leased", "recorded", "lapsed"}],
         phase' \in {"loop", "pulling", "answering", "reading", "delivering", "waiting", "ended"}
                 \cup Stopped,
         stop' \in {"no", "first", "forced"},
         second' \in BOOLEAN, listening' \in BOOLEAN, fatal' \in BOOLEAN
  PROVE  ListenerTypeOK'
<1>1. ListenerTypeOK
  BY DEF ListenerInv
<1>2. items' \in Seq(Delivery \cup {None}) /\ Len(items') <= MaxItems
  <2>1. <<>> \in Seq(Delivery \cup {None}) /\ Len(<<>>) = 0
    BY EmptySeq
  <2>2. 0 <= MaxItems
    BY DEF ListenerAssumption
  <2>3. items \in Seq(Delivery \cup {None}) /\ Len(items) <= MaxItems
    BY <1>1 DEF ListenerTypeOK
  <2>4. CASE items' = items
    BY <2>3, <2>4
  <2>5. CASE items' = <<>>
    BY <2>1, <2>2, <2>5
  <2> QED
    BY <2>4, <2>5
<1> QED
  BY <1>1, <1>2 DEF ListenerTypeOK, counts

LEMMA BetweenDeliveries ==
  ASSUME ListenerAssumption, ListenerInv,
         \/ BeginPull \/ LoopEnds \/ PullStopped \/ PullFails \/ PullRefused \/ Wake \/ Exit
  PROVE  ListenerInv'
<1> USE DEF BeginPull, LoopEnds, PullStopped, PullFails, PullRefused, Wake, Exit, EndLoop,
            Abortable, fixed, huevars, client
<1>1. ListenerTypeOK /\ SentAndKnown /\ AnswersAreOwn /\ Accepted /\ Whereabouts /\ StopIsOrderly
  BY DEF ListenerInv
<1>2. /\ UNCHANGED <<max, runs, tasks, remembered, counts, record, hue, second>>
      /\ items' = items \/ items' = <<>>
      /\ stop' = stop
  OBVIOUS
<1>3. /\ phase \notin {"reading", "delivering"} \cup Stopped
      /\ phase' \in {"loop", "pulling", "waiting", "ended", "exited"}
  BY DEF Stopped
<1>4. fatal' \in BOOLEAN /\ listening' \in BOOLEAN
  BY <1>1 DEF ListenerTypeOK
<1>5. /\ hue' \in [Delivery -> {"due", "leased", "recorded", "lapsed"}]
      /\ stop' \in {"no", "first", "forced"} /\ second' \in BOOLEAN
  BY <1>1, <1>2 DEF ListenerTypeOK
<1>6. ListenerTypeOK'
  BY <1>2, <1>3, <1>4, <1>5, CalmTyping DEF Stopped
<1>7. SentAndKnown' /\ AnswersAreOwn'
  BY <1>2, <1>3, SentStays DEF counts
<1>8. Accepted'
  BY <1>3 DEF Accepted
<1>9. Whereabouts'
  BY <1>1, <1>2, <1>3 DEF Whereabouts, Stopped
<1>10. StopIsOrderly'
  BY <1>1, <1>2, <1>3 DEF StopIsOrderly, OwedAreAcknowledged, RepeatIsHeard, counts
<1> QED
  BY <1>6, <1>7, <1>8, <1>9, <1>10 DEF ListenerInv

LEMMA Handed ==
  ASSUME ListenerAssumption, ListenerInv, HueAnswers
  PROVE  ListenerInv'
<1> USE DEF HueAnswers, fixed, client
<1>1. ListenerTypeOK /\ SentAndKnown /\ AnswersAreOwn /\ Accepted /\ Whereabouts /\ StopIsOrderly
  BY DEF ListenerInv
<1>2. phase = "pulling" /\ phase' = "answering"
      /\ UNCHANGED <<max, runs, tasks, remembered, counts, record, stop, second, listening, fatal>>
  OBVIOUS
<1>3. items' \in Seq(Delivery \cup {None}) /\ Len(items') <= MaxItems
  <2> DEFINE D == {d \in Delivery : hue[d] \in {"due", "leased"}} \cup {None}
  <2>1. PICK n \in 0..MaxItems : items' \in [1..n -> D]
    OBVIOUS
  <2>2. n \in Nat /\ n <= MaxItems
    BY DEF ListenerAssumption
  <2>3. D \subseteq Delivery \cup {None}
    OBVIOUS
  <2>4. items' \in [1..n -> Delivery \cup {None}]
    BY <2>1, <2>3
  <2> HIDE DEF HueAnswers
  <2> QED
    BY <2>2, <2>4
<1>4. hue' \in [Delivery -> {"due", "leased", "recorded", "lapsed"}]
  BY <1>1 DEF ListenerTypeOK
<1>5. ListenerTypeOK'
  <2> HIDE DEF HueAnswers
  <2> QED
    BY <1>1, <1>2, <1>3, <1>4 DEF ListenerTypeOK, counts
<1>6. SentAndKnown' /\ AnswersAreOwn'
  BY <1>2, SentStays DEF Stopped, counts
<1>7. Accepted'
  BY <1>2 DEF Accepted
<1>8. Whereabouts'
  BY <1>1, <1>2 DEF Whereabouts, Stopped
<1>9. StopIsOrderly'
  BY <1>1, <1>2 DEF StopIsOrderly, OwedAreAcknowledged, RepeatIsHeard, counts
<1> QED
  BY <1>5, <1>6, <1>7, <1>8, <1>9 DEF ListenerInv

LEMMA AcceptedByPull ==
  ASSUME ListenerAssumption, ListenerInv, PullAnswered
  PROVE  ListenerInv'
<1> USE DEF PullAnswered, fixed, client, huevars
<1>1. ListenerTypeOK /\ SentAndKnown /\ AnswersAreOwn /\ Accepted /\ Whereabouts /\ StopIsOrderly
  BY DEF ListenerInv
<1>2. /\ phase = "answering" /\ phase' = "reading"
      /\ UNCHANGED <<max, runs, items, tasks, remembered, hue, record, produced, sent,
                     stop, second, listening, fatal>>
      /\ stop = "no" /\ owed' = owed \cup ToSet(Kept)
  OBVIOUS
<1>3. owed = {}
  BY <1>1, <1>2 DEF StopIsOrderly, OwedAreAcknowledged
<1>4. ToSet(Kept) \subseteq Delivery
  <2>1. max \in Nat /\ items \in Seq(Delivery \cup {None})
    BY <1>1 DEF ListenerTypeOK, ListenerAssumption
  <2>2. Kept \in Seq(Delivery)
    BY <2>1, KeptIsKept DEF IsKept
  <2> QED
    BY <2>2 DEF ToSet
<1>5. ListenerTypeOK'
  BY <1>1, <1>2, <1>4 DEF ListenerTypeOK
<1>6. SentAndKnown' /\ AnswersAreOwn'
  BY <1>2, SentStays DEF Stopped
<1>7. Accepted'
  <2>1. Kept' = Kept
    BY <1>2, KeptStays
  <2>2. owed' = ToSet(Kept)
    BY <1>2, <1>3
  <2>3. (ToSet(Kept))' = ToSet(Kept)
    BY <2>1 DEF ToSet
  <2> QED
    BY <1>2, <2>2, <2>3 DEF Accepted
<1>8. Whereabouts'
  BY <1>1, <1>2 DEF Whereabouts, Stopped
<1>9. StopIsOrderly'
  BY <1>1, <1>2 DEF StopIsOrderly, OwedAreAcknowledged, RepeatIsHeard
<1> QED
  BY <1>5, <1>6, <1>7, <1>8, <1>9 DEF ListenerInv

LEMMA BodyLost ==
  ASSUME ListenerAssumption, ListenerInv, BodyFails
  PROVE  ListenerInv'
<1> USE DEF BodyFails, fixed, client, huevars
<1>1. ListenerTypeOK /\ SentAndKnown /\ AnswersAreOwn /\ Accepted /\ Whereabouts /\ StopIsOrderly
  BY DEF ListenerInv
<1>2. /\ phase = "reading" /\ phase' = "waiting"
      /\ UNCHANGED <<max, runs, tasks, remembered, hue, record, produced, sent,
                     stop, second, listening, fatal>>
      /\ items' = <<>> /\ owed' = {}
  OBVIOUS
<1>3. <<>> \in Seq(Delivery \cup {None}) /\ Len(<<>>) = 0 /\ 0 <= MaxItems
  BY EmptySeq DEF ListenerAssumption
<1>4. items' \in Seq(Delivery \cup {None}) /\ Len(items') <= MaxItems
  BY <1>2, <1>3
<1>5. ListenerTypeOK'
  BY <1>1, <1>2, <1>4 DEF ListenerTypeOK
<1>6. SentAndKnown' /\ AnswersAreOwn'
  BY <1>2, SentStays DEF Stopped
<1>7. Accepted' /\ Whereabouts'
  BY <1>1, <1>2 DEF Accepted, Whereabouts, Stopped
<1>8. StopIsOrderly'
  BY <1>1, <1>2 DEF StopIsOrderly, OwedAreAcknowledged, RepeatIsHeard
<1> QED
  BY <1>5, <1>6, <1>7, <1>8 DEF ListenerInv

-----------------------------------------------------------------------------
(* The tasks of a batch.                                                   *)

LEMMA RememberedIs ==
  ASSUME ListenerTypeOK, NEW j \in DOMAIN remembered
  PROVE  remembered[j] \in [d : Delivery, answer : Answer]
<1>1. remembered \in Seq([d : Delivery, answer : Answer])
  BY DEF ListenerTypeOK
<1> DEFINE S == [d : Delivery, answer : Answer]
<1> HIDE DEF S
<1>2. remembered \in Seq(S)
  BY <1>1 DEF S
<1>3. remembered[j] \in S
  BY <1>2
<1> QED
  BY <1>3 DEF S

LEMMA Starting ==
  ASSUME ListenerInv, NEW d \in Delivery
  PROVE  /\ Start(d) \in Task /\ Start(d).d = d /\ Start(d).first = TRUE
         /\ Start(d).answer # None => Start(d).answer \in produced[d]
         /\ stop # "forced" => Start(d).at \in {"forwarding", "acking"}
         /\ Start(d).at = "forwarding" =>
              stop # "forced" /\ \A j \in DOMAIN remembered : remembered[j].d # d
<1> DEFINE P == Recalled(d)
           a == IF P = {} THEN None ELSE CHOOSE x \in P : TRUE
           at == IF stop = "forced" THEN "done" ELSE IF P = {} THEN "forwarding" ELSE "acking"
<1>1. ListenerTypeOK /\ AnswersAreOwn
  BY DEF ListenerInv
<1>2. \A x \in P : x \in Answer /\ x \in produced[d]
  <2> SUFFICES ASSUME NEW x \in P PROVE x \in Answer /\ x \in produced[d]
    OBVIOUS
  <2>1. PICK j \in DOMAIN remembered : remembered[j].d = d /\ remembered[j].answer = x
    BY DEF Recalled, ToSet
  <2>2. remembered[j] \in [d : Delivery, answer : Answer]
    BY <1>1, <2>1, RememberedIs
  <2>3. remembered[j].answer \in produced[remembered[j].d]
    BY <1>1, <2>1 DEF AnswersAreOwn
  <2> QED
    BY <2>1, <2>2, <2>3
<1>3. P = {} => \A j \in DOMAIN remembered : remembered[j].d # d
  BY DEF Recalled, ToSet
<1>4. Start(d) = [d |-> d, at |-> at, answer |-> a, first |-> TRUE, over |-> FALSE]
  BY DEF Start
<1> HIDE DEF P
<1>5. a # None => a \in P
  OBVIOUS
<1>6. a \in Answer \cup {None}
  BY <1>2, <1>5
<1>7. at \in At /\ (stop # "forced" => at \in {"forwarding", "acking"})
      /\ (at = "forwarding" => stop # "forced" /\ P = {})
  BY DEF At
<1> HIDE DEF a, at
<1>8. /\ Start(d).d = d /\ Start(d).at = at /\ Start(d).answer = a /\ Start(d).first = TRUE
      /\ Start(d) \in Task
  BY <1>4, <1>6, <1>7 DEF Task
<1> QED
  BY <1>2, <1>3, <1>5, <1>7, <1>8

LEMMA BatchStarts ==
  ASSUME ListenerAssumption, ListenerInv, ReadAnswer
  PROVE  ListenerInv'
<1> DEFINE n == Len(Kept)
           Sending(d) == {i \in DOMAIN tasks' : tasks'[i].d = d /\ tasks'[i].at = "forwarding"}
<1>1. ListenerTypeOK /\ SentAndKnown /\ AnswersAreOwn /\ Accepted /\ Whereabouts /\ StopIsOrderly
  BY DEF ListenerInv
<1>2. /\ phase = "reading" /\ phase' = "delivering" /\ items' = <<>>
      /\ UNCHANGED <<max, runs, remembered, hue, record, produced, owed,
                     stop, second, listening, fatal>>
      /\ sent' = [d \in Delivery |-> sent[d] + Cardinality(Sending(d))]
      /\ tasks' = [i \in DOMAIN Kept |-> Start(Kept[i])]
  BY DEF ReadAnswer, fixed, client, huevars
<1>3. tasks = <<>>
  BY <1>1, <1>2 DEF Whereabouts
<1>4. IsKept(Kept)
  <2>1. max \in Nat /\ items \in Seq(Delivery \cup {None})
    BY <1>1 DEF ListenerTypeOK, ListenerAssumption
  <2> QED
    BY <2>1, KeptIsKept
<1>5. n \in Nat /\ n <= max /\ DOMAIN Kept = 1..n /\ \A i \in 1..n : Kept[i] \in Delivery
  BY <1>4 DEF IsKept
<1> HIDE DEF n, Sending
<1>6. DOMAIN tasks' = 1..n /\ \A i \in 1..n : tasks'[i] = Start(Kept[i])
  BY <1>2, <1>5
<1>7. \A i \in 1..n : /\ tasks'[i] \in Task /\ tasks'[i].d = Kept[i] /\ tasks'[i].first = TRUE
                      /\ tasks'[i].answer # None => tasks'[i].answer \in produced[Kept[i]]
                      /\ stop # "forced" => tasks'[i].at \in {"forwarding", "acking"}
                      /\ tasks'[i].at = "forwarding" =>
                           stop # "forced" /\ \A j \in DOMAIN remembered : remembered[j].d # Kept[i]
  <2> SUFFICES ASSUME NEW i \in 1..n
               PROVE  LET t == tasks'[i]
                      IN  /\ t \in Task /\ t.d = Kept[i] /\ t.first = TRUE
                          /\ t.answer # None => t.answer \in produced[Kept[i]]
                          /\ stop # "forced" => t.at \in {"forwarding", "acking"}
                          /\ t.at = "forwarding" =>
                               stop # "forced" /\ \A j \in DOMAIN remembered : remembered[j].d # Kept[i]
    BY Zenon
  <2> DEFINE k == Kept[i]
  <2>1. k \in Delivery /\ tasks'[i] = Start(k)
    BY <1>5, <1>6
  <2> HIDE DEF k
  <2>2. /\ Start(k) \in Task /\ Start(k).d = k /\ Start(k).first = TRUE
        /\ Start(k).answer # None => Start(k).answer \in produced[k]
        /\ stop # "forced" => Start(k).at \in {"forwarding", "acking"}
        /\ Start(k).at = "forwarding" =>
              stop # "forced" /\ \A j \in DOMAIN remembered : remembered[j].d # k
    BY <2>1, Starting
  <2> QED
    BY <2>1, <2>2 DEF k
<1>8. tasks' \in Seq(Task) /\ Len(tasks') = n
  <2>1. tasks' \in [1..n -> Task]
    BY <1>2, <1>5, <1>6, <1>7
  <2> QED
    BY <1>5, <2>1
<1>9. ASSUME NEW d \in Delivery
      PROVE  \/ Sending(d) = {} /\ Cardinality(Sending(d)) = 0
             \/ /\ Cardinality(Sending(d)) = 1 /\ sent[d] = 0
                /\ \E i \in DOMAIN tasks' : tasks'[i].d = d /\ tasks'[i].at = "forwarding"
  <2>1. CASE Sending(d) = {}
    BY <2>1, FS_EmptySet
  <2>2. CASE Sending(d) # {}
    <3>1. PICK i \in 1..n : i \in Sending(d)
      BY <1>6, <2>2 DEF Sending
    <3>2. tasks'[i].at = "forwarding" /\ tasks'[i].d = d
      BY <3>1 DEF Sending
    <3>3. \A j \in Sending(d) : j = i
      <4> SUFFICES ASSUME NEW j \in Sending(d) PROVE j = i
        OBVIOUS
      <4>1. j \in 1..n /\ tasks'[j].d = d
        BY <1>6 DEF Sending
      <4>2. Kept[i] = Kept[j]
        BY <1>7, <3>2, <4>1
      <4> QED
        BY <1>4, <1>5, <4>1, <4>2 DEF IsKept
    <3>4. Sending(d) = {i}
      BY <3>1, <3>3
    <3>5. Cardinality(Sending(d)) = 1
      BY <3>4, FS_Singleton
    <3>6. stop # "forced" /\ \A j \in DOMAIN remembered : remembered[j].d # d
      BY <1>7, <3>2
    <3>7. sent[d] = 0
      BY <1>1, <1>2, <1>3, <3>6, EmptySeq DEF SentAndKnown, Stopped
    <3> QED
      BY <1>6, <3>2, <3>5, <3>7
  <2> QED
    BY <2>1, <2>2
<1>10. \A d \in Delivery : sent[d] \in Nat /\ sent[d] <= 1
  BY <1>1 DEF ListenerTypeOK, SentAndKnown
<1>11. \A d \in Delivery :
         /\ sent'[d] \in Nat /\ sent'[d] <= 1
         /\ sent'[d] = sent[d] \/
              \E i \in DOMAIN tasks' : tasks'[i].d = d /\ tasks'[i].at = "forwarding"
  <2> SUFFICES ASSUME NEW d \in Delivery
               PROVE  /\ sent'[d] \in Nat /\ sent'[d] <= 1
                      /\ sent'[d] = sent[d] \/
                           \E i \in DOMAIN tasks' : tasks'[i].d = d /\ tasks'[i].at = "forwarding"
    OBVIOUS
  <2>1. sent'[d] = sent[d] + Cardinality(Sending(d))
    BY <1>2
  <2> QED
    BY <1>9, <1>10, <2>1
<1>12. ListenerTypeOK'
  <2>1. sent' \in [Delivery -> Nat]
    BY <1>2, <1>11
  <2>2. items' \in Seq(Delivery \cup {None}) /\ Len(items') <= MaxItems
    <3>1. <<>> \in Seq(Delivery \cup {None}) /\ Len(<<>>) = 0 /\ 0 <= MaxItems
      BY EmptySeq DEF ListenerAssumption
    <3> QED
      BY <1>2, <3>1
  <2>3. tasks' \in Seq(Task) /\ Len(tasks') <= max'
    BY <1>2, <1>5, <1>8
  <2> QED
    BY <1>1, <1>2, <2>1, <2>2, <2>3 DEF ListenerTypeOK
<1>13. SentAndKnown'
  BY <1>1, <1>2, <1>3, <1>11, EmptySeq DEF SentAndKnown, Stopped
<1>14. AnswersAreOwn'
  BY <1>1, <1>2, <1>6, <1>7 DEF AnswersAreOwn
<1>15. Accepted'
  <2> SUFFICES ASSUME stop # "forced", NEW d \in owed
               PROVE  \E i \in DOMAIN tasks' :
                        /\ tasks'[i].d = d /\ tasks'[i].at \in {"forwarding", "acking"}
                        /\ tasks'[i].first
    BY <1>2 DEF Accepted
  <2>1. d \in ToSet(Kept)
    BY <1>1, <1>2 DEF Accepted
  <2>2. PICK i \in 1..n : Kept[i] = d
    BY <1>5, <2>1 DEF ToSet
  <2> QED
    BY <1>6, <1>7, <2>2
<1>16. Whereabouts' /\ StopIsOrderly'
  BY <1>1, <1>2 DEF Whereabouts, StopIsOrderly, OwedAreAcknowledged, RepeatIsHeard, Stopped
<1> QED
  BY <1>12, <1>13, <1>14, <1>15, <1>16 DEF ListenerInv

(* The tasks change only while a batch is delivered.                       *)
LEMMA AtWork ==
  ASSUME ListenerInv, NEW i \in DOMAIN tasks
  PROVE  /\ phase = "delivering" /\ tasks \in Seq(Task) /\ Len(tasks) <= max
         /\ tasks[i] \in Task
<1>1. ListenerTypeOK /\ Whereabouts
  BY DEF ListenerInv
<1>2. phase = "delivering"
  BY <1>1, EmptySeq DEF Whereabouts
<1>3. tasks \in Seq(Task) /\ Len(tasks) <= max
  BY <1>1 DEF ListenerTypeOK
<1> QED
  BY <1>2, <1>3

(* A step of one task that sends nothing to the receiver.                  *)
LEMMA TaskMoves ==
  ASSUME ListenerInv, NEW i \in DOMAIN tasks,
         UNCHANGED <<max, runs, phase, stop, second, listening, items, remembered, produced, sent>>,
         /\ tasks' \in Seq(Task) /\ Len(tasks') = Len(tasks) /\ DOMAIN tasks' = DOMAIN tasks
         /\ tasks'[i].d = tasks[i].d /\ tasks'[i].answer = tasks[i].answer
         /\ \A j \in DOMAIN tasks : j # i => tasks'[j] = tasks[j],
         tasks[i].at = "forwarding" => tasks'[i].at = "forwarding",
         owed' \subseteq owed, fatal' \in BOOLEAN,
         hue' \in [Delivery -> {"due", "leased", "recorded", "lapsed"}],
         record' \in [Delivery -> Answer \cup {None}],
         \A d \in Delivery :
           record'[d] = record[d] \/ record'[d] = None \/ record'[d] \in produced[d],
         \/ stop = "forced" \/ tasks[i].d \notin owed'
         \/ tasks[i].at \notin {"forwarding", "acking"} \/ ~tasks[i].first
         \/ tasks'[i].at \in {"forwarding", "acking"} /\ tasks'[i].first
  PROVE  ListenerInv'
<1>1. ListenerTypeOK /\ SentAndKnown /\ AnswersAreOwn /\ Accepted /\ Whereabouts /\ StopIsOrderly
  BY DEF ListenerInv
<1>2. phase = "delivering"
  BY AtWork
<1>3. ListenerTypeOK'
  BY <1>1 DEF ListenerTypeOK
<1>4. SentAndKnown'
  <2> SUFFICES ASSUME NEW d \in Delivery, sent[d] # 0, stop # "forced",
                      ~ \E j \in DOMAIN remembered : remembered[j].d = d
               PROVE  \E k \in DOMAIN tasks : tasks'[k].d = d /\ tasks'[k].at = "forwarding"
    BY <1>1, <1>2 DEF SentAndKnown, Stopped
  <2>1. PICK k \in DOMAIN tasks : tasks[k].d = d /\ tasks[k].at = "forwarding"
    BY <1>1, <1>2 DEF SentAndKnown, Stopped
  <2>2. CASE k = i
    BY <2>1, <2>2
  <2>3. CASE k # i
    BY <2>1, <2>3
  <2> QED
    BY <2>2, <2>3
<1>5. AnswersAreOwn'
  <2>1. \A d \in Delivery : record'[d] # None => record'[d] \in produced[d]
    BY <1>1 DEF AnswersAreOwn
  <2>2. \A k \in DOMAIN tasks : tasks'[k].answer = tasks[k].answer /\ tasks'[k].d = tasks[k].d
    OBVIOUS
  <2> QED
    BY <1>1, <2>1, <2>2 DEF AnswersAreOwn
<1>6. Accepted'
  <2> SUFFICES ASSUME stop # "forced", NEW d \in owed'
               PROVE  \E k \in DOMAIN tasks :
                        /\ tasks'[k].d = d /\ tasks'[k].at \in {"forwarding", "acking"}
                        /\ tasks'[k].first
    BY <1>2 DEF Accepted
  <2>1. PICK k \in DOMAIN tasks : /\ tasks[k].d = d /\ tasks[k].at \in {"forwarding", "acking"}
                                  /\ tasks[k].first
    BY <1>1, <1>2 DEF Accepted
  <2>2. CASE k = i
    BY <2>1, <2>2
  <2>3. CASE k # i
    BY <2>1, <2>3
  <2> QED
    BY <2>2, <2>3
<1>7. Whereabouts' /\ StopIsOrderly'
  BY <1>1, <1>2 DEF Whereabouts, StopIsOrderly, OwedAreAcknowledged, RepeatIsHeard, Stopped
<1> QED
  BY <1>3, <1>4, <1>5, <1>6, <1>7 DEF ListenerInv

LEMMA HueRecords ==
  ASSUME ListenerInv, NEW i \in DOMAIN tasks, Recorded(tasks[i]) \/ UNCHANGED huevars
  PROVE  /\ hue' \in [Delivery -> {"due", "leased", "recorded", "lapsed"}]
         /\ record' \in [Delivery -> Answer \cup {None}]
         /\ \A d \in Delivery : record'[d] = record[d] \/ record'[d] = None \/ record'[d] \in produced[d]
<1>1. ListenerTypeOK /\ AnswersAreOwn
  BY DEF ListenerInv
<1>2. /\ hue \in [Delivery -> {"due", "leased", "recorded", "lapsed"}]
      /\ record \in [Delivery -> Answer \cup {None}]
  BY <1>1 DEF ListenerTypeOK
<1> DEFINE t == tasks[i]
<1>3. t.d \in Delivery /\ t.answer \in Answer \cup {None}
      /\ (t.answer # None => t.answer \in produced[t.d])
  BY <1>1, AtWork DEF Task, AnswersAreOwn
<1> HIDE DEF t
<1>4. Recorded(t) \/ UNCHANGED huevars
  BY DEF t
<1>5. CASE UNCHANGED huevars
  BY <1>2, <1>5 DEF huevars
<1>6. CASE hue' = [hue EXCEPT ![t.d] = "recorded"] /\ record' = [record EXCEPT ![t.d] = t.answer]
  BY <1>2, <1>3, <1>6
<1> QED
  BY <1>4, <1>5, <1>6 DEF Recorded

LEMMA AckSent ==
  ASSUME ListenerInv, NEW i \in DOMAIN tasks, SendAck(i)
  PROVE  ListenerInv'
<1>1. /\ UNCHANGED <<max, runs, phase, stop, second, listening, items, remembered, produced, sent>>
      /\ UNCHANGED <<hue, record, fatal>>
      /\ tasks' = [tasks EXCEPT ![i].at = "sent"] /\ owed' = owed \ {tasks[i].d}
      /\ tasks[i].at = "acking"
  BY DEF SendAck, fixed, client, huevars
<1>2. ListenerTypeOK
  BY DEF ListenerInv
<1>3. "sent" \in At
  BY DEF At
<1>4. /\ tasks' \in Seq(Task) /\ Len(tasks') = Len(tasks) /\ DOMAIN tasks' = DOMAIN tasks
      /\ tasks'[i].d = tasks[i].d /\ tasks'[i].answer = tasks[i].answer
      /\ \A j \in DOMAIN tasks : j # i => tasks'[j] = tasks[j]
  BY <1>1, <1>3, AtWork, TaskAt
<1>5. /\ fatal' \in BOOLEAN /\ hue' \in [Delivery -> {"due", "leased", "recorded", "lapsed"}]
      /\ record' \in [Delivery -> Answer \cup {None}]
  BY <1>1, <1>2 DEF ListenerTypeOK
<1>6. owed' \subseteq owed /\ tasks[i].d \notin owed' /\ tasks[i].at # "forwarding"
      /\ record' = record
  BY <1>1
<1> QED
  BY <1>1, <1>4, <1>5, <1>6, TaskMoves

LEMMA AckGivenUp ==
  ASSUME ListenerInv, NEW i \in DOMAIN tasks, GiveUp(i)
  PROVE  ListenerInv'
<1>1. /\ UNCHANGED <<max, runs, phase, stop, second, listening, items, remembered, produced, sent>>
      /\ UNCHANGED <<hue, record, fatal, owed>>
      /\ tasks' = [tasks EXCEPT ![i].at = "done"]
      /\ tasks[i].at = "acking" /\ (stop = "forced" \/ ~tasks[i].first)
  BY DEF GiveUp, MaySend, fixed, client, huevars, counts
<1>2. ListenerTypeOK
  BY DEF ListenerInv
<1>3. "done" \in At
  BY DEF At
<1>4. /\ tasks' \in Seq(Task) /\ Len(tasks') = Len(tasks) /\ DOMAIN tasks' = DOMAIN tasks
      /\ tasks'[i].d = tasks[i].d /\ tasks'[i].answer = tasks[i].answer
      /\ \A j \in DOMAIN tasks : j # i => tasks'[j] = tasks[j]
  BY <1>1, <1>3, AtWork, TaskAt
<1>5. /\ fatal' \in BOOLEAN /\ hue' \in [Delivery -> {"due", "leased", "recorded", "lapsed"}]
      /\ record' \in [Delivery -> Answer \cup {None}]
  BY <1>1, <1>2 DEF ListenerTypeOK
<1>6. owed' \subseteq owed /\ tasks[i].at # "forwarding" /\ record' = record
  BY <1>1
<1> QED
  BY <1>1, <1>4, <1>5, <1>6, TaskMoves

LEMMA AckAnswer ==
  ASSUME ListenerInv, NEW i \in DOMAIN tasks, AckAnswered(i)
  PROVE  ListenerInv'
<1>1. /\ UNCHANGED <<max, runs, phase, stop, second, listening, items, remembered, produced, sent, owed>>
      /\ tasks' = [tasks EXCEPT ![i].at = "done"] /\ tasks[i].at = "sent"
      /\ fatal' = fatal \/ fatal' = TRUE
      /\ Recorded(tasks[i]) \/ UNCHANGED huevars
  BY Zenon DEF AckAnswered, fixed, counts
<1>2. ListenerTypeOK
  BY DEF ListenerInv
<1>3. "done" \in At
  BY DEF At
<1>4. /\ tasks' \in Seq(Task) /\ Len(tasks') = Len(tasks) /\ DOMAIN tasks' = DOMAIN tasks
      /\ tasks'[i].d = tasks[i].d /\ tasks'[i].answer = tasks[i].answer
      /\ \A j \in DOMAIN tasks : j # i => tasks'[j] = tasks[j]
  BY <1>1, <1>3, AtWork, TaskAt
<1>5. fatal' \in BOOLEAN
  <2>1. fatal \in BOOLEAN
    BY <1>2 DEF ListenerTypeOK
  <2> QED
    BY <1>1, <2>1, Zenon
<1>6. owed' \subseteq owed /\ tasks[i].at # "forwarding" /\ tasks[i].at \notin {"forwarding", "acking"}
  BY <1>1
<1>7. /\ hue' \in [Delivery -> {"due", "leased", "recorded", "lapsed"}]
      /\ record' \in [Delivery -> Answer \cup {None}]
      /\ \A d \in Delivery : record'[d] = record[d] \/ record'[d] = None \/ record'[d] \in produced[d]
  BY <1>1, HueRecords
<1> QED
  BY <1>1, <1>4, <1>5, <1>6, <1>7, TaskMoves

LEMMA AckNotAnswered ==
  ASSUME ListenerInv, NEW i \in DOMAIN tasks, AckUnanswered(i)
  PROVE  ListenerInv'
<1>1. /\ UNCHANGED <<max, runs, phase, stop, second, listening, items, remembered, produced, sent, owed>>
      /\ tasks' = [tasks EXCEPT ![i].at = "acking", ![i].first = FALSE] /\ tasks[i].at = "sent"
      /\ fatal' = fatal
      /\ Recorded(tasks[i]) \/ UNCHANGED huevars
  BY Zenon DEF AckUnanswered, fixed, counts, client
<1>2. ListenerTypeOK
  BY DEF ListenerInv
<1>3. FALSE \in BOOLEAN
  OBVIOUS
<1>4. /\ tasks' \in Seq(Task) /\ Len(tasks') = Len(tasks) /\ DOMAIN tasks' = DOMAIN tasks
      /\ tasks'[i].d = tasks[i].d /\ tasks'[i].answer = tasks[i].answer
      /\ \A j \in DOMAIN tasks : j # i => tasks'[j] = tasks[j]
  BY <1>1, <1>3, AtWork, TaskFirst
<1>5. fatal' \in BOOLEAN
  BY <1>1, <1>2 DEF ListenerTypeOK
<1>6. owed' \subseteq owed /\ tasks[i].at # "forwarding" /\ tasks[i].at \notin {"forwarding", "acking"}
  BY <1>1
<1>7. /\ hue' \in [Delivery -> {"due", "leased", "recorded", "lapsed"}]
      /\ record' \in [Delivery -> Answer \cup {None}]
      /\ \A d \in Delivery : record'[d] = record[d] \/ record'[d] = None \/ record'[d] \in produced[d]
  BY <1>1, HueRecords
<1> QED
  BY <1>1, <1>4, <1>5, <1>6, <1>7, TaskMoves

LEMMA LeaseOver ==
  ASSUME ListenerInv, NEW i \in DOMAIN tasks, DeadlinePasses(i)
  PROVE  ListenerInv'
<1>1. /\ UNCHANGED <<max, runs, phase, stop, second, listening, items, remembered, produced, sent, owed>>
      /\ UNCHANGED <<hue, record, fatal>>
      /\ tasks' = [tasks EXCEPT ![i].over = TRUE]
  BY DEF DeadlinePasses, fixed, client, huevars, counts
<1>2. ListenerTypeOK
  BY DEF ListenerInv
<1>3. TRUE \in BOOLEAN
  OBVIOUS
<1>4. /\ tasks' \in Seq(Task) /\ Len(tasks') = Len(tasks) /\ DOMAIN tasks' = DOMAIN tasks
      /\ tasks'[i].d = tasks[i].d /\ tasks'[i].answer = tasks[i].answer
      /\ tasks'[i].at = tasks[i].at /\ tasks'[i].first = tasks[i].first
      /\ \A j \in DOMAIN tasks : j # i => tasks'[j] = tasks[j]
  BY <1>1, <1>3, AtWork, TaskOver
<1>5. /\ fatal' \in BOOLEAN /\ hue' \in [Delivery -> {"due", "leased", "recorded", "lapsed"}]
      /\ record' \in [Delivery -> Answer \cup {None}]
  BY <1>1, <1>2 DEF ListenerTypeOK
<1>6. owed' \subseteq owed /\ record' = record
  BY <1>1
<1>7. \/ tasks[i].at \notin {"forwarding", "acking"} \/ ~tasks[i].first
      \/ tasks'[i].at \in {"forwarding", "acking"} /\ tasks'[i].first
  BY <1>4
<1> QED
  BY <1>1, <1>4, <1>5, <1>6, <1>7, TaskMoves

LEMMA Remembering ==
  ASSUME ListenerAssumption, ListenerTypeOK, NEW d \in Delivery, NEW a \in Answer, Remember(d, a)
  PROVE  /\ remembered' \in Seq([d : Delivery, answer : Answer]) /\ Len(remembered') <= Memory
         /\ \A j \in DOMAIN remembered' :
              \/ remembered'[j].d = d /\ remembered'[j].answer = a
              \/ \E k \in DOMAIN remembered : remembered'[j] = remembered[k]
         /\ sent' \in [Delivery -> Nat]
         /\ \A e \in Delivery : sent'[e] # 0 =>
              /\ sent'[e] = sent[e]
              /\ e = d \/ (\E k \in DOMAIN remembered : remembered[k].d = e) =>
                   \E j \in DOMAIN remembered' : remembered'[j].d = e
<1> DEFINE R == [d : Delivery, answer : Answer]
           r == [d |-> d, answer |-> a]
           all == Append(remembered, r)
           n == Len(remembered)
           full == Len(all) > Memory
<1>1. remembered \in Seq(R) /\ Len(remembered) <= Memory /\ Memory \in Nat
      /\ sent \in [Delivery -> Nat]
  BY DEF ListenerTypeOK, ListenerAssumption
<1>2. r \in R /\ r.d = d /\ r.answer = a
  OBVIOUS
<1>3. /\ remembered' = IF full THEN Tail(all) ELSE all
      /\ sent' = IF full THEN [sent EXCEPT ![Head(all).d] = 0] ELSE sent
  BY DEF Remember
<1>4. \A x \in R : x.d \in Delivery
  OBVIOUS
<1> HIDE DEF R, r
<1>5. n \in Nat /\ DOMAIN remembered = 1..n
  BY <1>1
<1>6. /\ all \in Seq(R) /\ Len(all) = n + 1 /\ all[n + 1] = r
      /\ \A k \in 1..n : all[k] = remembered[k]
  BY <1>1, <1>2, AppendProperties
<1> HIDE DEF all, n
<1>7. CASE ~full
  <2>1. remembered' = all /\ sent' = sent
    BY <1>3, <1>7
  <2>2. Len(all) <= Memory
    BY <1>1, <1>5, <1>6, <1>7
  <2>3. DOMAIN remembered' = 1..(n + 1) /\ n + 1 \in 1..(n + 1)
        /\ \A k \in 1..n : k \in 1..(n + 1)
    BY <1>5, <1>6, <2>1
  <2>4. \A j \in 1..(n + 1) : j = n + 1 \/ j \in 1..n
    BY <1>5
  <2> QED
    BY <1>1, <1>2, <1>5, <1>6, <2>1, <2>2, <2>3, <2>4 DEF R
<1>8. CASE full
  <2>1. remembered' = Tail(all) /\ sent' = [sent EXCEPT ![Head(all).d] = 0]
    BY <1>3, <1>8
  <2>2. all # <<>>
    BY <1>5, <1>6
  <2>3. /\ Head(all) \in R /\ Head(all) = all[1]
        /\ Tail(all) \in Seq(R) /\ Len(Tail(all)) = n
        /\ \A j \in 1..n : Tail(all)[j] = all[j + 1]
    BY <1>5, <1>6, <2>2, HeadTailProperties
  <2>4. remembered' \in Seq(R) /\ Len(remembered') <= Memory /\ DOMAIN remembered' = 1..n
    BY <1>1, <1>5, <2>1, <2>3 DEF n
  <2>5. ASSUME NEW j \in 1..n
        PROVE  remembered'[j] = r \/ \E k \in 1..n : remembered'[j] = remembered[k]
    <3>1. j = n \/ j + 1 \in 1..n
      BY <1>5
    <3>2. remembered'[j] = all[j + 1]
      BY <2>1, <2>3
    <3> QED
      BY <1>6, <3>1, <3>2
  <2>6. Head(all).d \in Delivery
    BY <1>4, <2>3
  <2>7. sent' \in [Delivery -> Nat] /\ \A e \in Delivery : e # Head(all).d => sent'[e] = sent[e]
    BY <1>1, <2>1
  <2>8. sent'[Head(all).d] = 0
    BY <1>1, <2>1, <2>6
  <2>9. ASSUME NEW e \in Delivery, e # Head(all).d, e = d
        PROVE  \E j \in 1..n : remembered'[j].d = e
    <3>1. n # 0
      BY <1>2, <1>6, <2>3, <2>9
    <3>2. n \in 1..n /\ remembered'[n] = all[n + 1]
      BY <1>5, <2>1, <2>3, <3>1
    <3> QED
      BY <1>2, <1>6, <2>9, <3>2
  <2>10. ASSUME NEW e \in Delivery, e # Head(all).d, NEW k \in 1..n, remembered[k].d = e
         PROVE  \E j \in 1..n : remembered'[j].d = e
    <3>1. all[k].d = e
      BY <1>6, <2>10
    <3>2. k # 1
      BY <2>3, <2>10, <3>1
    <3>3. k - 1 \in 1..n /\ (k - 1) + 1 = k
      BY <1>5, <3>2
    <3>4. remembered'[k - 1] = all[k]
      BY <2>1, <2>3, <3>3
    <3> QED
      BY <3>1, <3>3, <3>4
  <2>11. remembered' \in Seq([d : Delivery, answer : Answer])
    BY <2>4 DEF R
  <2>12. \A j \in DOMAIN remembered' :
           \/ remembered'[j].d = d /\ remembered'[j].answer = a
           \/ \E k \in DOMAIN remembered : remembered'[j] = remembered[k]
    BY <1>2, <1>5, <2>4, <2>5
  <2>13. \A e \in Delivery : sent'[e] # 0 =>
           /\ sent'[e] = sent[e]
           /\ e = d \/ (\E k \in DOMAIN remembered : remembered[k].d = e) =>
                \E j \in DOMAIN remembered' : remembered'[j].d = e
    BY <1>5, <2>4, <2>7, <2>8, <2>9, <2>10
  <2> QED
    BY <2>4, <2>7, <2>11, <2>12, <2>13
<1> QED
  BY <1>7, <1>8

LEMMA ForwardEnds ==
  ASSUME ListenerAssumption, ListenerInv, NEW i \in DOMAIN tasks, Forwarded(i)
  PROVE  ListenerInv'
<1>1. PICK a \in Answer :
        /\ tasks' = [tasks EXCEPT ![i].at = "acking", ![i].answer = a]
        /\ produced' = [produced EXCEPT ![tasks[i].d] = @ \cup {a}]
        /\ Remember(tasks[i].d, a)
  BY DEF Forwarded
<1>2. /\ UNCHANGED <<max, runs, phase, stop, second, listening, fatal, items, hue, record, owed>>
      /\ tasks[i].at = "forwarding"
  BY DEF Forwarded, fixed, client, huevars
<1>3. ListenerTypeOK /\ SentAndKnown /\ AnswersAreOwn /\ Accepted /\ Whereabouts /\ StopIsOrderly
  BY DEF ListenerInv
<1>4. phase = "delivering" /\ tasks \in Seq(Task) /\ Len(tasks) <= max /\ tasks[i] \in Task
  BY AtWork
<1>5. /\ tasks' \in Seq(Task) /\ Len(tasks') = Len(tasks) /\ DOMAIN tasks' = DOMAIN tasks
      /\ tasks'[i].d = tasks[i].d /\ tasks'[i].at = "acking" /\ tasks'[i].answer = a
      /\ tasks'[i].first = tasks[i].first
      /\ \A j \in DOMAIN tasks : j # i => tasks'[j] = tasks[j]
  <2>1. tasks' = [tasks EXCEPT ![i].at = "acking", ![i].answer = a]
    BY <1>1, Zenon
  <2>2. tasks \in Seq(Task) /\ a \in Answer
    BY <1>1, <1>4, Zenon
  <2> QED
    BY <2>1, <2>2, TaskAnswered
<1> DEFINE d == tasks[i].d
<1>6. d \in Delivery
  BY <1>4 DEF Task
<1>7. /\ produced' \in [Delivery -> SUBSET Answer] /\ a \in produced'[d]
      /\ \A e \in Delivery : produced[e] \subseteq produced'[e]
  BY <1>1, <1>3, <1>6 DEF ListenerTypeOK
<1>8. /\ remembered' \in Seq([d : Delivery, answer : Answer]) /\ Len(remembered') <= Memory
      /\ \A j \in DOMAIN remembered' :
           \/ remembered'[j].d = d /\ remembered'[j].answer = a
           \/ \E k \in DOMAIN remembered : remembered'[j] = remembered[k]
      /\ sent' \in [Delivery -> Nat]
      /\ \A e \in Delivery : sent'[e] # 0 =>
           /\ sent'[e] = sent[e]
           /\ e = d \/ (\E k \in DOMAIN remembered : remembered[k].d = e) =>
                \E j \in DOMAIN remembered' : remembered'[j].d = e
  BY <1>1, <1>3, <1>6, Remembering
<1>9. ListenerTypeOK'
  BY <1>2, <1>3, <1>4, <1>5, <1>7, <1>8 DEF ListenerTypeOK
<1> HIDE DEF d
<1>10. SentAndKnown'
  <2>1. \A e \in Delivery : sent'[e] <= 1
    BY <1>3, <1>8 DEF SentAndKnown
  <2>2. ASSUME NEW e \in Delivery, sent'[e] # 0, stop # "forced"
        PROVE  \/ \E k \in DOMAIN tasks' : tasks'[k].d = e /\ tasks'[k].at = "forwarding"
               \/ \E j \in DOMAIN remembered' : remembered'[j].d = e
    <3>1. CASE e = d \/ \E k \in DOMAIN remembered : remembered[k].d = e
      BY <1>8, <2>2, <3>1
    <3>2. CASE e # d /\ ~ \E k \in DOMAIN remembered : remembered[k].d = e
      <4>1. PICK k \in DOMAIN tasks : tasks[k].d = e /\ tasks[k].at = "forwarding"
        BY <1>3, <1>4, <1>8, <2>2, <3>2 DEF SentAndKnown, Stopped
      <4>2. k # i
        BY <3>2, <4>1 DEF d
      <4> QED
        BY <1>5, <4>1, <4>2
    <3> QED
      BY <3>1, <3>2
  <2> QED
    BY <1>2, <2>1, <2>2 DEF SentAndKnown
<1>11. AnswersAreOwn'
  <2>1. \A e \in Delivery : record'[e] # None => record'[e] \in produced'[e]
    BY <1>2, <1>3, <1>7 DEF AnswersAreOwn
  <2>2. ASSUME NEW k \in DOMAIN tasks, tasks'[k].answer # None
        PROVE  tasks'[k].answer \in produced'[tasks'[k].d]
    <3>1. CASE k = i
      BY <1>5, <1>7, <3>1 DEF d
    <3>2. CASE k # i
      <4>1. tasks[k].d \in Delivery
        BY AtWork DEF Task
      <4> QED
        BY <1>3, <1>5, <1>7, <2>2, <3>2, <4>1 DEF AnswersAreOwn
    <3> QED
      BY <3>1, <3>2
  <2>3. ASSUME NEW j \in DOMAIN remembered'
        PROVE  remembered'[j].answer \in produced'[remembered'[j].d]
    <3>1. CASE remembered'[j].d = d /\ remembered'[j].answer = a
      BY <1>7, <3>1
    <3>2. CASE \E k \in DOMAIN remembered : remembered'[j] = remembered[k]
      <4>1. PICK k \in DOMAIN remembered : remembered'[j] = remembered[k]
        BY <3>2
      <4>2. remembered[k].d \in Delivery
        BY <1>3, RememberedIs
      <4> QED
        BY <1>3, <1>7, <4>1, <4>2 DEF AnswersAreOwn
    <3> QED
      BY <1>8, <3>1, <3>2
  <2> QED
    BY <1>5, <2>1, <2>2, <2>3 DEF AnswersAreOwn
<1>12. Accepted'
  <2> SUFFICES ASSUME stop # "forced", NEW e \in owed
               PROVE  \E k \in DOMAIN tasks :
                        /\ tasks'[k].d = e /\ tasks'[k].at \in {"forwarding", "acking"}
                        /\ tasks'[k].first
    BY <1>2, <1>4, <1>5 DEF Accepted
  <2>1. PICK k \in DOMAIN tasks : /\ tasks[k].d = e /\ tasks[k].at \in {"forwarding", "acking"}
                                  /\ tasks[k].first
    BY <1>3, <1>4 DEF Accepted
  <2>2. CASE k = i
    BY <1>5, <2>1, <2>2
  <2>3. CASE k # i
    BY <1>5, <2>1, <2>3
  <2> QED
    BY <2>2, <2>3
<1>13. Whereabouts' /\ StopIsOrderly'
  BY <1>2, <1>3, <1>4 DEF Whereabouts, StopIsOrderly, OwedAreAcknowledged, RepeatIsHeard, Stopped
<1> QED
  BY <1>9, <1>10, <1>11, <1>12, <1>13 DEF ListenerInv

LEMMA BatchOver ==
  ASSUME ListenerAssumption, ListenerInv, BatchEnds
  PROVE  ListenerInv'
<1>1. /\ UNCHANGED <<max, runs, stop, second, listening, fatal, items, remembered, hue, record>>
      /\ UNCHANGED <<produced, sent, owed>>
      /\ phase = "delivering" /\ phase' = "waiting" /\ tasks' = <<>>
      /\ \A i \in DOMAIN tasks : tasks[i].at = "done"
  BY DEF BatchEnds, fixed, client, huevars, counts
<1>2. ListenerTypeOK /\ SentAndKnown /\ AnswersAreOwn /\ Accepted /\ Whereabouts /\ StopIsOrderly
  BY DEF ListenerInv
<1>3. ListenerTypeOK'
  <2>1. <<>> \in Seq(Task) /\ Len(<<>>) = 0 /\ max \in Nat
    BY <1>2, EmptySeq DEF ListenerTypeOK, ListenerAssumption
  <2>2. tasks' \in Seq(Task) /\ Len(tasks') <= max'
    BY <1>1, <2>1
  <2> QED
    BY <1>1, <1>2, <2>2 DEF ListenerTypeOK
<1>4. SentAndKnown'
  BY <1>1, <1>2 DEF SentAndKnown, Stopped
<1>5. AnswersAreOwn'
  BY <1>1, <1>2, EmptySeq DEF AnswersAreOwn
<1>6. Accepted' /\ Whereabouts'
  BY <1>1, <1>2 DEF Accepted, Whereabouts, Stopped
<1>7. stop = "forced" \/ owed = {}
  BY <1>1, <1>2 DEF Accepted
<1>8. StopIsOrderly'
  BY <1>1, <1>7 DEF StopIsOrderly, OwedAreAcknowledged, RepeatIsHeard
<1> QED
  BY <1>3, <1>4, <1>5, <1>6, <1>8 DEF ListenerInv

-----------------------------------------------------------------------------
(* Stopping, time and crashes.                                             *)

(* A second stop ends the forwards, and changes nothing else of a task.    *)
LEMMA ForwardsStop ==
  ASSUME tasks \in Seq(Task), NEW new,
         new = [i \in DOMAIN tasks |->
                  IF tasks[i].at = "forwarding" THEN [tasks[i] EXCEPT !.at = "done"] ELSE tasks[i]]
  PROVE  /\ new \in Seq(Task) /\ Len(new) = Len(tasks) /\ DOMAIN new = DOMAIN tasks
         /\ \A i \in DOMAIN tasks : new[i].d = tasks[i].d /\ new[i].answer = tasks[i].answer
<1> DEFINE n == Len(tasks)
<1>1. n \in Nat /\ DOMAIN tasks = 1..n /\ \A i \in 1..n : tasks[i] \in Task
  OBVIOUS
<1>2. ASSUME NEW i \in 1..n
      PROVE  new[i] \in Task /\ new[i].d = tasks[i].d /\ new[i].answer = tasks[i].answer
  <2> DEFINE t == tasks[i]
  <2>1. t \in Task
    BY <1>1
  <2>2. new[i] = IF t.at = "forwarding" THEN [t EXCEPT !.at = "done"] ELSE t
    BY <1>1
  <2> HIDE DEF t
  <2>3. CASE t.at = "forwarding"
    <3> DEFINE x == "done"
    <3>1. x \in At
      BY DEF At
    <3>2. new[i] = [t EXCEPT !.at = x]
      BY <2>2, <2>3
    <3> HIDE DEF x
    <3>3. [t EXCEPT !.at = x] \in Task /\ [t EXCEPT !.at = x].d = t.d
          /\ [t EXCEPT !.at = x].answer = t.answer
      BY <2>1, <3>1 DEF Task
    <3> QED
      BY <3>2, <3>3 DEF t
  <2>4. CASE t.at # "forwarding"
    BY <2>1, <2>2, <2>4 DEF t
  <2> QED
    BY <2>3, <2>4
<1>3. new \in [1..n -> Task]
  BY <1>1, <1>2
<1> HIDE DEF n
<1> QED
  BY <1>1, <1>2, <1>3 DEF n

LEMMA Interrupted ==
  ASSUME ListenerAssumption, ListenerInv, Interrupt
  PROVE  ListenerInv'
<1>1. ListenerTypeOK /\ SentAndKnown /\ AnswersAreOwn /\ Accepted /\ Whereabouts /\ StopIsOrderly
  BY DEF ListenerInv
<1>2. /\ phase \notin Stopped
      /\ UNCHANGED <<max, runs, second, listening, fatal, items, remembered, hue, record>>
      /\ UNCHANGED <<produced, sent, owed>>
  BY DEF Interrupt, Handle, fixed, huevars, counts
<1>3. CASE stop = "no" /\ stop' = "first" /\ UNCHANGED <<phase, tasks>> /\ listening
  <2>1. ListenerTypeOK'
    BY <1>1, <1>2, <1>3 DEF ListenerTypeOK
  <2>2. SentAndKnown' /\ AnswersAreOwn'
    BY <1>2, <1>3, SentStays
  <2>3. Accepted'
    <3>1. Kept' = Kept
      BY <1>2, KeptStays
    <3> QED
      BY <1>1, <1>2, <1>3, <3>1 DEF Accepted, ToSet
  <2>4. Whereabouts' /\ StopIsOrderly'
    BY <1>1, <1>2, <1>3
       DEF Whereabouts, StopIsOrderly, OwedAreAcknowledged, RepeatIsHeard, Stopped
  <2> QED
    BY <2>1, <2>2, <2>3, <2>4 DEF ListenerInv
<1>4. CASE /\ stop = "first" /\ second /\ stop' = "forced" /\ phase' = phase
           /\ tasks' = [i \in DOMAIN tasks |->
                          IF tasks[i].at = "forwarding" THEN [tasks[i] EXCEPT !.at = "done"]
                          ELSE tasks[i]]
  <2>1. /\ tasks' \in Seq(Task) /\ Len(tasks') = Len(tasks) /\ DOMAIN tasks' = DOMAIN tasks
        /\ \A i \in DOMAIN tasks : tasks'[i].d = tasks[i].d /\ tasks'[i].answer = tasks[i].answer
    BY <1>1, <1>4, ForwardsStop DEF ListenerTypeOK
  <2>2. stop' = "forced" /\ phase' = phase
    BY <1>4
  <2>3. ListenerTypeOK'
    BY <1>1, <1>2, <2>1, <2>2 DEF ListenerTypeOK
  <2>4. SentAndKnown' /\ Accepted'
    BY <1>1, <1>2, <2>2 DEF SentAndKnown, Accepted
  <2>5. AnswersAreOwn'
    BY <1>1, <1>2, <2>1 DEF AnswersAreOwn
  <2>6. Whereabouts'
    <3>1. tasks = <<>> => tasks' = <<>>
      BY <2>1, EmptySeq
    <3> QED
      BY <1>1, <1>2, <1>4, <2>2, <3>1 DEF Whereabouts
  <2>7. StopIsOrderly'
    BY <1>2, <2>2 DEF StopIsOrderly, OwedAreAcknowledged, RepeatIsHeard, Stopped
  <2> QED
    BY <2>3, <2>4, <2>5, <2>6, <2>7 DEF ListenerInv
<1>5. CASE ~listening /\ phase' = "killed" /\ UNCHANGED <<stop, tasks>>
  <2>1. phase = "ended" /\ (stop = "no" \/ second)
    BY <1>1, <1>2, <1>5 DEF Whereabouts
  <2>2. ListenerTypeOK'
    BY <1>1, <1>2, <1>5 DEF ListenerTypeOK, Stopped
  <2>3. SentAndKnown' /\ AnswersAreOwn'
    BY <1>2, <1>5, SentStays
  <2>4. Accepted' /\ Whereabouts'
    BY <1>1, <1>2, <1>5, <2>1 DEF Accepted, Whereabouts, Stopped
  <2>5. StopIsOrderly'
    BY <1>1, <1>2, <1>5, <2>1 DEF StopIsOrderly, OwedAreAcknowledged, RepeatIsHeard
  <2> QED
    BY <2>2, <2>3, <2>4, <2>5 DEF ListenerInv
<1> QED
  BY <1>3, <1>4, <1>5 DEF Interrupt, Handle

LEMMA TimeOfRepeatPasses ==
  ASSUME ListenerAssumption, ListenerInv, SecondPasses
  PROVE  ListenerInv'
<1>1. ListenerTypeOK /\ SentAndKnown /\ AnswersAreOwn /\ Accepted /\ Whereabouts /\ StopIsOrderly
  BY DEF ListenerInv
<1>2. /\ phase \notin Stopped /\ second' = TRUE
      /\ UNCHANGED <<max, runs, phase, stop, fatal, items, tasks, remembered, hue, record>>
      /\ UNCHANGED <<produced, sent, owed>>
      /\ listening' = (listening /\ phase # "ended")
  BY DEF SecondPasses, fixed, huevars, counts
<1>3. ListenerTypeOK'
  <2>1. second' \in BOOLEAN /\ listening' \in BOOLEAN
    BY <1>2
  <2> QED
    BY <1>1, <1>2, <2>1 DEF ListenerTypeOK
<1>4. SentAndKnown' /\ AnswersAreOwn'
  BY <1>2, SentStays
<1>5. Accepted'
  <2>1. Kept' = Kept
    BY <1>2, KeptStays
  <2> QED
    BY <1>1, <1>2, <2>1 DEF Accepted, ToSet
<1>6. Whereabouts' /\ StopIsOrderly'
  BY <1>1, <1>2 DEF Whereabouts, StopIsOrderly, OwedAreAcknowledged, RepeatIsHeard, Stopped
<1> QED
  BY <1>3, <1>4, <1>5, <1>6 DEF ListenerInv

LEMMA LeaseEnds ==
  ASSUME ListenerAssumption, ListenerInv, NEW d \in Delivery, LeaseLapses(d)
  PROVE  ListenerInv'
<1>1. ListenerTypeOK /\ SentAndKnown /\ AnswersAreOwn /\ Accepted /\ Whereabouts /\ StopIsOrderly
  BY DEF ListenerInv
<1>2. /\ UNCHANGED <<max, runs, phase, stop, second, listening, fatal, items, tasks, remembered>>
      /\ UNCHANGED <<record, produced, sent, owed>>
      /\ hue' = [hue EXCEPT ![d] = "lapsed"]
  BY DEF LeaseLapses, fixed, client, counts
<1>3. ListenerTypeOK'
  BY <1>1, <1>2 DEF ListenerTypeOK
<1>4. SentAndKnown' /\ AnswersAreOwn'
  BY <1>2, SentStays
<1>5. Accepted'
  <2>1. Kept' = Kept
    BY <1>2, KeptStays
  <2> QED
    BY <1>1, <1>2, <2>1 DEF Accepted, ToSet
<1>6. Whereabouts' /\ StopIsOrderly'
  BY <1>1, <1>2 DEF Whereabouts, StopIsOrderly, OwedAreAcknowledged, RepeatIsHeard
<1> QED
  BY <1>3, <1>4, <1>5, <1>6 DEF ListenerInv

LEMMA Death ==
  ASSUME ListenerAssumption, ListenerInv, Die
  PROVE  ListenerInv'
<1>1. ListenerTypeOK /\ SentAndKnown /\ AnswersAreOwn /\ Accepted /\ Whereabouts /\ StopIsOrderly
  BY DEF ListenerInv
<1>2. /\ phase' = "dead" /\ items' = <<>> /\ tasks' = <<>>
      /\ UNCHANGED <<max, runs, stop, second, listening, fatal, remembered, hue, record>>
      /\ UNCHANGED <<produced, sent, owed>>
  BY DEF Die, fixed, client, huevars, counts
<1>3. ListenerTypeOK'
  <2>1. /\ <<>> \in Seq(Delivery \cup {None}) /\ <<>> \in Seq(Task) /\ Len(<<>>) = 0
        /\ 0 <= MaxItems /\ max \in Nat
    BY <1>1, EmptySeq DEF ListenerAssumption, ListenerTypeOK
  <2>2. items' \in Seq(Delivery \cup {None}) /\ Len(items') <= MaxItems
    BY <1>2, <2>1
  <2>3. tasks' \in Seq(Task) /\ Len(tasks') <= max'
    BY <1>2, <2>1
  <2> QED
    BY <1>1, <1>2, <2>2, <2>3 DEF ListenerTypeOK, Stopped
<1>4. SentAndKnown' /\ Accepted' /\ Whereabouts'
  BY <1>1, <1>2 DEF SentAndKnown, Accepted, Whereabouts, Stopped
<1>5. AnswersAreOwn'
  BY <1>1, <1>2, EmptySeq DEF AnswersAreOwn
<1>6. StopIsOrderly'
  BY <1>2 DEF StopIsOrderly, OwedAreAcknowledged, RepeatIsHeard
<1> QED
  BY <1>3, <1>4, <1>5, <1>6 DEF ListenerInv

LEMMA StartedAgain ==
  ASSUME ListenerAssumption, ListenerInv, Restart
  PROVE  ListenerInv'
<1>1. ListenerTypeOK /\ AnswersAreOwn
  BY DEF ListenerInv
<1>2. /\ phase' = "loop" /\ stop' = "no" /\ second' = FALSE /\ listening' = TRUE
      /\ fatal' = FALSE /\ items' = <<>> /\ tasks' = <<>> /\ remembered' = <<>>
      /\ sent' = [d \in Delivery |-> 0] /\ owed' = {} /\ max' \in 1..Batch
      /\ runs' = runs + 1 /\ runs < MaxRuns
      /\ UNCHANGED <<hue, record, produced>>
  BY DEF Restart, huevars
<1>3. ListenerTypeOK'
  <2>1. /\ <<>> \in Seq(Delivery \cup {None}) /\ <<>> \in Seq(Task) /\ Len(<<>>) = 0
        /\ <<>> \in Seq([d : Delivery, answer : Answer])
        /\ 0 <= MaxItems /\ 0 <= Memory /\ max' \in Nat
    BY <1>2, EmptySeq DEF ListenerAssumption
  <2>2. items' \in Seq(Delivery \cup {None}) /\ Len(items') <= MaxItems
    BY <1>2, <2>1
  <2>3. tasks' \in Seq(Task) /\ Len(tasks') <= max'
    BY <1>2, <2>1
  <2>4. remembered' \in Seq([d : Delivery, answer : Answer]) /\ Len(remembered') <= Memory
    BY <1>2, <2>1
  <2>5. runs' \in 1..MaxRuns /\ sent' \in [Delivery -> Nat]
    BY <1>1, <1>2 DEF ListenerTypeOK, ListenerAssumption
  <2> QED
    BY <1>1, <1>2, <2>2, <2>3, <2>4, <2>5 DEF ListenerTypeOK
<1>4. SentAndKnown' /\ Accepted' /\ Whereabouts'
  BY <1>2 DEF SentAndKnown, Accepted, Whereabouts
<1>5. AnswersAreOwn'
  BY <1>1, <1>2, EmptySeq DEF AnswersAreOwn
<1>6. StopIsOrderly'
  BY <1>2 DEF StopIsOrderly, OwedAreAcknowledged, RepeatIsHeard
<1> QED
  BY <1>3, <1>4, <1>5, <1>6 DEF ListenerInv

-----------------------------------------------------------------------------
(* The theorems of the listener.                                           *)

LEMMA ListenerIdles ==
  ASSUME ListenerInv, UNCHANGED listenerVars
  PROVE  ListenerInv'
<1>1. /\ UNCHANGED <<max, runs, phase, stop, second, listening, fatal, items, tasks, remembered>>
      /\ UNCHANGED <<hue, record, produced, sent, owed>>
  BY DEF listenerVars, fixed, client, huevars, counts
<1>2. Kept' = Kept
  BY <1>1, KeptStays
<1> QED
  BY <1>1, <1>2
     DEF ListenerInv, ListenerTypeOK, SentAndKnown, AnswersAreOwn, Accepted, Whereabouts,
         StopIsOrderly, OwedAreAcknowledged, RepeatIsHeard, ToSet

LEMMA ListenerSteps ==
  ASSUME ListenerAssumption, ListenerInv, [ListenerNext]_listenerVars
  PROVE  ListenerInv'
<1>1. CASE BeginPull \/ LoopEnds \/ PullStopped \/ PullFails \/ PullRefused \/ Wake \/ Exit
  BY <1>1, BetweenDeliveries
<1>2. CASE HueAnswers
  BY <1>2, Handed
<1>3. CASE PullAnswered
  BY <1>3, AcceptedByPull
<1>4. CASE BodyFails
  BY <1>4, BodyLost
<1>5. CASE ReadAnswer
  BY <1>5, BatchStarts
<1>6. CASE \E i \in DOMAIN tasks : TaskStep(i)
  BY <1>6, ForwardEnds, AckSent, AckGivenUp, AckAnswer, AckNotAnswered DEF TaskStep
<1>7. CASE BatchEnds
  BY <1>7, BatchOver
<1>8. CASE SecondPasses
  BY <1>8, TimeOfRepeatPasses
<1>9. CASE Interrupt
  BY <1>9, Interrupted
<1>10. CASE Die
  BY <1>10, Death
<1>11. CASE Restart
  BY <1>11, StartedAgain
<1>12. CASE \E i \in DOMAIN tasks : DeadlinePasses(i)
  BY <1>12, LeaseOver
<1>13. CASE \E d \in Delivery : LeaseLapses(d)
  BY <1>13, LeaseEnds
<1>14. CASE UNCHANGED listenerVars
  BY <1>14, ListenerIdles
<1> QED
  BY <1>1, <1>2, <1>3, <1>4, <1>5, <1>6, <1>7, <1>8, <1>9, <1>10, <1>11, <1>12, <1>13, <1>14
     DEF ListenerNext, Progress

LEMMA ListenerKeeps == ListenerSpec => []ListenerInv
<1>1. ListenerInit => ListenerInv
  BY ListenerAssumption, ListenerStarts
<1>2. ListenerInv /\ [ListenerNext]_listenerVars => ListenerInv'
  BY ListenerAssumption, ListenerSteps
<1> QED
  BY <1>1, <1>2, PTL DEF ListenerSpec

(* However many deliveries an answer has, whatever is repeated, evicted,   *)
(* stopped or restarted: no more than --max are at work, a request reaches *)
(* the receiver once for as long as its answer is remembered, and Hue      *)
(* records only what a forward of that delivery ended with (deliver,       *)
(* readPull of cli/listen.ts).                                             *)
THEOREM ListenerAnswersOnce == ListenerSpec => []AnsweredOnce
<1>1. ListenerInv => AnsweredOnce
  BY DEF ListenerInv, SentAndKnown, AnswersAreOwn, AnsweredOnce
<1> QED
  BY <1>1, ListenerKeeps, PTL

(* Unless a second stop abandons it, what the command accepted is          *)
(* acknowledged before it goes on or ends, and a stop that repeats the     *)
(* first within the second never ends it by its signal (pull, acknowledge  *)
(* and the `finally` of runListenCommand).                                 *)
THEOREM ListenerStopsInOrder == ListenerSpec => []StopIsOrderly
<1>1. ListenerInv => StopIsOrderly
  BY DEF ListenerInv
<1> QED
  BY <1>1, ListenerKeeps, PTL

-----------------------------------------------------------------------------
(* The invariant.                                                          *)

(* A command that has read its record has what is on disk.                 *)
Working == pc \notin {"idle", "loading", "local"}
InMemory == Working => mem = rec

(* What a command did to get where it is stays so while it runs.           *)
Course ==
    /\ pc # "idle" => outcome = "none"
    /\ pc = "preflight" => rec.file = "written" \/ (rec.file = "absent" /\ Installs)
    /\ Working /\ pc \notin {"preflight", "prepare"} => rec.file = "written"
    /\ pc = "requested" => rec.attempted
    /\ pc = "verifying" => rec.evidence # "none"
    /\ pc \in {"revoking", "concluding"} => rec.evidence = "verified"
    /\ pc = "offering" => rec.handoff.id # 0

(* The application was asked only after the attempt was saved.             *)
AskedOnce ==
    /\ requests <= 1
    /\ requests # 0 => rec.attempted
    /\ pc = "exercising" => rec.attempted /\ requests = 0

(* Every provisioning request of the hour is among the recorded attempts,  *)
(* the one about to be sent included.                                      *)
Counted ==
    /\ aged <= rec.attempts
    /\ posts + (IF pc = "posting" THEN 1 ELSE 0) <= rec.attempts - aged

(* What the record and the command know of Hue is still so there.          *)
KnownOfHue ==
    /\ seen.state = "claimed" => trial = "claimed"
    /\ rec.key = "managed" => trial = "claimed"
    /\ rec.revoked => refused
    /\ rec.evidence # "none" => stored
    /\ offer.state = "pending" => offer.id # 0
    /\ seen.offer.state = "pending" => seen.offer.id # 0

(* The one handoff that may be unanswered is the recorded request.         *)
AnswerAwaited ==
    \A id \in unanswered : id = rec.handoff.id /\ ~rec.handoff.answered

SetupInv ==
    /\ TypeOK /\ RecordIsValid /\ ReadyIsTrue
    /\ InMemory /\ Course /\ AskedOnce /\ Counted /\ KnownOfHue /\ AnswerAwaited

USE SetupAssumption

-----------------------------------------------------------------------------
(* The initial states, and a command that leaves.                          *)

LEMMA NothingTyped ==
  /\ NoRecord \in Records /\ NoHandoff \in Handoffs
  /\ NoStatus \in [state : Trials \cup {"none"}, offer : Offers] /\ NoStatus.offer \in Offers
  /\ 0 \in 0..MaxIds /\ 0 \in 0..Budget /\ 0 \in 0..PerCommand /\ 0 \in 0..MaxFaults
<1>1. 0 \in 0..MaxIds /\ 0 \in 0..Budget /\ 0 \in 0..PerCommand /\ 0 \in 0..MaxFaults
  BY SMT
<1>2. NoHandoff \in Handoffs
  BY <1>1 DEF NoHandoff, Handoffs
<1> QED
  BY <1>1, <1>2, SMT DEF NoRecord, Records, NoStatus, Offers

(* A record that is changed is a record.                                   *)
LEMMA OldTyped ==
  ASSUME NEW r \in Records, NEW b \in BOOLEAN PROVE [r EXCEPT !.old = b] \in Records
BY SMT DEF Records

LEMMA RevokedTyped ==
  ASSUME NEW r \in Records, NEW b \in BOOLEAN PROVE [r EXCEPT !.revoked = b] \in Records
BY SMT DEF Records

LEMMA AttemptedTyped ==
  ASSUME NEW r \in Records, NEW b \in BOOLEAN PROVE [r EXCEPT !.attempted = b] \in Records
BY SMT DEF Records

LEMMA HandoffTyped ==
  ASSUME NEW r \in Records, NEW h \in Handoffs PROVE [r EXCEPT !.handoff = h] \in Records
BY SMT DEF Records

LEMMA KeyTyped ==
  ASSUME NEW r \in Records, NEW key \in {"anonymous", "managed"}, NEW b \in BOOLEAN
  PROVE  [r EXCEPT !.key = key, !.old = b] \in Records
<1> DEFINE s == [r EXCEPT !.key = key]
<1>1. s \in Records
  BY SMT DEF Records
<1>2. [s EXCEPT !.old = b] \in Records
  BY <1>1, OldTyped
<1>3. [s EXCEPT !.old = b] = [r EXCEPT !.key = key, !.old = b]
  BY SMT DEF Records
<1> QED
  BY <1>2, <1>3, Zenon

LEMMA RefusalTyped ==
  ASSUME NEW r \in Records, NEW a \in BOOLEAN, NEW b \in BOOLEAN
  PROVE  [r EXCEPT !.old = a, !.revoked = b] \in Records
<1> DEFINE s == [r EXCEPT !.old = a]
<1>1. [s EXCEPT !.revoked = b] \in Records
  BY OldTyped, RevokedTyped
<1>2. [s EXCEPT !.revoked = b] = [r EXCEPT !.old = a, !.revoked = b]
  OBVIOUS
<1> QED
  BY <1>1, <1>2, Zenon

LEMMA AnsweredTyped ==
  ASSUME NEW r \in Records, NEW b \in BOOLEAN PROVE [r EXCEPT !.handoff.answered = b] \in Records
<1>1. r.handoff \in Handoffs
  BY DEF Records
<1>2. [r.handoff EXCEPT !.answered = b] \in Handoffs
  BY <1>1, SMT DEF Handoffs
<1> QED
  BY <1>2, SMT DEF Records

LEMMA InitInv == Init => SetupInv
<1> SUFFICES ASSUME Init PROVE SetupInv
  OBVIOUS
<1> USE DEF Init
<1>1. TypeOK
  <2>1. 0 \in Nat
    OBVIOUS
  <2> QED
    BY <2>1, NothingTyped, Zenon DEF TypeOK, Trials
<1>2. RecordIsValid /\ ReadyIsTrue
  BY DEF RecordIsValid, ReadyIsTrue, NoRecord
<1>3. InMemory /\ Course /\ AskedOnce /\ Counted
  BY SMT DEF InMemory, Working, Course, AskedOnce, Counted, NoRecord
<1>4. KnownOfHue /\ AnswerAwaited
  BY DEF KnownOfHue, AnswerAwaited, NoRecord, NoStatus
<1> QED
  BY <1>1, <1>2, <1>3, <1>4 DEF SetupInv

(* What Hue has is there for ever; only its answers are counted.           *)
Onwards ==
    /\ trial' \in Trials /\ (trial = "claimed" => trial' = "claimed")
    /\ posts' = posts \/ (pc = "posting" /\ posts' = posts + 1)
    /\ UNCHANGED <<offer, refused, stored, aged, requests, unanswered, ids>>
    /\ checkpointed' \in BOOLEAN /\ faults' \in 0..MaxFaults

(* A command that ends, fails or is killed leaves a record as it was.      *)
LEMMA LeaveKeeps ==
  ASSUME SetupInv, Onwards, locked' \in BOOLEAN,
         NEW o \in {"none", "failed", "unchanged", "action_required"}, Leave(o, rec)
  PROVE  SetupInv'
<1> USE DEF SetupInv, Onwards, Leave
<1>1. TypeOK'
  <2> USE NothingTyped DEF TypeOK
  <2>1. posts' \in Nat
    BY SMT
  <2>2. pc' = "idle" /\ mem' \in Records /\ rec' \in Records
    BY Zenon
  <2>3. /\ tries' \in 0..PerCommand
        /\ seen' \in [state : Trials \cup {"none"}, offer : Offers]
        /\ outcome' \in {"none", "failed", "unchanged", "action_required", "ready"}
    BY Zenon
  <2> QED
    BY <2>1, <2>2, <2>3, Zenon
<1>2. RecordIsValid' /\ ReadyIsTrue'
  BY DEF RecordIsValid, ReadyIsTrue
<1>3. InMemory' /\ Course'
  BY DEF InMemory, Working, Course
<1>4. AskedOnce'
  BY DEF AskedOnce
<1>5. Counted'
  <2>1. rec' = rec /\ aged' = aged /\ pc' # "posting"
    OBVIOUS
  <2>2. rec.attempts \in Nat /\ aged \in Nat /\ posts \in Nat
    BY SMT DEF TypeOK, Records
  <2>3. CASE pc = "posting"
    BY <2>1, <2>2, <2>3, SMT DEF Counted
  <2>4. CASE pc # "posting"
    BY <2>1, <2>2, <2>4, SMT DEF Counted
  <2> QED
    BY <2>3, <2>4
<1>6. KnownOfHue'
  BY DEF KnownOfHue, NoStatus
<1>7. AnswerAwaited'
  BY DEF AnswerAwaited
<1> QED
  BY <1>1, <1>2, <1>3, <1>4, <1>5, <1>6, <1>7

(* The command goes on over the record it has read.                        *)
LEMMA MoveKeeps ==
  ASSUME SetupInv, Onwards, UNCHANGED rec,
         mem' = rec,
         NEW place, Go(place),
         place \in {"preflight", "prepare", "provisioning", "status", "credentials", "claimed", "evidence",
                    "verifying", "handoff", "restart", "offering", "revoking", "concluding"},
         seen' \in [state : Trials \cup {"none"}, offer : Offers],
         seen'.state = "claimed" => trial' = "claimed",
         seen'.offer.state = "pending" => seen'.offer.id # 0,
         refreshed' \in BOOLEAN, old' \in BOOLEAN, tries' \in 0..PerCommand,
         pc # "idle",
         place = "preflight" => rec.file = "written" \/ (rec.file = "absent" /\ Installs),
         place \notin {"preflight", "prepare"} => rec.file = "written",
         place = "verifying" => rec.evidence # "none",
         place \in {"revoking", "concluding"} => rec.evidence = "verified",
         place = "offering" => rec.handoff.id # 0
  PROVE  SetupInv'
<1> USE DEF SetupInv, Onwards, Go
<1>1. TypeOK'
  BY SMT DEF TypeOK
<1>2. RecordIsValid' /\ ReadyIsTrue'
  BY DEF RecordIsValid, ReadyIsTrue, Course
<1>3. InMemory' /\ Course'
  BY DEF InMemory, Working, Course, Installs
<1>4. AskedOnce'
  BY DEF AskedOnce
<1>5. Counted'
  <2>1. rec' = rec /\ aged' = aged /\ pc' # "posting"
    OBVIOUS
  <2>2. rec.attempts \in Nat /\ aged \in Nat /\ posts \in Nat
    BY SMT DEF TypeOK, Records
  <2>3. CASE pc = "posting"
    BY <2>1, <2>2, <2>3, SMT DEF Counted
  <2>4. CASE pc # "posting"
    BY <2>1, <2>2, <2>4, SMT DEF Counted
  <2> QED
    BY <2>3, <2>4
<1>6. KnownOfHue'
  BY DEF KnownOfHue
<1>7. AnswerAwaited'
  BY DEF AnswerAwaited
<1> QED
  BY <1>1, <1>2, <1>3, <1>4, <1>5, <1>6, <1>7

-----------------------------------------------------------------------------
(* The steps that replace the record.                                      *)
USE DEF SetupInv, Go, Save, InMemory, Working, hue_vars, history, status_vars, record_vars

(* The file of a new record is made.                                       *)
LEMMA CreateSaved ==
  ASSUME SetupInv, Create
  PROVE  SetupInv'
<1>1. TypeOK'
  BY SMT DEF TypeOK, Records, Handoffs, Counted, KnownOfHue, Create
<1>2. RecordIsValid' /\ ReadyIsTrue'
  BY DEF RecordIsValid, ReadyIsTrue, Course, TypeOK, Records, NoRecord, KnownOfHue, Create
<1>3. InMemory' /\ Course'
  BY DEF Course, Installs, TypeOK, Records, Create
<1>4. AskedOnce'
  BY DEF AskedOnce, TypeOK, Records, Create
<1>5. Counted'
  BY SMT DEF Counted, TypeOK, Records, Create
<1>6. KnownOfHue'
  BY DEF KnownOfHue, RecordIsValid, Course, TypeOK, Records, Create
<1>7. AnswerAwaited'
  BY DEF AnswerAwaited, TypeOK, Records, Handoffs, Create
<1> QED
  BY <1>1, <1>2, <1>3, <1>4, <1>5, <1>6, <1>7

(* Its identity is written, before anything is sent.                       *)
LEMMA PrepareSaved ==
  ASSUME SetupInv, Prepare
  PROVE  SetupInv'
<1>1. TypeOK'
  BY SMT DEF TypeOK, Records, Handoffs, Counted, KnownOfHue, Prepare
<1>2. RecordIsValid' /\ ReadyIsTrue'
  BY DEF RecordIsValid, ReadyIsTrue, Course, TypeOK, Records, NoRecord, KnownOfHue, Prepare
<1>3. InMemory' /\ Course'
  BY DEF Course, Installs, TypeOK, Records, Prepare
<1>4. AskedOnce'
  BY DEF AskedOnce, TypeOK, Records, Prepare
<1>5. Counted'
  BY SMT DEF Counted, TypeOK, Records, Prepare
<1>6. KnownOfHue'
  BY DEF KnownOfHue, RecordIsValid, Course, TypeOK, Records, Prepare
<1>7. AnswerAwaited'
  BY DEF AnswerAwaited, TypeOK, Records, Handoffs, Prepare
<1> QED
  BY <1>1, <1>2, <1>3, <1>4, <1>5, <1>6, <1>7

(* An attempt is counted before it is made.                                *)
LEMMA RecordAttemptSaved ==
  ASSUME SetupInv, RecordAttempt
  PROVE  SetupInv'
<1>1. TypeOK'
  BY SMT DEF TypeOK, Records, Handoffs, Counted, KnownOfHue, RecordAttempt, MayTry
<1>2. RecordIsValid' /\ ReadyIsTrue'
  BY DEF RecordIsValid, ReadyIsTrue, Course, TypeOK, Records, NoRecord, KnownOfHue, RecordAttempt, MayTry
<1>3. InMemory' /\ Course'
  BY DEF Course, Installs, TypeOK, Records, RecordAttempt, MayTry
<1>4. AskedOnce'
  BY DEF AskedOnce, TypeOK, Records, RecordAttempt, MayTry
<1>5. Counted'
  BY SMT DEF Counted, TypeOK, Records, RecordAttempt, MayTry
<1>6. KnownOfHue'
  BY DEF KnownOfHue, RecordIsValid, Course, TypeOK, Records, RecordAttempt, MayTry
<1>7. AnswerAwaited'
  BY DEF AnswerAwaited, TypeOK, Records, Handoffs, RecordAttempt, MayTry
<1> QED
  BY <1>1, <1>2, <1>3, <1>4, <1>5, <1>6, <1>7

(* A key is saved, with the one it supersedes.                             *)
LEMMA CredentialsSaved ==
  ASSUME SetupInv, Credentials
  PROVE  SetupInv'
<1>1. TypeOK'
  <2>1. rec' \in Records
    <3>1. (Generation = "managed" /\ (mem.key = "anonymous" \/ mem.old)) \in BOOLEAN
      OBVIOUS
    <3>2. Generation \in {"anonymous", "managed"} /\ mem \in Records
      BY DEF Generation, TypeOK
    <3> QED
      BY <3>1, <3>2, KeyTyped DEF Credentials, WithKey
  <2>2. /\ pc' \in {"claimed", "evidence", "exercising", "concluding"} /\ mem' = rec'
        /\ unanswered' \subseteq 1..MaxIds
    BY DEF TypeOK, Credentials, WithKey, Generation, Current
  <2>3. /\ UNCHANGED <<seen, refreshed, old, tries, checkpointed, trial, offer, refused, stored>>
        /\ UNCHANGED <<aged, posts, requests, unanswered, ids, faults>>
        /\ UNCHANGED <<command, locked, outcome>>
    BY DEF Credentials
  <2> HIDE DEF Credentials
  <2> QED
    BY <2>1, <2>2, <2>3 DEF TypeOK
<1>2. RecordIsValid' /\ ReadyIsTrue'
  BY DEF RecordIsValid, ReadyIsTrue, Course, TypeOK, Records, NoRecord, KnownOfHue, Credentials, WithKey, Generation, Current
<1>3. InMemory' /\ Course'
  BY DEF Course, Installs, TypeOK, Records, Credentials, WithKey, Generation, Current
<1>4. AskedOnce'
  BY DEF AskedOnce, TypeOK, Records, Credentials, WithKey, Generation, Current
<1>5. Counted'
  BY SMT DEF Counted, TypeOK, Records, Credentials, WithKey, Generation, Current
<1>6. KnownOfHue'
  BY DEF KnownOfHue, RecordIsValid, Course, TypeOK, Records, Credentials, WithKey, Generation, Current
<1>7. AnswerAwaited'
  BY DEF AnswerAwaited, TypeOK, Records, Handoffs, Credentials, WithKey, Generation, Current
<1> QED
  BY <1>1, <1>2, <1>3, <1>4, <1>5, <1>6, <1>7

(* A claimed installation needs no handoff any more.                       *)
LEMMA DropHandoffSaved ==
  ASSUME SetupInv, DropHandoff
  PROVE  SetupInv'
<1>1. TypeOK'
  <2>1. rec' \in Records
    BY NothingTyped, HandoffTyped DEF TypeOK, DropHandoff
  <2>2. /\ pc' \in {"claimed", "evidence", "exercising", "concluding"} /\ mem' = rec'
        /\ unanswered' \subseteq 1..MaxIds
    BY DEF TypeOK, DropHandoff, NoHandoff
  <2> QED
    BY <2>1, <2>2, Zenon DEF TypeOK, DropHandoff, NoHandoff
<1>2. RecordIsValid' /\ ReadyIsTrue'
  BY DEF RecordIsValid, ReadyIsTrue, Course, TypeOK, Records, NoRecord, KnownOfHue, DropHandoff, NoHandoff
<1>3. InMemory' /\ Course'
  BY DEF Course, Installs, TypeOK, Records, DropHandoff, NoHandoff
<1>4. AskedOnce'
  BY DEF AskedOnce, TypeOK, Records, DropHandoff, NoHandoff
<1>5. Counted'
  BY SMT DEF Counted, TypeOK, Records, DropHandoff, NoHandoff
<1>6. KnownOfHue'
  BY DEF KnownOfHue, RecordIsValid, Course, TypeOK, Records, DropHandoff, NoHandoff
<1>7. AnswerAwaited'
  BY DEF AnswerAwaited, TypeOK, Records, Handoffs, DropHandoff, NoHandoff
<1> QED
  BY <1>1, <1>2, <1>3, <1>4, <1>5, <1>6, <1>7

(* The attempt is saved before the application is asked.                   *)
LEMMA AttemptSaved ==
  ASSUME SetupInv, pc = "evidence", MayExercise,
         Save([mem EXCEPT !.attempted = TRUE]), Go("exercising"),
         UNCHANGED <<status_vars, tries, checkpointed, hue_vars, history, ids, faults>>
  PROVE  SetupInv'
<1>1. TypeOK'
  <2>1. rec' \in Records
    BY AttemptedTyped, TRUE \in BOOLEAN DEF TypeOK
  <2>2. /\ pc' \in {"claimed", "evidence", "exercising", "concluding"} /\ mem' = rec'
        /\ unanswered' \subseteq 1..MaxIds
    BY DEF TypeOK, MayExercise
  <2> QED
    BY <2>1, <2>2, Zenon DEF TypeOK, MayExercise
<1>2. RecordIsValid' /\ ReadyIsTrue'
  BY DEF RecordIsValid, ReadyIsTrue, Course, TypeOK, Records, NoRecord, KnownOfHue, MayExercise
<1>3. InMemory' /\ Course'
  BY DEF Course, Installs, TypeOK, Records, MayExercise
<1>4. AskedOnce'
  BY DEF AskedOnce, TypeOK, Records, MayExercise
<1>5. Counted'
  BY SMT DEF Counted, TypeOK, Records, MayExercise
<1>6. KnownOfHue'
  BY DEF KnownOfHue, RecordIsValid, Course, TypeOK, Records, MayExercise
<1>7. AnswerAwaited'
  BY DEF AnswerAwaited, TypeOK, Records, Handoffs, MayExercise
<1> QED
  BY <1>1, <1>2, <1>3, <1>4, <1>5, <1>6, <1>7

(* The application's evidence is saved.                                    *)
LEMMA EvidenceSaved ==
  ASSUME SetupInv, pc = "requested", stored,
         Save([mem EXCEPT !.evidence = "unverified"]), Go("verifying"),
         UNCHANGED <<status_vars, tries, checkpointed, hue_vars, history, ids, faults>>
  PROVE  SetupInv'
<1>1. TypeOK'
  BY SMT DEF TypeOK, Records, Handoffs, Counted, KnownOfHue
<1>2. RecordIsValid' /\ ReadyIsTrue'
  BY DEF RecordIsValid, ReadyIsTrue, Course, TypeOK, Records, NoRecord, KnownOfHue
<1>3. InMemory' /\ Course'
  BY DEF Course, Installs, TypeOK, Records
<1>4. AskedOnce'
  BY DEF AskedOnce, TypeOK, Records
<1>5. Counted'
  BY SMT DEF Counted, TypeOK, Records
<1>6. KnownOfHue'
  BY DEF KnownOfHue, RecordIsValid, Course, TypeOK, Records
<1>7. AnswerAwaited'
  BY DEF AnswerAwaited, TypeOK, Records, Handoffs
<1> QED
  BY <1>1, <1>2, <1>3, <1>4, <1>5, <1>6, <1>7

(* The receipt has verified it.                                            *)
LEMMA ReceiptSaved ==
  ASSUME SetupInv, pc = "verifying", Save([mem EXCEPT !.evidence = "verified"]),
         Go(IF seen.state = "claimed" THEN "revoking" ELSE "handoff"),
         UNCHANGED <<status_vars, tries, checkpointed, hue_vars, history, ids, faults>>
  PROVE  SetupInv'
<1>1. TypeOK'
  BY SMT DEF TypeOK, Records, Handoffs, Counted, KnownOfHue
<1>2. RecordIsValid' /\ ReadyIsTrue'
  BY DEF RecordIsValid, ReadyIsTrue, Course, TypeOK, Records, NoRecord, KnownOfHue
<1>3. InMemory' /\ Course'
  BY DEF Course, Installs, TypeOK, Records
<1>4. AskedOnce'
  BY DEF AskedOnce, TypeOK, Records
<1>5. Counted'
  BY SMT DEF Counted, TypeOK, Records
<1>6. KnownOfHue'
  BY DEF KnownOfHue, RecordIsValid, Course, TypeOK, Records
<1>7. AnswerAwaited'
  BY DEF AnswerAwaited, TypeOK, Records, Handoffs
<1> QED
  BY <1>1, <1>2, <1>3, <1>4, <1>5, <1>6, <1>7

(* The anonymous key was seen to be refused.                               *)
LEMMA RefusalSaved ==
  ASSUME SetupInv, pc = "revoking", refused, mem.old,
         Save([mem EXCEPT !.old = FALSE, !.revoked = TRUE]), Go("concluding"),
         UNCHANGED <<status_vars, tries, checkpointed, hue_vars, history, ids, faults>>
  PROVE  SetupInv'
<1>1. TypeOK'
  <2>1. rec' \in Records
    BY RefusalTyped, TRUE \in BOOLEAN, FALSE \in BOOLEAN DEF TypeOK
  <2>2. /\ pc' \in {"claimed", "evidence", "exercising", "concluding"} /\ mem' = rec'
        /\ unanswered' \subseteq 1..MaxIds
    BY DEF TypeOK
  <2> QED
    BY <2>1, <2>2, Zenon DEF TypeOK
<1>2. RecordIsValid' /\ ReadyIsTrue'
  BY DEF RecordIsValid, ReadyIsTrue, Course, TypeOK, Records, NoRecord, KnownOfHue
<1>3. InMemory' /\ Course'
  BY DEF Course, Installs, TypeOK, Records
<1>4. AskedOnce'
  BY DEF AskedOnce, TypeOK, Records
<1>5. Counted'
  BY SMT DEF Counted, TypeOK, Records
<1>6. KnownOfHue'
  BY DEF KnownOfHue, RecordIsValid, Course, TypeOK, Records
<1>7. AnswerAwaited'
  BY DEF AnswerAwaited, TypeOK, Records, Handoffs
<1> QED
  BY <1>1, <1>2, <1>3, <1>4, <1>5, <1>6, <1>7

(* A handoff is asked for.                                                 *)
LEMMA AskSaved ==
  ASSUME SetupInv, pc \in {"handoff", "restart"}, ~Unanswered,
         NEW handoff \in Handoffs, handoff.id # 0, ~handoff.answered, Ask(handoff),
         ids' \in 0..MaxIds, UNCHANGED <<checkpointed, hue_vars, history, faults>>
  PROVE  SetupInv'
<1>1. TypeOK'
  BY SMT DEF TypeOK, Records, Handoffs, Counted, KnownOfHue, Ask, Unanswered
<1>2. RecordIsValid' /\ ReadyIsTrue'
  BY DEF RecordIsValid, ReadyIsTrue, Course, TypeOK, Records, NoRecord, KnownOfHue, Ask, Unanswered
<1>3. InMemory' /\ Course'
  BY DEF Course, Installs, TypeOK, Records, Ask, Unanswered
<1>4. AskedOnce'
  BY DEF AskedOnce, TypeOK, Records, Ask, Unanswered
<1>5. Counted'
  BY SMT DEF Counted, TypeOK, Records, Ask, Unanswered
<1>6. KnownOfHue'
  BY DEF KnownOfHue, RecordIsValid, Course, TypeOK, Records, Ask, Unanswered
<1>7. AnswerAwaited'
  BY DEF AnswerAwaited, TypeOK, Records, Handoffs, Ask, Unanswered
<1> QED
  BY <1>1, <1>2, <1>3, <1>4, <1>5, <1>6, <1>7

-----------------------------------------------------------------------------
(* The steps that end a command, or let it go on over the same record.     *)

(* A command that fails, or needs the owner, ends.                         *)
LEMMA EndKeeps ==
  ASSUME SetupInv, Onwards,
         NEW o \in {"failed", "unchanged", "action_required"}, End(o)
  PROVE  SetupInv'
BY LeaveKeeps DEF End, EndWith

LEMMA ReadKeeps ==
  ASSUME SetupInv, Load \/ Local \/ Preflight \/ NotNow PROVE SetupInv'
<1>2. Onwards
  <2>1. UNCHANGED <<hue_vars, history, ids>>
    BY DEF Load, Local, Preflight, NotNow
  <2>2. checkpointed' \in BOOLEAN
    BY TRUE \in BOOLEAN, Zenon DEF TypeOK, Load, Local, Preflight, NotNow
  <2>3. faults' \in 0..MaxFaults
    BY SMT DEF TypeOK, Load, Local, Preflight, NotNow, Fault
  <2> QED
    BY <2>1, <2>2, <2>3 DEF Onwards, TypeOK
<1>3. CASE Load /\ ~(\E o \in {"failed", "unchanged", "action_required"} : End(o))
  <2>1. checkpointed' = TRUE /\ Go("local") /\ UNCHANGED <<status_vars, tries, record_vars>>
    BY <1>3, Zenon DEF Load
  <2> QED
  <3>0. pc = "loading" BY <1>3 DEF Load
  <3>1. TypeOK'
    BY <1>2, <2>1, <3>0 DEF TypeOK, Onwards
  <3>2. RecordIsValid' /\ ReadyIsTrue' /\ InMemory' /\ Course'
    BY <1>2, <2>1, <3>0 DEF RecordIsValid, ReadyIsTrue, Course, Onwards
  <3>3. AskedOnce' /\ KnownOfHue' /\ AnswerAwaited'
    BY <1>2, <2>1, <3>0 DEF AskedOnce, KnownOfHue, AnswerAwaited, Onwards
  <3>4. Counted'
    BY <1>2, <2>1, <3>0, SMT DEF Counted, TypeOK, Onwards
  <3> QED
    BY <3>1, <3>2, <3>3, <3>4
<1>4. CASE Local /\ ~(\E o \in {"failed", "unchanged", "action_required"} : End(o))
  <2>1. /\ rec.file = "written" \/ (rec.file = "absent" /\ Installs)
        /\ mem' = rec /\ Go("preflight") /\ UNCHANGED <<status_vars, tries, rec>>
        /\ pc = "local"
    BY <1>4, Zenon DEF Local
  <2>2. /\ seen' = seen /\ seen \in [state : Trials \cup {"none"}, offer : Offers]
        /\ (seen.state = "claimed" => trial' = "claimed")
        /\ (seen.offer.state = "pending" => seen.offer.id # 0)
        /\ refreshed' \in BOOLEAN /\ old' \in BOOLEAN /\ tries' \in 0..PerCommand
        /\ pc # "idle" /\ rec' = rec
    BY <1>2, <2>1, Zenon DEF TypeOK, KnownOfHue, Onwards
  <2> HIDE DEF SetupInv, Go
  <2> QED
    BY <1>2, <2>1, <2>2, MoveKeeps
<1>5. CASE Preflight
  <2>1. Go(IF Installs THEN "prepare" ELSE "status") /\ UNCHANGED <<status_vars, tries, record_vars>>
    BY <1>5 DEF Preflight
  <2>2. mem' = rec /\ pc = "preflight"
    BY <1>5 DEF Preflight
  <2>3. rec.file = "written" \/ Installs
    BY <2>2 DEF Course
  <2>4. /\ seen' = seen /\ seen \in [state : Trials \cup {"none"}, offer : Offers]
        /\ (seen.state = "claimed" => trial' = "claimed")
        /\ (seen.offer.state = "pending" => seen.offer.id # 0)
        /\ refreshed' \in BOOLEAN /\ old' \in BOOLEAN /\ tries' \in 0..PerCommand
        /\ rec' = rec
    BY <1>2, <2>1, Zenon DEF TypeOK, KnownOfHue, Onwards
  <2> HIDE DEF SetupInv, Go
  <2>5. CASE Installs
    BY <1>2, <2>1, <2>2, <2>3, <2>4, <2>5, MoveKeeps
  <2>6. CASE ~Installs
    BY <1>2, <2>1, <2>2, <2>3, <2>4, <2>6, MoveKeeps
  <2> QED
    BY <2>5, <2>6
<1>6. CASE NotNow
  BY <1>2, <1>6, EndKeeps DEF NotNow
<1>7. CASE \E o \in {"failed", "unchanged", "action_required"} : End(o)
  BY <1>2, <1>7, EndKeeps
<1> QED
  BY <1>3, <1>4, <1>5, <1>6, <1>7

(* What a known status leads to, also of an installation just made.        *)
LEMMA ProceedKeeps ==
  ASSUME SetupInv, Onwards, pc \in {"posting", "status"}, Proceed([state |-> trial', offer |-> offer])
  PROVE  SetupInv'
<1> DEFINE s == [state |-> trial', offer |-> offer]
<1>1. s \in [state : Trials \cup {"none"}, offer : Offers] /\ s.state = trial' /\ s.offer = offer
  BY DEF Onwards, TypeOK
<1>2. offer.state = "pending" => offer.id # 0
  BY DEF KnownOfHue
<1>3. mem = rec /\ rec.file = "written" /\ pc # "idle"
  BY DEF Course
<1> HIDE DEF s
<1>4. CASE \E o \in {"failed", "unchanged", "action_required"} : End(o)
  BY <1>4, EndKeeps
<1>5. CASE /\ seen' = s
           /\ Go(IF command = "claim_restart" THEN "restart" ELSE "handoff")
           /\ UNCHANGED <<refreshed, old, tries, record_vars>>
  BY <1>1, <1>2, <1>3, <1>5, MoveKeeps DEF TypeOK
<1>6. CASE /\ seen' = s /\ old' = OldKey(s)
           /\ Go("credentials")
           /\ UNCHANGED <<refreshed, tries, record_vars>>
  <2>1. OldKey(s) \in BOOLEAN
    BY DEF OldKey, TypeOK
  <2> QED
    BY <1>1, <1>2, <1>3, <1>6, <2>1, MoveKeeps DEF TypeOK
<1> QED
  BY <1>4, <1>5, <1>6, Zenon DEF Proceed, s

LEMMA ProvisionKeeps == ASSUME SetupInv, Provision PROVE SetupInv'
<1>1. Onwards
  BY SMT DEF Onwards, Provision, TypeOK, Trials, Fault
<1>2. CASE Go("provisioning") /\ UNCHANGED <<status_vars, tries, record_vars>>
  BY <1>1, <1>2, MoveKeeps DEF Provision, TypeOK, KnownOfHue, Course
<1>3. CASE Proceed([state |-> trial', offer |-> offer])
  BY <1>1, <1>3, ProceedKeeps DEF Provision
<1> QED
  BY <1>2, <1>3, Zenon DEF Provision

LEMMA StatusKeeps == ASSUME SetupInv, Status PROVE SetupInv'
<1>1. Onwards
  BY SMT DEF Onwards, Status, TypeOK
<1> QED
  BY <1>1, ProceedKeeps DEF Status, Onwards

(* The limit of attempts, and a key the owner revoked.                     *)
LEMMA LimitKeeps == ASSUME SetupInv, RateLimited \/ Revoked PROVE SetupInv'
<1>1. Onwards
  BY SMT DEF Onwards, RateLimited, Revoked, TypeOK, Fault
<1> QED
  BY <1>1, EndKeeps DEF RateLimited, Revoked

LEMMA ChangedKeeps == ASSUME SetupInv, Changed PROVE SetupInv'
<1> DEFINE s == [state |-> trial, offer |-> offer]
<1>1. Onwards /\ pc = "credentials"
  BY SMT DEF Onwards, Changed, TypeOK
<1>2. CASE End("failed")
  BY <1>1, <1>2, EndKeeps
<1>3. CASE /\ seen' = s /\ refreshed' = TRUE /\ old' = OldKey(seen')
           /\ Go("credentials") /\ UNCHANGED <<tries, record_vars>>
  <2>1. s \in [state : Trials \cup {"none"}, offer : Offers] /\ s.state = trial /\ s.offer = offer
    BY DEF TypeOK
  <2>2. OldKey(seen') \in BOOLEAN
    BY <1>3, <2>1 DEF OldKey, TypeOK
  <2>3. (offer.state = "pending" => offer.id # 0) /\ trial' = trial /\ mem = rec /\ rec.file = "written"
    BY <1>1 DEF KnownOfHue, Course, Onwards, Changed
  <2> HIDE DEF s
  <2> QED
    BY <1>1, <1>3, <2>1, <2>2, <2>3, MoveKeeps, TRUE \in BOOLEAN DEF TypeOK
<1> QED
  BY <1>2, <1>3, Zenon DEF Changed

-----------------------------------------------------------------------------
(* The application's evidence, and the claim.                              *)

(* The command goes on as it is, at a place its record allows.             *)
LEMMA GoKeeps ==
  ASSUME SetupInv, Onwards, Working, pc # "preflight", pc # "prepare",
         UNCHANGED <<status_vars, tries, record_vars>>,
         NEW place, Go(place),
         place \in {"verifying", "handoff", "restart", "offering", "concluding"},
         place = "verifying" => rec.evidence # "none",
         place = "concluding" => rec.evidence = "verified",
         place = "offering" => rec.handoff.id # 0
  PROVE  SetupInv'
<1>1. /\ seen' \in [state : Trials \cup {"none"}, offer : Offers]
      /\ (seen'.state = "claimed" => trial' = "claimed")
      /\ (seen'.offer.state = "pending" => seen'.offer.id # 0)
      /\ refreshed' \in BOOLEAN /\ old' \in BOOLEAN /\ tries' \in 0..PerCommand
      /\ rec' = rec /\ mem' = rec
  BY Zenon DEF TypeOK, KnownOfHue, Onwards
<1>2. rec.file = "written" /\ pc # "idle"
  BY DEF Course
<1> HIDE DEF SetupInv, Go
<1> QED
  BY <1>1, <1>2, MoveKeeps

LEMMA EvidenceKeeps == ASSUME SetupInv, Evidence PROVE SetupInv'
<1>1. Onwards /\ pc = "evidence"
  BY SMT DEF Onwards, Evidence, TypeOK
<1>2. CASE /\ MayExercise /\ Save([mem EXCEPT !.attempted = TRUE])
           /\ Go("exercising") /\ UNCHANGED <<status_vars, tries>>
  BY <1>1, <1>2, AttemptSaved DEF Evidence
<1>3. CASE End("action_required")
  BY <1>1, <1>3, EndKeeps
<1>4. CASE /\ mem.evidence # "none" /\ Go("verifying")
           /\ UNCHANGED <<status_vars, tries, record_vars>>
  BY <1>1, <1>4, GoKeeps
<1> QED
  BY <1>2, <1>3, <1>4, Zenon DEF Evidence

LEMMA RequestKeeps == ASSUME SetupInv, Request PROVE SetupInv'
<1> USE DEF Request
<1>1. TypeOK'
  <2>1. requests' \in Nat
    BY SMT DEF TypeOK
  <2>2. stored' \in BOOLEAN /\ pc' = "requested"
    BY Zenon DEF TypeOK
  <2> QED
    BY <2>1, <2>2, Zenon DEF TypeOK
<1>2. RecordIsValid' /\ ReadyIsTrue'
  BY DEF RecordIsValid, ReadyIsTrue, Course
<1>3. InMemory' /\ Course'
  BY DEF Course, AskedOnce
<1>4. AskedOnce'
  BY SMT DEF AskedOnce
<1>5. Counted'
  BY SMT DEF Counted, TypeOK
<1>6. KnownOfHue' /\ AnswerAwaited'
  BY DEF KnownOfHue, AnswerAwaited
<1> QED
  BY <1>1, <1>2, <1>3, <1>4, <1>5, <1>6

LEMMA CollectKeeps == ASSUME SetupInv, Collect PROVE SetupInv'
<1>1. Onwards /\ pc = "requested"
  BY SMT DEF Onwards, Collect, TypeOK
<1>2. CASE End("failed")
  BY <1>1, <1>2, EndKeeps
<1>3. CASE /\ stored /\ Save([mem EXCEPT !.evidence = "unverified"])
           /\ Go("verifying") /\ UNCHANGED <<status_vars, tries>>
  BY <1>1, <1>3, EvidenceSaved DEF Collect
<1> QED
  BY <1>2, <1>3, Zenon DEF Collect

LEMMA VerifyKeeps == ASSUME SetupInv, Verify PROVE SetupInv'
<1>1. Onwards /\ pc = "verifying"
  BY SMT DEF Onwards, Verify, Fault, TypeOK
<1>2. CASE \E o \in {"failed", "unchanged", "action_required"} : End(o)
  BY <1>1, <1>2, EndKeeps
<1>3. CASE /\ Save([mem EXCEPT !.evidence = "verified"])
           /\ Go(IF seen.state = "claimed" THEN "revoking" ELSE "handoff")
           /\ UNCHANGED <<status_vars, tries, faults>>
  BY <1>1, <1>3, ReceiptSaved DEF Verify
<1> QED
  BY <1>2, <1>3, Zenon DEF Verify

LEMMA CheckRefusalKeeps == ASSUME SetupInv, CheckRefusal PROVE SetupInv'
<1>1. Onwards /\ pc = "revoking" /\ rec.evidence = "verified"
  BY SMT DEF Onwards, CheckRefusal, TypeOK, Course
<1>2. CASE End("failed")
  BY <1>1, <1>2, EndKeeps
<1>3. CASE /\ mem.old /\ Confirmed /\ Save([mem EXCEPT !.old = FALSE, !.revoked = TRUE])
           /\ Go("concluding") /\ UNCHANGED <<status_vars, tries>>
  BY <1>1, <1>3, RefusalSaved DEF CheckRefusal, Confirmed
<1>4. CASE Go("concluding") /\ UNCHANGED <<status_vars, tries, record_vars>>
  BY <1>1, <1>4, GoKeeps
<1> QED
  BY <1>2, <1>3, <1>4, Zenon DEF CheckRefusal

(* Ready is reported of a record whose key was refused after the receipt.  *)
LEMMA ConcludeKeeps == ASSUME SetupInv, Conclude PROVE SetupInv'
<1>1. Onwards /\ pc = "concluding" /\ rec.evidence = "verified" /\ mem = rec
  BY SMT DEF Onwards, Conclude, TypeOK, Course
<1>2. CASE End("failed")
  BY <1>1, <1>2, EndKeeps
<1>3. CASE rec.revoked /\ End("ready")
  <2> USE <1>1, <1>3 DEF End, EndWith, Leave, Onwards
  <2>1. TypeOK'
    <3>1. /\ posts' \in Nat /\ tries' \in 0..PerCommand /\ mem' \in Records
          /\ seen' \in [state : Trials \cup {"none"}, offer : Offers]
          /\ locked' \in BOOLEAN /\ refreshed' \in BOOLEAN /\ old' \in BOOLEAN
      BY NothingTyped, FALSE \in BOOLEAN, Zenon DEF TypeOK, Conclude
    <3> QED
      BY <3>1, Zenon DEF TypeOK
  <2>2. RecordIsValid' /\ ReadyIsTrue'
    BY DEF RecordIsValid, ReadyIsTrue, KnownOfHue
  <2>3. InMemory' /\ Course' /\ AskedOnce' /\ AnswerAwaited'
    BY DEF Course, AskedOnce, AnswerAwaited
  <2>4. Counted'
    BY SMT DEF Counted, TypeOK
  <2>5. KnownOfHue'
    BY DEF KnownOfHue, NoStatus
  <2> QED
    BY <2>1, <2>2, <2>3, <2>4, <2>5
<1> QED
  BY <1>1, <1>2, <1>3, Zenon DEF Conclude

-----------------------------------------------------------------------------
(* Handing over.                                                           *)

LEMMA HandOverKeeps == ASSUME SetupInv, HandOver PROVE SetupInv'
<1> DEFINE quiet == UNCHANGED <<checkpointed, hue_vars, history, faults>>
<1>1. quiet /\ pc \in {"handoff", "restart"} /\ mem = rec /\ mem.handoff \in Handoffs
  BY DEF HandOver, TypeOK, Records
<1>2. UNCHANGED ids => Onwards
  BY <1>1, SMT DEF Onwards, TypeOK
<1>3. CASE UNCHANGED ids /\ \E o \in {"failed", "unchanged", "action_required"} : End(o)
  BY <1>2, <1>3, EndKeeps
<1>4. CASE ~Unanswered /\ \E previous \in 0..MaxIds : AskNew(previous)
  <2>1. PICK previous \in 0..MaxIds : AskNew(previous)
    BY <1>4
  <2>2. CASE ids < MaxIds
    <3> DEFINE handoff == [id |-> ids + 1, previous |-> previous, answered |-> FALSE]
    <3>1. ids' = ids + 1 /\ Ask(handoff)
      BY <2>1, <2>2 DEF AskNew
    <3>2. ids + 1 \in 0..MaxIds /\ ids + 1 # 0
      BY <2>2, SMT DEF TypeOK
    <3>3. handoff \in Handoffs /\ handoff.id # 0 /\ ~handoff.answered
      BY <3>2, FALSE \in BOOLEAN, SMT DEF Handoffs
    <3> HIDE DEF handoff
    <3> QED
      BY <1>1, <1>4, <3>1, <3>2, <3>3, AskSaved
  <2>3. CASE ~(ids < MaxIds)
    BY <1>3, <2>1, <2>3 DEF AskNew
  <2> QED
    BY <2>2, <2>3
<1>5. CASE /\ mem.handoff.id # 0 /\ Go("offering")
           /\ UNCHANGED <<status_vars, tries, record_vars, ids>>
  BY <1>1, <1>2, <1>5, GoKeeps
<1>6. CASE /\ mem.handoff.id = 0 /\ seen.offer.state = "pending"
           /\ Ask([id |-> seen.offer.id, previous |-> 0, answered |-> FALSE])
           /\ UNCHANGED ids
  <2> DEFINE handoff == [id |-> seen.offer.id, previous |-> 0, answered |-> FALSE]
  <2>1. seen.offer.id \in 0..MaxIds /\ seen.offer.id # 0 /\ 0 \in 0..MaxIds
    BY <1>6, SMT DEF TypeOK, Offers, KnownOfHue
  <2>2. handoff \in Handoffs /\ handoff.id # 0 /\ ~handoff.answered
    BY <2>1, FALSE \in BOOLEAN, SMT DEF Handoffs
  <2>3. ~Unanswered /\ ids' \in 0..MaxIds
    BY <1>6 DEF Unanswered, TypeOK
  <2>4. Ask(handoff)
    BY <1>6
  <2> HIDE DEF handoff
  <2> QED
    BY <1>1, <2>2, <2>3, <2>4, AskSaved
<1>7. 0 \in 0..MaxIds /\ seen.offer.id \in 0..MaxIds
  BY SMT DEF TypeOK, Offers
<1>8. mem.handoff.id = 0 => ~Unanswered
  BY DEF Unanswered
<1> HIDE DEF SetupInv
<1> QED
  BY <1>3, <1>4, <1>5, <1>6, <1>7, <1>8, Zenon DEF HandOver

LEMMA OfferKeeps == ASSUME SetupInv, Offer PROVE SetupInv'
<1> USE DEF Offer
<1>1. pc = "offering" /\ mem = rec /\ rec.handoff.id # 0 /\ mem.handoff \in Handoffs
  BY DEF Course, TypeOK, Records
<1>2. CASE End("failed") /\ UNCHANGED <<offer, unanswered, faults>>
  <2>1. Onwards
    BY <1>1, <1>2, SMT DEF Onwards, TypeOK
  <2> QED
    BY <1>2, <2>1, EndKeeps
<1> DEFINE h == mem.handoff
<1>3. CASE /\ offer' = IF offer.id = h.id THEN offer ELSE [id |-> h.id, state |-> "pending"]
           /\ \/ /\ Fault /\ End("failed")
                 /\ unanswered' = IF h.answered THEN unanswered ELSE unanswered \cup {h.id}
              \/ /\ EndWith("action_required", [mem EXCEPT !.handoff.answered = TRUE])
                 /\ unanswered' = unanswered \ {h.id}
                 /\ UNCHANGED faults
  <2> USE <1>1, <1>3 DEF End, EndWith, Leave
  <2>1. rec' \in Records
    <3>1. rec' = rec \/ rec' = [rec EXCEPT !.handoff.answered = TRUE]
      BY Zenon
    <3> QED
      BY <3>1, AnsweredTyped, TRUE \in BOOLEAN DEF TypeOK
  <2>2. /\ rec'.file = rec.file /\ rec'.key = rec.key /\ rec'.old = rec.old
        /\ rec'.revoked = rec.revoked /\ rec'.attempted = rec.attempted
        /\ rec'.evidence = rec.evidence /\ rec'.attempts = rec.attempts
        /\ rec'.handoff.id = rec.handoff.id
    BY DEF TypeOK, Records, Handoffs
  <2>3. rec.file = "written"
    BY DEF Course
  <2>4. pc' = "idle" /\ outcome' \in {"failed", "action_required"} /\ locked' = FALSE
    BY Zenon
  <2>5. /\ mem' = NoRecord /\ seen' = NoStatus /\ refreshed' = FALSE /\ old' = FALSE
        /\ tries' = 0 /\ command' = command
    BY Zenon
  <2>6. offer' \in Offers /\ (offer'.state = "pending" => offer'.id # 0)
    BY DEF TypeOK, Offers, Handoffs, KnownOfHue
  <2>7. faults' \in 0..MaxFaults
    BY SMT DEF Fault, TypeOK
  <2>8. unanswered' \subseteq 1..MaxIds
    BY SMT DEF TypeOK, Handoffs
  <2>9. AnswerAwaited'
    BY DEF AnswerAwaited, TypeOK, Records, Handoffs
  <2>10. UNCHANGED <<checkpointed, trial, refused, stored, aged, posts, requests, ids>>
    OBVIOUS
  <2> HIDE DEF SetupInv, Offer
  <2>11. TypeOK'
    BY <2>1, <2>4, <2>5, <2>6, <2>7, <2>8, <2>10, NothingTyped, FALSE \in BOOLEAN, Zenon
       DEF SetupInv, TypeOK
  <2>12. RecordIsValid' /\ ReadyIsTrue'
    BY <2>2, <2>3, <2>4 DEF SetupInv, RecordIsValid, ReadyIsTrue
  <2>13. InMemory' /\ Course' /\ AskedOnce'
    BY <2>2, <2>4, <2>10 DEF SetupInv, Course, AskedOnce
  <2>14. Counted'
    BY <2>2, <2>4, <2>10, SMT DEF SetupInv, Counted, TypeOK, Records
  <2>15. KnownOfHue'
    BY <2>2, <2>5, <2>6, <2>10 DEF SetupInv, KnownOfHue, NoStatus
  <2> QED
    BY <2>9, <2>11, <2>12, <2>13, <2>14, <2>15 DEF SetupInv
<1> QED
  BY <1>2, <1>3, Zenon

-----------------------------------------------------------------------------
(* Failures, kills, and what happens outside the command.                  *)

LEMMA BeginKeeps == ASSUME SetupInv, Begin PROVE SetupInv'
<1> USE DEF Begin
<1>1. TypeOK'
  BY TRUE \in BOOLEAN, Zenon DEF TypeOK
<1>2. RecordIsValid' /\ ReadyIsTrue' /\ InMemory' /\ Course'
  BY DEF RecordIsValid, ReadyIsTrue, Course
<1>3. AskedOnce' /\ KnownOfHue' /\ AnswerAwaited'
  BY DEF AskedOnce, KnownOfHue, AnswerAwaited
<1>4. Counted'
  BY SMT DEF Counted, TypeOK
<1> QED
  BY <1>1, <1>2, <1>3, <1>4

LEMMA FailureKeeps == ASSUME SetupInv, Throws \/ Kill PROVE SetupInv'
<1>1. faults' \in 0..MaxFaults
  BY SMT DEF Throws, Kill, Fault, TypeOK
<1>2. UNCHANGED <<checkpointed, hue_vars, history, ids>>
  BY DEF Throws, Kill
<1>3. Onwards
  BY <1>1, <1>2, Zenon DEF Onwards, TypeOK
<1>4. CASE Throws
  BY <1>3, <1>4, EndKeeps DEF Throws
<1>5. CASE Kill
  BY <1>3, <1>5, LeaveKeeps DEF Kill, TypeOK
<1> QED
  BY <1>4, <1>5

LEMMA RemoveLockKeeps == ASSUME SetupInv, RemoveLock PROVE SetupInv'
<1> USE DEF RemoveLock
<1>1. TypeOK'
  BY FALSE \in BOOLEAN, Zenon DEF TypeOK
<1>2. RecordIsValid' /\ ReadyIsTrue' /\ InMemory' /\ Course' /\ Counted'
  BY DEF RecordIsValid, ReadyIsTrue, Course, Installs, Counted
<1>3. AskedOnce' /\ KnownOfHue' /\ AnswerAwaited'
  BY DEF AskedOnce, KnownOfHue, AnswerAwaited
<1> QED
  BY <1>1, <1>2, <1>3

(* An hour later no attempt counts any more, and none was sent.            *)
LEMMA HourPassesKeeps == ASSUME SetupInv, HourPasses PROVE SetupInv'
<1> USE DEF HourPasses, command_vars
<1>1. rec.attempts \in 0..Budget
  BY DEF TypeOK, Records
<1>2. TypeOK'
  BY <1>1, SMT DEF TypeOK
<1>3. RecordIsValid' /\ ReadyIsTrue' /\ InMemory' /\ Course'
  BY DEF RecordIsValid, ReadyIsTrue, Course, Installs
<1>4. AskedOnce' /\ KnownOfHue' /\ AnswerAwaited'
  BY DEF AskedOnce, KnownOfHue, AnswerAwaited
<1>5. Counted'
  BY <1>1, SMT DEF Counted
<1> QED
  BY <1>2, <1>3, <1>4, <1>5

(* The owner and the service move on: a claim and an expiry are for ever.  *)
LEMMA HueKeeps == ASSUME SetupInv, OfferMoves \/ Refuse PROVE SetupInv'
<1> USE DEF command_vars
<1>1. UNCHANGED <<command_vars, checkpointed, record_vars, stored, history, faults>>
  BY DEF OfferMoves, Refuse
<1>2. /\ trial' \in Trials /\ (trial = "claimed" => trial' = "claimed")
      /\ refused' \in BOOLEAN /\ (refused => refused')
  BY TRUE \in BOOLEAN, Zenon DEF OfferMoves, Refuse, TypeOK, Trials
<1>3. ids' \in 0..MaxIds
  BY SMT DEF OfferMoves, Refuse, TypeOK
<1>4. offer' \in Offers /\ (offer'.state = "pending" => offer'.id # 0)
  <2>1. CASE offer' = offer
    BY <2>1 DEF TypeOK, KnownOfHue
  <2>2. CASE offer' \in {[offer EXCEPT !.state = "consumed"], [offer EXCEPT !.state = "expired"]}
    BY <2>2 DEF TypeOK, Offers
  <2>3. CASE ids' = ids + 1 /\ offer' = [id |-> ids', state |-> "pending"]
    BY <1>3, <2>3, SMT DEF TypeOK, Offers
  <2> QED
    BY <2>1, <2>2, <2>3, Zenon DEF OfferMoves, Refuse
<1>5. TypeOK'
  <2>1. UNCHANGED <<pc, command, locked, outcome, seen, refreshed, old, tries, checkpointed,
                    rec, mem, stored, aged, posts, requests, unanswered, faults>>
    BY <1>1
  <2> QED
    BY <1>2, <1>3, <1>4, <2>1 DEF TypeOK
<1>6. RecordIsValid' /\ InMemory' /\ Course' /\ AskedOnce' /\ AnswerAwaited'
  BY <1>1 DEF RecordIsValid, Course, Installs, AskedOnce, AnswerAwaited
<1>7. ReadyIsTrue'
  BY <1>1, <1>2 DEF ReadyIsTrue
<1>8. Counted'
  BY <1>1 DEF Counted
<1>9. KnownOfHue'
  BY <1>1, <1>2, <1>4 DEF KnownOfHue
<1> QED
  BY <1>5, <1>6, <1>7, <1>8, <1>9

LEMMA StepKeeps == ASSUME SetupInv, [Next]_vars PROVE SetupInv'
<1>1. CASE Load \/ Local \/ Preflight \/ NotNow
  BY <1>1, ReadKeeps
<1>2. CASE Create \/ Prepare \/ RecordAttempt \/ Credentials \/ DropHandoff
  BY <1>2, CreateSaved, PrepareSaved, RecordAttemptSaved, CredentialsSaved, DropHandoffSaved
<1>3. CASE RateLimited \/ Revoked \/ Provision \/ Status \/ Changed
  BY <1>3, LimitKeeps, ProvisionKeeps, StatusKeeps, ChangedKeeps
<1>4. CASE Evidence \/ Request \/ Collect \/ Verify \/ CheckRefusal \/ Conclude
  BY <1>4, EvidenceKeeps, RequestKeeps, CollectKeeps, VerifyKeeps, CheckRefusalKeeps,
     ConcludeKeeps
<1>5. CASE HandOver \/ Offer
  BY <1>5, HandOverKeeps, OfferKeeps
<1>6. CASE Begin \/ Throws \/ Kill \/ RemoveLock \/ HourPasses \/ OfferMoves \/ Refuse
  BY <1>6, BeginKeeps, FailureKeeps, RemoveLockKeeps, HourPassesKeeps, HueKeeps
<1>7. CASE UNCHANGED vars
  <2> USE <1>7 DEF vars, command_vars
  <2>1. TypeOK'
    BY DEF TypeOK
  <2>2. RecordIsValid' /\ ReadyIsTrue' /\ InMemory' /\ Course' /\ AskedOnce'
    BY DEF RecordIsValid, ReadyIsTrue, Course, Installs, AskedOnce
  <2>3. Counted' /\ KnownOfHue' /\ AnswerAwaited'
    BY DEF Counted, KnownOfHue, AnswerAwaited
  <2> QED
    BY <2>1, <2>2, <2>3
<1> HIDE DEF SetupInv
<1> QED
  BY <1>1, <1>2, <1>3, <1>4, <1>5, <1>6, <1>7 DEF Next, Step

LEMMA SetupHolds == Spec => []SetupInv
<1> HIDE DEF SetupInv
<1> QED
  BY InitInv, StepKeeps, PTL DEF Spec

-----------------------------------------------------------------------------
(* The results.                                                            *)

(* The application is asked once, and Hue is asked for no more             *)
(* provisioning than an hour allows, over any sequence of commands.        *)
THEOREM NothingIsRepeated == Spec => []NothingRepeated
<1>1. SetupInv => NothingRepeated
  <2> SUFFICES ASSUME SetupInv PROVE posts <= Budget
    BY DEF NothingRepeated, RequestedOnce, PostsBounded, AskedOnce
  <2>1. rec.attempts \in 0..Budget /\ aged \in Nat /\ posts \in Nat
    BY SMT DEF TypeOK, Records
  <2> QED
    BY <2>1, SMT DEF Counted
<1> HIDE DEF SetupInv
<1> QED
  BY <1>1, SetupHolds, PTL

(* Every record that is written can be read again, and ready is reported   *)
(* of an installation that is.                                             *)
THEOREM RecordsHold == Spec => []RecordsAreTrue
<1>1. SetupInv => RecordsAreTrue
  BY DEF RecordsAreTrue
<1> HIDE DEF SetupInv
<1> QED
  BY <1>1, SetupHolds, PTL

(* Only Hue's refusal makes a command forget the anonymous key.            *)
LEMMA KeyIsKept ==
  ASSUME SetupInv, [Next]_vars, rec' # rec, Knows(rec), ~Knows(rec')
  PROVE  refused /\ rec'.revoked
<1> USE DEF Knows
<1>1. CASE Step
  <2>1. CASE Load \/ Local \/ Preflight \/ RateLimited \/ Provision \/ Status \/ Changed
             \/ Request \/ Conclude
    BY <2>1, Zenon DEF Load, Local, Preflight, RateLimited, Provision, Status, Changed, Request,
       Conclude, Proceed, End, EndWith, Leave
  <2>2. CASE Create \/ Prepare \/ RecordAttempt \/ DropHandoff \/ Evidence \/ Collect \/ Verify
    BY <2>2 DEF Create, Prepare, RecordAttempt, DropHandoff, Evidence, Collect, Verify, TypeOK,
       Records, End, EndWith, Leave
  <2>3. CASE Credentials
    BY <2>3 DEF Credentials, WithKey, Generation, Current, TypeOK, Records, RecordIsValid
  <2>4. CASE HandOver
    BY <2>4 DEF HandOver, AskNew, Ask, TypeOK, Records, End, EndWith, Leave
  <2>5. CASE Offer
    BY <2>5 DEF Offer, TypeOK, Records, End, EndWith, Leave
  <2>6. CASE CheckRefusal
    BY <2>6 DEF CheckRefusal, Confirmed, TypeOK, Records, End, EndWith, Leave
  <2> QED
    BY <1>1, <2>1, <2>2, <2>3, <2>4, <2>5, <2>6 DEF Step
<1>2. CASE Begin \/ NotNow \/ Revoked \/ Throws \/ Kill \/ RemoveLock \/ HourPasses
           \/ OfferMoves \/ Refuse \/ UNCHANGED vars
  BY <1>2, Zenon DEF Begin, NotNow, Revoked, Throws, Kill, RemoveLock, HourPasses, OfferMoves,
     Refuse, vars, End, EndWith, Leave
<1> QED
  BY <1>1, <1>2 DEF Next

(* A command replaces no handoff that is to be answered: the one it says   *)
(* it follows is not the one it asked for.                                 *)
LEMMA HandoffIsKept ==
  ASSUME SetupInv, [Next]_vars, pc' # pc, offer'.id # offer.id
  PROVE  offer.id \notin unanswered
<1>1. CASE Offer
  <2>1. offer.id # mem.handoff.id
    BY <1>1, Zenon DEF Offer
  <2>2. mem.handoff.id = rec.handoff.id
    BY <1>1 DEF Offer
  <2> QED
    BY <2>1, <2>2 DEF AnswerAwaited
<1>2. CASE Step /\ ~Offer
  BY <1>2, Zenon DEF Step, Load, Local, Preflight, Create, Prepare, RecordAttempt, RateLimited,
     Provision, Status, Credentials, Changed, DropHandoff, Evidence, Request, Collect, Verify,
     HandOver, CheckRefusal, Conclude
<1>3. CASE Begin \/ NotNow \/ Revoked \/ Throws \/ Kill \/ RemoveLock \/ HourPasses
           \/ OfferMoves \/ Refuse \/ UNCHANGED vars
  BY <1>3, Zenon DEF Begin, NotNow, Revoked, Throws, Kill, RemoveLock, HourPasses, OfferMoves,
     Refuse, vars, command_vars
<1> QED
  BY <1>1, <1>2, <1>3 DEF Next

(* No step of any command gives up what only Hue could tell again.         *)
THEOREM NothingIsForgotten == Spec => NothingForgotten
<1>1. ASSUME SetupInv, [Next]_vars
      PROVE  [Knows(rec) /\ ~Knows(rec') => refused /\ rec'.revoked]_rec
  BY <1>1, KeyIsKept, Zenon
<1>2. ASSUME SetupInv, [Next]_vars
      PROVE  [pc' # pc /\ offer'.id # offer.id => offer.id \notin unanswered]_offer
  BY <1>2, HandoffIsKept, Zenon
<1> HIDE DEF SetupInv
<1> QED
  BY <1>1, <1>2, SetupHolds, PTL DEF Spec, NothingForgotten, OldKeyKept, HandoffKept

=============================================================================
