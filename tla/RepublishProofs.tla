--------------------------- MODULE RepublishProofs ---------------------------
(***************************************************************************)
(* Proofs about Republish, for any number of namespaces, any intervals and *)
(* any length of the puts.                                                 *)
(*                                                                         *)
(* That no namespace starves rests on LateInv, which follows the lateness  *)
(* through a round: the round begins at most RoundLength after a turn, the *)
(* puts of the namespaces before n come on top of it, and the sleep that   *)
(* follows ends before the turn of every namespace that was visited.       *)
(***************************************************************************)
EXTENDS Republish, TLAPS

-----------------------------------------------------------------------------
(* Operators.                                                              *)

\* None of the special values is a number.
LEMMA Specials ==
    None \notin Nat /\ N \in Nat \ {0} /\ Fallback \in Nat \ {0} /\ MaxPut \in Nat
BY ConstantsAssumption

\* A draft that reads well is a positive number.
LEMMA ReadableIsPositive ==
    ASSUME TypeOK, NEW n \in Namespace, Readable(n)
    PROVE  tree[n] \in Nat \ {0} /\ tree[n] \in Intervals /\ tree[n] # Absent
<1>1. tree[n] \in Intervals /\ tree[n] > 0
  BY DEF Readable
<1>2. tree[n] \in Nat /\ Absent \notin Nat
  BY <1>1, ConstantsAssumption
<1> QED
  BY <1>1, <1>2

\* The shorter of two times.
LEMMA ShorterIs ==
    ASSUME NEW d \in Nat, NEW e \in Nat
    PROVE  /\ Shorter(d, e) \in Nat
           /\ Shorter(d, e) <= d /\ Shorter(d, e) <= e
           /\ d > 0 /\ e > 0 => Shorter(d, e) > 0
BY DEF Shorter

\* More rounds of puts take longer.
LEMMA TimesGrows ==
    ASSUME NEW a \in Nat, NEW b \in Nat, NEW m \in Nat, a <= b
    PROVE  a * m \in Nat /\ b * m \in Nat /\ a * m <= b * m
<1>1. PICK c \in Nat : b = a + c
  <2>1. b - a \in Nat /\ b = a + (b - a)
    OBVIOUS
  <2> QED
    BY <2>1
<1>2. (a + c) * m = a * m + c * m
  OBVIOUS
<1>3. a * m \in Nat /\ c * m \in Nat
  OBVIOUS
<1> QED
  BY <1>1, <1>2, <1>3

\* The puts before a namespace, and its own, come before those of the next
\* ones and before the end of the round.
LEMMA PutsAddUp ==
    ASSUME NEW n \in Namespace
    PROVE  /\ PutsBefore(n) \in Nat /\ RoundLength \in Nat
           /\ PutsBefore(n) + MaxPut <= RoundLength
           /\ \A m \in Namespace : n < m => PutsBefore(n) + MaxPut <= PutsBefore(m)
<1> DEFINE k == n - 1
<1>1. n \in Nat /\ k \in Nat /\ k + 1 = n /\ n <= N /\ N \in Nat /\ MaxPut \in Nat
  BY Specials DEF Namespace
<1>2. (k + 1) * MaxPut = k * MaxPut + MaxPut
  BY <1>1
<1>3. \A j \in Nat : n <= j => k * MaxPut + MaxPut <= j * MaxPut /\ j * MaxPut \in Nat
  BY <1>1, <1>2, TimesGrows
<1>4. k * MaxPut \in Nat
  BY <1>1, TimesGrows
<1>5. ASSUME NEW m \in Namespace, n < m PROVE PutsBefore(n) + MaxPut <= PutsBefore(m)
  <2>1. m - 1 \in Nat /\ n <= m - 1
    BY <1>1, <1>5 DEF Namespace
  <2> QED
    BY <1>3, <2>1 DEF PutsBefore
<1> QED
  BY <1>1, <1>3, <1>4, <1>5 DEF PutsBefore, RoundLength

-----------------------------------------------------------------------------
(* Types.                                                                  *)

\* A started loop has empty schedules and an empty cache.
LEMMA FreshType ==
    ASSUME Fresh
    PROVE  /\ todo' \subseteq listed' /\ listed' \subseteq Namespace
           /\ now' = 0 /\ wait' \in Nat /\ wake' \in Nat
           /\ due' \in [Namespace -> Nat \cup {None}]
           /\ nextDue' \in [Namespace -> Nat \cup {None}]
           /\ cache' \in [Namespace -> Nat \cup {None}]
           /\ \A n \in Namespace : due'[n] = None /\ cache'[n] = None
BY DEF Fresh

\* The loop knows namespaces that exist.
LEMMA NamespacesType == TypeOK => Namespaces \subseteq Namespace
BY DEF TypeOK, Namespaces

\* The time left to a namespace that is not due is a positive number.
LEMMA NotDueYet ==
    ASSUME TypeOK, NEW n \in Namespace, ~IsDue(n)
    PROVE  /\ due[n] \in Nat /\ now \in Nat /\ due[n] > now
           /\ due[n] - now \in Nat \ {0} /\ now + (due[n] - now) = due[n]
<1>1. due[n] # None /\ ~(now >= due[n])
  BY DEF IsDue
<1>2. due[n] \in Nat /\ now \in Nat
  BY <1>1 DEF TypeOK, Time
<1> QED
  BY <1>1, <1>2

\* The initial state is well typed.
LEMMA InitType == Init => TypeOK
BY ConstantsAssumption DEF Init, TypeOK, Time, Namespace

\* So is the state after each step of a round.
LEMMA RoundType ==
    ASSUME TypeOK, StartRound \/ ResolveFails \/ EndRound \/ Wake
    PROVE  TypeOK'
<1>1. CASE StartRound
  <2>1. Fallback \in Nat /\ clock \in 0..clock
    BY Specials DEF TypeOK, Time
  <2>2. Namespaces \subseteq Namespace
    BY NamespacesType
  <2> QED
    BY <1>1, <2>1, <2>2 DEF StartRound, TypeOK, Time
<1>2. CASE ResolveFails
  BY <1>2, FreshType DEF ResolveFails, TypeOK, Time, history
<1>3. CASE EndRound
  <2>1. clock + wait \in Nat
    BY DEF TypeOK, Time
  <2>2. pruneCache \in [Namespace -> Nat \cup {None}]
    BY DEF TypeOK, pruneCache
  <2> QED
    BY <1>3, <2>1, <2>2 DEF EndRound, TypeOK, history
<1>4. CASE Wake
  BY <1>4 DEF Wake, TypeOK, memory, history
<1> QED
  BY <1>1, <1>2, <1>3, <1>4

\* And after each visit.
LEMMA VisitType ==
    ASSUME TypeOK, NEW n \in Namespace,
           \/ SkipMalformed(n) \/ SkipNotDue(n)
           \/ \E d \in 0..MaxPut : publishNamespaceCached(n, d)
    PROVE  TypeOK'
<1>1. todo' \subseteq listed /\ pc = "visit" /\ UNCHANGED listed
  BY DEF SkipMalformed, SkipNotDue, publishNamespaceCached, Visit, TypeOK
<1>2. CASE SkipMalformed(n)
  <2>1. now + Fallback \in Nat
    BY Specials DEF TypeOK, Time
  <2> QED
    BY <1>1, <1>2, <2>1 DEF SkipMalformed, Schedule, TypeOK, history
<1>3. CASE SkipNotDue(n)
  <2>1. due[n] \in Nat
    BY <1>3, NotDueYet DEF SkipNotDue
  <2>2. wait' \in Nat
    BY <1>3, NotDueYet, ShorterIs DEF SkipNotDue, TypeOK
  <2> QED
    BY <1>1, <1>3, <2>1, <2>2 DEF SkipNotDue, Schedule, TypeOK, history
<1>4. ASSUME NEW d \in 0..MaxPut, publishNamespaceCached(n, d) PROVE TypeOK'
  <2>1. tree[n] \in Nat /\ tree[n] \in Intervals
    BY <1>4, ReadableIsPositive DEF publishNamespaceCached
  <2>2. wait' \in Nat
    BY <1>4, <2>1, ShorterIs DEF publishNamespaceCached, TypeOK
  <2>3. clock' \in Time /\ now \in 0..clock'
    BY <1>4, Specials, ConstantsAssumption DEF publishNamespaceCached, TypeOK, Time
  <2>4. nextDue' \in [Namespace -> Nat \cup {None}]
    <3>1. now + tree[n] \in Nat
      BY <2>1 DEF TypeOK, Time
    <3> QED
      BY <1>4, <3>1 DEF publishNamespaceCached, Schedule, TypeOK
  <2>5. cache' \in [Namespace -> Nat \cup {None}]
    BY <1>4 DEF publishNamespaceCached, TypeOK
  <2>6. published' \in [Namespace -> Publication \cup {None}]
    <3> DEFINE new == [at |-> clock, interval |-> tree[n]]
    <3>1. new \in Publication
      BY <2>1 DEF TypeOK, Publication
    <3>2. published' = [published EXCEPT ![n] = new]
      BY <1>4 DEF publishNamespaceCached
    <3> HIDE DEF new
    <3> QED
      BY <3>1, <3>2 DEF TypeOK
  <2>7. events' \in 0..MaxEvents
    BY <1>4, ConstantsAssumption DEF publishNamespaceCached, Event, TypeOK
  <2> QED
    BY <1>1, <1>4, <2>2, <2>3, <2>4, <2>5, <2>6, <2>7
       DEF publishNamespaceCached, TypeOK
<1> QED
  BY <1>2, <1>3, <1>4

\* And after the steps of time, of the process and of the operator.
LEMMA OtherType ==
    ASSUME TypeOK,
           \/ Tick \/ Kill \/ Start
           \/ \E n \in Namespace : Rekey(n) \/ \E draft \in Draft : Edit(n, draft)
    PROVE  TypeOK'
<1>1. CASE Tick
  <2>1. clock' \in Time /\ now \in 0..clock'
    BY <1>1, ConstantsAssumption DEF Tick, TypeOK, Time
  <2> QED
    BY <1>1, <2>1 DEF Tick, TypeOK, memory, history
<1>2. Event => events' \in 0..MaxEvents
  BY ConstantsAssumption DEF Event, TypeOK
<1>3. CASE Kill
  BY <1>2, <1>3, FreshType DEF Kill, TypeOK, Time
<1>4. CASE Start
  BY <1>4 DEF Start, TypeOK, memory
<1>5. ASSUME NEW n \in Namespace, NEW draft \in Draft, Edit(n, draft) PROVE TypeOK'
  <2>1. tree' \in [Namespace -> Draft] /\ key' \in [Namespace -> Nat]
    BY <1>5 DEF Edit, NewKey, TypeOK
  <2>2. since' \in [Namespace -> Time] /\ unnoticed' \subseteq Namespace
    BY <1>5 DEF Edit, NewKey, TypeOK
  <2> QED
    BY <1>2, <1>5, <2>1, <2>2 DEF Edit, TypeOK, memory
<1>6. ASSUME NEW n \in Namespace, Rekey(n) PROVE TypeOK'
  <2>1. key' \in [Namespace -> Nat] /\ unnoticed' \subseteq Namespace
    BY <1>6 DEF Rekey, NewKey, TypeOK
  <2> QED
    BY <1>2, <1>6, <2>1 DEF Rekey, TypeOK, memory
<1> QED
  BY <1>1, <1>3, <1>4, <1>5, <1>6

\* Every step keeps every variable in its type.
LEMMA StepType == TypeOK /\ [Next]_vars => TypeOK'
<1> SUFFICES ASSUME TypeOK, [Next]_vars PROVE TypeOK'
  OBVIOUS
<1>1. CASE UNCHANGED vars
  BY <1>1 DEF vars, memory, history, TypeOK
<1>2. CASE Next
  BY <1>2, RoundType, VisitType, OtherType DEF Next
<1> QED
  BY <1>1, <1>2

\* The loop's schedules, cache and clock are well typed in every reachable
\* state, and a process that is not running has none of them.
THEOREM RepublishTypeCorrect == Spec => []TypeOK
<1>1. Init => TypeOK
  BY InitType
<1>2. TypeOK /\ [Next]_vars => TypeOK'
  BY StepType
<1> QED
  BY <1>1, <1>2, PTL DEF Spec

-----------------------------------------------------------------------------
(* A round sleeps.                                                         *)

\* Every step keeps WaitInv.
LEMMA StepWait == TypeOK /\ WaitInv /\ [Next]_vars => WaitInv'
<1> SUFFICES ASSUME TypeOK, WaitInv, [Next]_vars PROVE WaitInv'
  OBVIOUS
<1> USE DEF WaitInv
<1>1. CASE UNCHANGED vars
  BY <1>1 DEF vars, memory
<1>2. CASE StartRound
  BY <1>2, Specials DEF StartRound
<1>3. CASE ResolveFails \/ Wake \/ Kill \/ Start
  BY <1>3 DEF ResolveFails, Wake, Kill, Start
<1>4. CASE EndRound
  BY <1>4 DEF EndRound
<1>5. CASE Tick
  BY <1>5 DEF Tick, memory
<1>6. ASSUME NEW n \in Namespace PROVE
      /\ SkipMalformed(n) => WaitInv'
      /\ SkipNotDue(n) => WaitInv'
      /\ \A d \in 0..MaxPut : publishNamespaceCached(n, d) => WaitInv'
      /\ \A draft \in Draft : Edit(n, draft) => WaitInv'
      /\ Rekey(n) => WaitInv'
  <2>1. SkipMalformed(n) => WaitInv'
    BY DEF SkipMalformed
  <2>2. SkipNotDue(n) => WaitInv'
    <3>1. SUFFICES ASSUME SkipNotDue(n) PROVE WaitInv'
      OBVIOUS
    <3>2. pc = "visit"
      BY <3>1 DEF SkipNotDue, Visit
    <3>3. wait \in Nat /\ wait >= 1 /\ wait <= Fallback /\ Fallback \in Nat
      BY <3>2, Specials
    <3>4. ~IsDue(n) /\ wait' = Shorter(wait, due[n] - now)
      BY <3>1 DEF SkipNotDue
    <3> DEFINE left == due[n] - now
    <3>5. left \in Nat /\ left > 0
      BY <3>4, NotDueYet
    <3> HIDE DEF left
    <3>6. /\ Shorter(wait, left) \in Nat /\ Shorter(wait, left) <= wait
          /\ Shorter(wait, left) > 0
      BY <3>3, <3>5, ShorterIs
    <3> QED
      BY <3>3, <3>4, <3>6 DEF left
  <2>3. ASSUME NEW d \in 0..MaxPut, publishNamespaceCached(n, d) PROVE WaitInv'
    <3>1. pc = "visit"
      BY <2>3 DEF publishNamespaceCached, Visit
    <3>2. wait \in Nat /\ wait >= 1 /\ wait <= Fallback /\ Fallback \in Nat
      BY <3>1, Specials
    <3> DEFINE interval == tree[n]
    <3>3. interval \in Nat /\ interval > 0
      BY <2>3, ReadableIsPositive DEF publishNamespaceCached
    <3>4. wait' = Shorter(wait, interval)
      BY <2>3 DEF publishNamespaceCached
    <3> HIDE DEF interval
    <3>5. /\ Shorter(wait, interval) \in Nat /\ Shorter(wait, interval) <= wait
          /\ Shorter(wait, interval) > 0
      BY <3>2, <3>3, ShorterIs
    <3> QED
      BY <3>2, <3>4, <3>5
  <2>4. ASSUME NEW draft \in Draft, Edit(n, draft) PROVE WaitInv'
    BY <2>4 DEF Edit, memory
  <2>5. Rekey(n) => WaitInv'
    BY DEF Rekey, memory
  <2> QED
    BY <2>1, <2>2, <2>3, <2>4, <2>5
<1> QED
  BY <1>1, <1>2, <1>3, <1>4, <1>5, <1>6 DEF Next

\* A round always ends in a sleep, and no sleep is longer than the fallback
\* interval: an interval that is not positive never reaches the schedule.
THEOREM RoundsSleep == Spec => []NoFlood
<1>1. Init => WaitInv
  BY DEF Init, WaitInv
<1>2. WaitInv => NoFlood
  BY DEF WaitInv, NoFlood
<1> QED
  BY <1>1, <1>2, RepublishTypeCorrect, StepWait, PTL DEF Spec

-----------------------------------------------------------------------------
(* The key of cached values.                                               *)

\* A step that leaves the cache, the keys and the listing alone.
LEMMA CacheStays ==
    ASSUME CacheInv, UNCHANGED <<key, listed, cache, unnoticed>>,
           pc = "visit" => pc' = "visit"
    PROVE  CacheInv'
BY DEF CacheInv

\* A process that ends, or does not resolve its namespace, has no cache.
LEMMA FreshCache == Fresh => CacheInv'
BY DEF Fresh, CacheInv

\* Every step keeps CacheInv.
LEMMA StepCache == TypeOK /\ CacheInv /\ [Next]_vars => CacheInv'
<1> SUFFICES ASSUME TypeOK, CacheInv, [Next]_vars PROVE CacheInv'
  OBVIOUS
<1>1. CASE UNCHANGED vars
  BY <1>1, CacheStays DEF vars, memory, history
<1>2. CASE StartRound
  <2>1. /\ pc = "round" /\ pc' = "visit" /\ UNCHANGED <<key, cache>>
        /\ listed' = Namespaces /\ unnoticed' = unnoticed \cap listed'
    BY <1>2 DEF StartRound
  <2>2. Namespaces \subseteq Namespace
    BY NamespacesType
  <2> QED
    BY <2>1, <2>2 DEF CacheInv
<1>3. CASE ResolveFails \/ Kill
  BY <1>3, FreshCache DEF ResolveFails, Kill
<1>4. CASE EndRound
  <2>1. /\ pc' = "sleep" /\ UNCHANGED <<key, listed, unnoticed>>
        /\ cache' = [n \in Namespace |-> IF n \in listed THEN cache[n] ELSE None]
    BY <1>4 DEF EndRound, pruneCache, history
  <2>2. listed \subseteq Namespace
    BY DEF TypeOK
  <2> QED
    BY <2>1, <2>2 DEF CacheInv
<1>5. CASE Wake \/ Tick \/ Start
  BY <1>5, CacheStays DEF Wake, Tick, Start, memory, history
<1>6. ASSUME NEW n \in Namespace, SkipMalformed(n) \/ SkipNotDue(n) PROVE CacheInv'
  BY <1>6, CacheStays DEF SkipMalformed, SkipNotDue, history
<1>7. ASSUME NEW n \in Namespace, NEW d \in 0..MaxPut, publishNamespaceCached(n, d)
      PROVE  CacheInv'
  <2>1. pc' = "visit" /\ UNCHANGED <<key, listed, unnoticed>>
    BY <1>7 DEF publishNamespaceCached, Visit
  <2>2. UNCHANGED cache \/ cache' = [cache EXCEPT ![n] = key[n]]
    BY <1>7 DEF publishNamespaceCached
  <2> QED
    BY <2>1, <2>2 DEF CacheInv, TypeOK
<1>8. ASSUME NEW n \in Namespace, Rekey(n) \/ \E draft \in Draft : Edit(n, draft)
      PROVE  CacheInv'
  <2>1. UNCHANGED <<pc, listed, cache>> /\ n \in Namespace
    BY <1>8 DEF Edit, Rekey, memory
  <2>2. \/ UNCHANGED <<key, unnoticed>>
        \/ /\ \A m \in Namespace : m # n => key'[m] = key[m]
           /\ unnoticed \subseteq unnoticed' /\ (n \in listed => n \in unnoticed')
    BY <1>8 DEF Edit, Rekey, NewKey, TypeOK
  <2>3. listed \subseteq Namespace
    BY DEF TypeOK
  <2> QED
    BY <2>1, <2>2, <2>3 DEF CacheInv
<1> QED
  BY <1>1, <1>2, <1>3, <1>4, <1>5, <1>6, <1>7, <1>8 DEF Next

\* No value sealed with the controller key of a removed namespace is put again
\* under its name: a round that does not list the namespace forgets its values.
\* A key made anew with no such round in between is left out.
THEOREM CacheHasCurrentKey == Spec => []CachedWithCurrentKey
<1>1. Init => CacheInv
  BY DEF Init, CacheInv
<1>2. TypeOK /\ CacheInv => CachedWithCurrentKey
  BY DEF TypeOK, CacheInv, CachedWithCurrentKey
<1> QED
  BY <1>1, <1>2, RepublishTypeCorrect, StepCache, PTL DEF Spec

-----------------------------------------------------------------------------
(* Schedules in time.                                                      *)

\* The times of a publish are numbers.
LEMMA PublicationIs ==
    ASSUME NEW p \in Publication
    PROVE  p.at \in Nat /\ p.interval \in Nat /\ p.at + p.interval \in Nat
<1>1. p.at \in 0..MaxTime /\ p.interval \in Intervals
  BY DEF Publication, Time
<1>2. Intervals \subseteq Nat /\ MaxTime \in Nat
  BY ConstantsAssumption
<1>3. (\A t \in 0..MaxTime : t \in Nat) /\ (\A t \in Intervals : t \in Nat)
  BY <1>2
<1>4. p.at \in Nat /\ p.interval \in Nat
  BY <1>1, <1>3, Zenon
<1> QED
  BY <1>4

\* A turn is no earlier than either of its reasons.
LEMMA TurnIs ==
    ASSUME NEW s \in Nat, NEW p \in Publication \cup {None}
    PROVE  /\ Turn(s, p) \in Nat
           /\ s + Fallback <= Turn(s, p)
           /\ p # None => p.at + p.interval <= Turn(s, p)
<1>1. p # None => p.at + p.interval \in Nat
  BY PublicationIs
<1>2. s + Fallback \in Nat
  BY Specials
<1>3. CASE p = None
  BY <1>2, <1>3 DEF Turn
<1>4. CASE p # None
  <2>1. p.at + p.interval \in Nat
    BY <1>1, <1>4
  <2> QED
    BY <1>2, <1>4, <2>1 DEF Turn
<1> QED
  BY <1>3, <1>4

\* The next turn of every namespace is a time.
LEMMA NextTurnIs ==
    ASSUME TypeOK, NEW n \in Namespace
    PROVE  /\ NextTurn(n) \in Nat /\ since[n] \in Nat /\ clock \in Nat
           /\ since[n] + Fallback <= NextTurn(n)
           /\ published[n] # None =>
                published[n].at + published[n].interval <= NextTurn(n)
<1>1. since[n] \in Nat /\ clock \in Nat /\ published[n] \in Publication \cup {None}
  BY DEF TypeOK, Time
<1> QED
  BY <1>1, TurnIs DEF NextTurn

\* What is scheduled in time for a readable namespace is due by its turn.
LEMMA InTimeForTurn ==
    ASSUME TypeOK, NEW n \in Namespace, NEW t \in Nat, InTime(n, t), Readable(n)
    PROVE  t <= NextTurn(n)
<1>1. /\ NextTurn(n) \in Nat /\ since[n] + Fallback <= NextTurn(n)
      /\ published[n] # None =>
           published[n].at + published[n].interval <= NextTurn(n)
  BY NextTurnIs
<1>2. since[n] + Fallback \in Nat
  BY NextTurnIs, Specials
<1>3. CASE t <= since[n] + Fallback
  BY <1>1, <1>2, <1>3
<1>4. CASE published[n] # None /\ t <= published[n].at + published[n].interval
  <2>1. published[n].at + published[n].interval \in Nat
    BY <1>4, PublicationIs DEF TypeOK
  <2> QED
    BY <1>1, <1>4, <2>1
<1> QED
  BY <1>3, <1>4 DEF InTime, From

\* No step moves the start of a fallback interval back.
LEMMA FromGrows ==
    ASSUME TypeOK, DueInv, [Next]_vars, NEW n \in Namespace
    PROVE  /\ since'[n] <= clock' /\ clock <= clock'
           /\ From(n) \in Nat /\ From(n)' \in Nat /\ From(n) <= From(n)'
<1>1. since[n] \in Nat /\ clock \in Nat /\ since[n] <= clock
  BY NextTurnIs DEF DueInv, DueAt
<1>2. since'[n] \in Nat /\ clock' \in Nat
  BY StepType DEF TypeOK, Time
<1>3. CASE UNCHANGED <<tree, since>> /\ clock <= clock'
  BY <1>1, <1>2, <1>3 DEF From, Readable
<1>4. CASE Start
  BY <1>1, <1>4 DEF Start, From, Readable
<1>5. ASSUME NEW m \in Namespace, NEW draft \in Draft, Edit(m, draft)
      PROVE  /\ since'[n] <= clock' /\ clock <= clock' /\ From(n) <= From(n)'
  <2>1. /\ clock' = clock
        /\ \/ since'[n] = since[n] /\ (Readable(n) \/ ~Readable(n)' \/ n # m)
           \/ since'[n] = clock /\ ~Readable(n)
    BY <1>5 DEF Edit, TypeOK
  <2>2. n # m => (Readable(n)' <=> Readable(n))
    BY <1>5 DEF Edit, Readable, TypeOK
  <2> QED
    BY <1>1, <2>1, <2>2 DEF From
<1>6. CASE UNCHANGED vars
  BY <1>1, <1>3, <1>6 DEF vars, history
<1>7. CASE \/ StartRound \/ ResolveFails \/ EndRound \/ Wake \/ Tick \/ Kill
           \/ \E m \in Namespace : SkipMalformed(m) \/ SkipNotDue(m) \/ Rekey(m)
  <2>1. UNCHANGED <<tree, since>>
    BY <1>7 DEF StartRound, ResolveFails, EndRound, Wake, Tick, Kill,
                SkipMalformed, SkipNotDue, Rekey, history
  <2>2. clock' = clock \/ clock' = clock + 1
    BY <1>7 DEF StartRound, ResolveFails, EndRound, Wake, Tick, Kill,
                SkipMalformed, SkipNotDue, Rekey
  <2> QED
    BY <1>1, <1>2, <1>3, <2>1, <2>2
<1>8. ASSUME NEW m \in Namespace, NEW d \in 0..MaxPut, publishNamespaceCached(m, d)
      PROVE  UNCHANGED <<tree, since>> /\ clock <= clock'
  <2>1. d \in Nat /\ clock' = clock + d /\ UNCHANGED <<tree, since>>
    BY <1>8, Specials DEF publishNamespaceCached
  <2> QED
    BY <1>1, <2>1
<1>9. From(n) \in Nat /\ From(n)' \in Nat
  BY <1>1, <1>2 DEF From
<1> QED
  BY <1>3, <1>4, <1>5, <1>6, <1>7, <1>8, <1>9 DEF Next

\* InTime after a step, for a time of before it.
StillInTime(n, t) ==
    \/ published'[n] # None /\ t <= published'[n].at + published'[n].interval
    \/ t <= From(n)' + Fallback

\* What was scheduled in time stays so where nothing is published.
LEMMA InTimeStays ==
    ASSUME TypeOK, DueInv, [Next]_vars, NEW n \in Namespace, NEW t \in Nat,
           InTime(n, t), published'[n] = published[n]
    PROVE  StillInTime(n, t)
<1>1. From(n) \in Nat /\ From(n)' \in Nat /\ From(n) <= From(n)' /\ Fallback \in Nat
  BY FromGrows, Specials
<1>2. CASE t <= From(n) + Fallback
  <2>1. t <= From(n)' + Fallback
    BY <1>1, <1>2
  <2> QED
    BY <2>1 DEF StillInTime
<1>3. CASE published[n] # None /\ t <= published[n].at + published[n].interval
  BY <1>3 DEF StillInTime
<1> QED
  BY <1>2, <1>3 DEF InTime

\* DueInv holds again at a namespace where the new schedules are in time.
LEMMA DueAgain ==
    ASSUME TypeOK, DueInv, [Next]_vars, NEW n \in Namespace,
           due'[n] # None => StillInTime(n, due'[n]),
           pc' = "visit" /\ nextDue'[n] # None => StillInTime(n, nextDue'[n])
    PROVE  DueAt(n)'
BY FromGrows DEF DueAt, InTime, StillInTime

\* So it does after a step that does not publish the namespace and schedules
\* nothing for it that was not in time before.
LEMMA DueStays ==
    ASSUME TypeOK, DueInv, [Next]_vars, NEW n \in Namespace,
           published'[n] = published[n],
           \/ due'[n] \in {None, due[n]}
           \/ due'[n] = nextDue[n] /\ pc = "visit",
           pc' = "visit" => \/ nextDue'[n] = None
                            \/ nextDue'[n] = nextDue[n] /\ pc = "visit"
                            \/ nextDue'[n] = due[n]
                            \/ nextDue'[n] \in Nat /\ InTime(n, nextDue'[n])
    PROVE  DueAt(n)'
<1>1. /\ due[n] # None => due[n] \in Nat /\ InTime(n, due[n])
      /\ pc = "visit" /\ nextDue[n] # None =>
             nextDue[n] \in Nat /\ InTime(n, nextDue[n])
  BY DEF DueInv, DueAt, TypeOK
<1>2. \A t \in Nat : InTime(n, t) => StillInTime(n, t)
  BY InTimeStays
<1>3. due'[n] # None => StillInTime(n, due'[n])
  BY <1>1, <1>2
<1>4. pc' = "visit" /\ nextDue'[n] # None => StillInTime(n, nextDue'[n])
  BY <1>1, <1>2
<1> QED
  BY <1>3, <1>4, DueAgain

\* A publish schedules the next one an interval after this one, or earlier.
LEMMA DuePublished ==
    ASSUME TypeOK, DueInv, NEW n \in Namespace, NEW d \in 0..MaxPut,
           publishNamespaceCached(n, d)
    PROVE  DueAt(n)'
<1> DEFINE interval == tree[n]
           new == [at |-> clock, interval |-> interval]
<1>1. /\ interval \in Nat /\ interval \in Intervals
      /\ clock \in Nat /\ clock \in Time /\ now \in Nat /\ now <= clock
  BY ReadableIsPositive DEF publishNamespaceCached, TypeOK, Time
<1>2. published'[n] = new /\ UNCHANGED due
  BY DEF publishNamespaceCached, TypeOK
<1>3. nextDue'[n] = now + interval
  BY DEF publishNamespaceCached, Schedule, TypeOK
<1>4. due[n] # None => due[n] \in Nat /\ due[n] <= now
  BY DEF publishNamespaceCached, IsDue, TypeOK, Time
<1> HIDE DEF interval
<1>5. new \in Publication /\ new # None
  BY <1>1, ConstantsAssumption DEF Publication
<1>6. \A t \in Nat : t <= clock + interval => StillInTime(n, t)
  BY <1>2, <1>5 DEF StillInTime
<1>7. due'[n] # None => StillInTime(n, due'[n])
  BY <1>1, <1>2, <1>4, <1>6
<1>8. StillInTime(n, nextDue'[n])
  BY <1>1, <1>3, <1>6
<1>9. [Next]_vars
  BY DEF Next
<1> QED
  BY <1>7, <1>8, <1>9, DueAgain

\* Every step keeps DueInv.
LEMMA StepDue == TypeOK /\ DueInv /\ [Next]_vars => DueInv'
<1> SUFFICES ASSUME TypeOK, DueInv, [Next]_vars, NEW n \in Namespace PROVE DueAt(n)'
  BY DEF DueInv
<1>1. CASE UNCHANGED <<pc, due, nextDue, published>>
  BY <1>1, DueStays
<1>2. CASE StartRound
  <2>1. nextDue'[n] = None /\ UNCHANGED <<due, published>>
    BY <1>2 DEF StartRound
  <2> QED
    BY <2>1, DueStays
<1>3. CASE ResolveFails \/ Kill
  <2>1. due'[n] = None /\ pc' = "off" /\ UNCHANGED published
    BY <1>3 DEF ResolveFails, Kill, Fresh, history
  <2> QED
    BY <2>1, DueStays
<1>4. CASE EndRound
  <2>1. due' = nextDue /\ pc = "visit" /\ pc' = "sleep" /\ UNCHANGED published
    BY <1>4 DEF EndRound, history
  <2> QED
    BY <2>1, DueStays
<1>5. CASE Wake \/ Start
  <2>1. pc' = "round" /\ UNCHANGED <<due, published>>
    BY <1>5 DEF Wake, Start, memory, history
  <2> QED
    BY <2>1, DueStays
<1>6. ASSUME NEW m \in Namespace, SkipMalformed(m) \/ SkipNotDue(m) PROVE DueAt(n)'
  <2>1. UNCHANGED <<pc, due, published>> /\ pc = "visit"
    BY <1>6 DEF SkipMalformed, SkipNotDue, Visit, history
  <2>2. CASE m # n
    <3>1. nextDue'[n] = nextDue[n]
      BY <1>6, <2>2 DEF SkipMalformed, SkipNotDue, Schedule, TypeOK
    <3> QED
      BY <2>1, <3>1, DueStays
  <2>3. CASE m = n /\ SkipNotDue(n)
    <3>1. nextDue'[n] = due[n]
      BY <2>3 DEF SkipNotDue, Schedule, TypeOK
    <3> QED
      BY <2>1, <3>1, DueStays
  <2>4. CASE m = n /\ SkipMalformed(n)
    <3>1. nextDue'[n] = now + Fallback /\ ~Readable(n)
      BY <2>4 DEF SkipMalformed, Schedule, TypeOK
    <3>2. now \in Nat /\ clock \in Nat /\ now <= clock /\ Fallback \in Nat
      BY Specials DEF TypeOK, Time
    <3>3. nextDue'[n] \in Nat /\ nextDue'[n] <= From(n) + Fallback
      BY <3>1, <3>2 DEF From
    <3> QED
      BY <2>1, <3>3, DueStays DEF InTime
  <2> QED
    BY <1>6, <2>2, <2>3, <2>4
<1>7. ASSUME NEW m \in Namespace, NEW d \in 0..MaxPut, publishNamespaceCached(m, d)
      PROVE  DueAt(n)'
  <2>1. CASE m # n
    <3>1. nextDue'[n] = nextDue[n] /\ published'[n] = published[n] /\ UNCHANGED <<pc, due>>
      BY <1>7, <2>1 DEF publishNamespaceCached, Schedule, TypeOK
    <3>2. pc = "visit"
      BY <1>7 DEF publishNamespaceCached, Visit
    <3> QED
      BY <3>1, <3>2, DueStays
  <2> QED
    BY <1>7, <2>1, DuePublished
<1>8. CASE Tick \/ \E m \in Namespace : Rekey(m) \/ \E draft \in Draft : Edit(m, draft)
  BY <1>1, <1>8 DEF Tick, Edit, Rekey, memory, history
<1>9. CASE UNCHANGED vars
  BY <1>1, <1>9 DEF vars, memory, history
<1> QED
  BY <1>2, <1>3, <1>4, <1>5, <1>6, <1>7, <1>8, <1>9 DEF Next

-----------------------------------------------------------------------------
(* No namespace starves.                                                   *)

\* The times of the loop are numbers.
LEMMA Times ==
    ASSUME TypeOK
    PROVE  /\ clock \in Nat /\ now \in Nat /\ now <= clock
           /\ wait \in Nat /\ wake \in Nat /\ Fallback \in Nat /\ RoundLength \in Nat
           /\ \A n \in Namespace : NextTurn(n) \in Nat /\ PutsBefore(n) \in Nat
<1>1. clock \in Nat /\ now \in Nat /\ now <= clock /\ wait \in Nat /\ wake \in Nat
  BY DEF TypeOK, Time
<1>2. Fallback \in Nat /\ RoundLength \in Nat
  BY Specials, TimesGrows DEF RoundLength
<1>3. \A n \in Namespace : NextTurn(n) \in Nat /\ PutsBefore(n) \in Nat
  BY NextTurnIs, PutsAddUp
<1> QED
  BY <1>1, <1>2, <1>3

\* Neither the turn of a namespace nor its part in the loop changes with
\* steps that are not a publish, an edit or a start.
LEMMA TurnStays ==
    ASSUME NEW n \in Namespace, UNCHANGED <<tree, only>>,
           since'[n] = since[n], published'[n] = published[n]
    PROVE  NextTurn(n)' = NextTurn(n) /\ (Concerned(n)' <=> Concerned(n))
BY DEF NextTurn, Concerned, Readable

\* A concerned namespace is listed.
LEMMA ConcernedListed ==
    ASSUME TypeOK, NEW n \in Namespace, Concerned(n)
    PROVE  n \in Namespaces
<1>1. tree[n] # Absent /\ only \in {n, All}
  BY ReadableIsPositive DEF Concerned
<1> QED
  BY <1>1 DEF Namespaces

\* A round starts when the loop is late by the puts of one round at most.
LEMMA StartLate == ASSUME TypeOK, LateInv, StartRound PROVE LateInv'
<1>1. /\ pc = "round" /\ pc' = "visit" /\ clock' = clock /\ now' = clock
      /\ todo' = Namespaces /\ UNCHANGED <<tree, only, since, published>>
  BY DEF StartRound
<1>2. clock' <= now' + RoundLength
  BY <1>1, Times
<1>3. ASSUME NEW n \in Namespace PROVE LateAt(n)'
  <2>1. NextTurn(n)' = NextTurn(n) /\ (Concerned(n)' <=> Concerned(n))
    BY <1>1, TurnStays
  <2>2. clock' <= now' + PutsBefore(n)
    BY <1>1, Times
  <2>3. Concerned(n) => now' <= NextTurn(n) + RoundLength
    BY <1>1 DEF LateInv, LateAt
  <2>4. Concerned(n) => n \in todo'
    BY <1>1, ConcernedListed
  <2> QED
    BY <1>1, <2>1, <2>2, <2>3, <2>4 DEF LateAt
<1> QED
  BY <1>1, <1>2, <1>3 DEF LateInv

\* The sleep ends at most the puts of the round after the turn of each
\* namespace.
LEMMA EndLate == ASSUME TypeOK, WaitInv, LateInv, EndRound PROVE LateInv'
<1>1. /\ pc = "visit" /\ pc' = "sleep" /\ todo = {} /\ wake' = clock + wait
      /\ UNCHANGED <<tree, only, clock, since, published>>
  BY DEF EndRound, history
<1>2. clock <= now + RoundLength /\ wait <= Fallback
  BY <1>1, Specials DEF LateInv, WaitInv
<1>3. clock' <= wake' /\ wake' <= clock' + Fallback
  BY <1>1, <1>2, Times
<1>4. ASSUME NEW n \in Namespace PROVE LateAt(n)'
  <2>1. NextTurn(n)' = NextTurn(n) /\ (Concerned(n)' <=> Concerned(n))
    BY <1>1, TurnStays
  <2>2. Concerned(n) => now + wait <= NextTurn(n)
    BY <1>1 DEF LateInv, LateAt
  <2>3. Concerned(n) => wake' <= NextTurn(n) + RoundLength
    BY <1>1, <1>2, <2>2, Times
  <2> QED
    BY <1>1, <2>1, <2>3 DEF LateAt
<1> QED
  BY <1>1, <1>3, <1>4 DEF LateInv

\* Time passes until the sleep ends, and then the next round begins.
LEMMA SleepLate == ASSUME TypeOK, LateInv, Tick \/ Wake PROVE LateInv'
<1>1. UNCHANGED <<tree, only, since, published, wake>>
  BY DEF Tick, Wake, memory, history
<1>2. \A n \in Namespace :
          NextTurn(n)' = NextTurn(n) /\ (Concerned(n)' <=> Concerned(n))
  BY <1>1, TurnStays
<1>3. CASE Tick
  <2>1. pc' = pc /\ pc \in {"off", "sleep"} /\ clock' = clock + 1
    BY <1>3 DEF Tick
  <2>2. pc = "sleep" => clock' <= wake /\ wake <= clock' + Fallback
    BY <1>3, <2>1, Times DEF Tick, LateInv
  <2>3. \A n \in Namespace : LateAt(n)'
    BY <1>1, <1>2, <2>1 DEF LateAt, LateInv
  <2> QED
    BY <1>1, <2>1, <2>2, <2>3 DEF LateInv
<1>4. CASE Wake
  <2>1. pc = "sleep" /\ pc' = "round" /\ clock' = wake
    BY <1>4 DEF Wake
  <2>2. \A n \in Namespace : LateAt(n)'
    BY <1>2, <2>1 DEF LateAt, LateInv
  <2> QED
    BY <2>1, <2>2 DEF LateInv
<1> QED
  BY <1>3, <1>4

\* A process that is not running, or has just started, is not late.
LEMMA RestartLate ==
    ASSUME TypeOK, ResolveFails \/ Kill \/ Start
    PROVE  LateInv'
<1>1. CASE ResolveFails \/ Kill
  <2>1. pc' = "off"
    BY <1>1 DEF ResolveFails, Kill
  <2> QED
    BY <2>1 DEF LateInv, LateAt
<1>2. CASE Start
  <2>1. pc' = "round"
    BY <1>2 DEF Start
  <2>2. TypeOK'
    BY <1>2, OtherType
  <2>3. ASSUME NEW n \in Namespace PROVE clock' <= NextTurn(n)' + RoundLength
    <3>1. since'[n] \in Nat /\ published'[n] \in Publication \cup {None}
      BY <2>2 DEF TypeOK, Time
    <3>2. since'[n] = clock'
      BY <1>2 DEF Start
    <3>3. NextTurn(n)' \in Nat /\ clock' + Fallback <= NextTurn(n)'
      BY <3>1, <3>2, TurnIs DEF NextTurn
    <3> QED
      BY <3>1, <3>2, <3>3, Times
  <2> QED
    BY <2>1, <2>3 DEF LateInv, LateAt
<1> QED
  BY <1>1, <1>2

\* An edit makes a namespace readable now, or leaves its turn as it is.
LEMMA EditTurn ==
    ASSUME TypeOK, NEW m \in Namespace, NEW draft \in Draft, Edit(m, draft),
           NEW n \in Namespace, Concerned(n)'
    PROVE  \/ Concerned(n) /\ NextTurn(n)' = NextTurn(n)
           \/ NextTurn(n)' \in Nat /\ clock + Fallback <= NextTurn(n)'
<1>1. UNCHANGED <<only, published>>
  BY DEF Edit
<1>2. CASE since'[n] = since[n] /\ (n # m \/ Readable(n))
  <2>1. n # m => tree'[n] = tree[n]
    BY DEF Edit, TypeOK
  <2>2. Concerned(n)
    BY <1>1, <1>2, <2>1 DEF Concerned, Readable
  <2> QED
    BY <1>1, <1>2, <2>2 DEF NextTurn
<1>3. CASE since'[n] = clock
  <2>1. clock \in Nat /\ published'[n] \in Publication \cup {None}
    BY <1>1 DEF TypeOK, Time
  <2> QED
    BY <1>3, <2>1, TurnIs DEF NextTurn
<1>4. \/ since'[n] = since[n] /\ (n # m \/ Readable(n))
      \/ since'[n] = clock
  BY DEF Edit, TypeOK
<1> QED
  BY <1>2, <1>3, <1>4

\* An edit makes the loop late with no namespace.
LEMMA EditLate ==
    ASSUME TypeOK, WaitInv, LateInv, NEW m \in Namespace, NEW draft \in Draft,
           Edit(m, draft)
    PROVE  LateInv'
<1>1. UNCHANGED <<pc, clock, now, wait, wake, todo>>
  BY DEF Edit, memory
<1>2. pc \in {"visit", "sleep"} => wait <= Fallback
  BY Specials DEF WaitInv
<1>3. ASSUME NEW n \in Namespace PROVE LateAt(n)'
  <2>1. LateAt(n)
    BY DEF LateInv
  <2>2. CASE ~Concerned(n)'
    BY <1>1, <2>1, <2>2 DEF LateAt
  <2>3. CASE Concerned(n) /\ NextTurn(n)' = NextTurn(n)
    BY <1>1, <2>1, <2>3 DEF LateAt
  <2>4. CASE NextTurn(n)' \in Nat /\ clock + Fallback <= NextTurn(n)'
    <3> DEFINE turn == NextTurn(n)'
    <3>1. clock <= turn + RoundLength /\ now <= turn + RoundLength
      BY <2>4, Times
    <3>2. pc = "visit" => now + wait <= turn
      BY <1>2, <2>4, Times
    <3>3. pc = "sleep" => wake <= turn + RoundLength
      BY <2>4, Times DEF LateInv
    <3> QED
      BY <1>1, <2>1, <3>1, <3>2, <3>3 DEF LateAt
  <2> QED
    BY <2>2, <2>3, <2>4, EditTurn
<1> QED
  BY <1>1, <1>3 DEF LateInv

\* A visit that does not publish: n is not concerned, or its turn comes after
\* the sleep.
LEMMA SkipLate ==
    ASSUME TypeOK, WaitInv, DueInv, LateInv, NEW n \in Namespace,
           SkipMalformed(n) \/ SkipNotDue(n)
    PROVE  LateInv'
<1>1. /\ pc = "visit" /\ pc' = "visit" /\ n \in todo /\ todo' = todo \ {n}
      /\ UNCHANGED <<tree, clock, only, now, since, published>>
  BY DEF SkipMalformed, SkipNotDue, Visit, history
<1>2. \A m \in Namespace :
          NextTurn(m)' = NextTurn(m) /\ (Concerned(m)' <=> Concerned(m))
  BY <1>1, TurnStays
<1>3. wait' \in Nat /\ wait' <= wait
  <2>1. CASE SkipMalformed(n)
    BY <2>1, Times DEF SkipMalformed
  <2>2. CASE SkipNotDue(n)
    <3>1. ~IsDue(n) /\ wait' = Shorter(wait, due[n] - now)
      BY <2>2 DEF SkipNotDue
    <3> QED
      BY <3>1, NotDueYet, ShorterIs, Times
  <2> QED
    BY <2>1, <2>2
<1>4. Concerned(n) => now + wait' <= NextTurn(n)
  <2>1. CASE SkipMalformed(n)
    BY <2>1 DEF SkipMalformed, Concerned
  <2>2. CASE SkipNotDue(n)
    <3>1. ~IsDue(n) /\ Readable(n) /\ wait' = Shorter(wait, due[n] - now)
      BY <2>2 DEF SkipNotDue
    <3>2. /\ due[n] \in Nat /\ due[n] # None
          /\ due[n] - now \in Nat /\ now + (due[n] - now) = due[n]
      BY <3>1, NotDueYet, Specials
    <3>3. due[n] <= NextTurn(n)
      BY <3>1, <3>2, InTimeForTurn DEF DueInv, DueAt
    <3>4. wait' <= due[n] - now
      BY <3>1, <3>2, ShorterIs, Times
    <3> QED
      BY <1>3, <3>2, <3>3, <3>4, Times
  <2> QED
    BY <2>1, <2>2
<1>5. ASSUME NEW m \in Namespace PROVE LateAt(m)'
  <2>1. CASE m = n
    BY <1>1, <1>2, <1>4, <2>1 DEF LateAt
  <2>2. CASE m # n /\ m \in todo
    BY <1>1, <1>2, <2>2 DEF LateAt, LateInv
  <2>3. CASE m # n /\ m \notin todo
    <3>1. Concerned(m) => now + wait <= NextTurn(m)
      BY <1>1, <2>3 DEF LateAt, LateInv
    <3>2. Concerned(m) => now + wait' <= NextTurn(m)
      BY <1>3, <3>1, Times
    <3> QED
      BY <1>1, <1>2, <2>3, <3>2 DEF LateAt
  <2> QED
    BY <2>1, <2>2, <2>3
<1> QED
  BY <1>1, <1>5 DEF LateInv

\* A publish makes the loop late by its puts for the namespaces after it, and
\* its own turn, and the turns of those before it, come after the sleep.
LEMMA PublishLate ==
    ASSUME TypeOK, WaitInv, LateInv, NEW n \in Namespace, NEW d \in 0..MaxPut,
           publishNamespaceCached(n, d)
    PROVE  LateInv'
<1> DEFINE interval == tree[n]
           new == [at |-> clock, interval |-> interval]
<1>1. /\ pc = "visit" /\ pc' = "visit" /\ n \in todo /\ todo' = todo \ {n}
      /\ (\A m \in todo : n <= m) /\ UNCHANGED <<tree, only, now, since>>
  BY DEF publishNamespaceCached, Visit
<1>2. clock' = clock + d /\ d \in Nat /\ d <= MaxPut /\ MaxPut \in Nat
  BY Specials DEF publishNamespaceCached
<1>3. interval \in Nat /\ interval \in Intervals
  BY ReadableIsPositive DEF publishNamespaceCached
<1>4. /\ wait' = Shorter(wait, interval) /\ published'[n] = new
      /\ \A m \in Namespace : m # n => published'[m] = published[m]
  BY DEF publishNamespaceCached, TypeOK
<1> HIDE DEF interval
<1>5. wait' \in Nat /\ wait' <= wait /\ wait' <= interval
  BY <1>3, <1>4, ShorterIs, Times
<1>6. clock <= now + PutsBefore(n)
  BY <1>1 DEF LateInv, LateAt
<1>7. clock' <= now + (PutsBefore(n) + MaxPut) /\ clock' \in Nat
  BY <1>2, <1>6, Times
<1>8. clock' <= now + RoundLength
  BY <1>2, <1>7, PutsAddUp, Times
<1>9. now + wait' <= NextTurn(n)'
  <2>1. new \in Publication /\ new # None
    BY <1>3, ConstantsAssumption DEF Publication, TypeOK
  <2>2. since[n] \in Nat /\ since'[n] = since[n]
    BY <1>1 DEF TypeOK, Time
  <2>3. NextTurn(n)' \in Nat /\ clock + interval <= NextTurn(n)'
    BY <1>4, <2>1, <2>2, TurnIs DEF NextTurn
  <2> QED
    BY <1>3, <1>5, <2>3, Times
<1>10. ASSUME NEW m \in Namespace PROVE LateAt(m)'
  <2>1. CASE m = n
    BY <1>1, <1>9, <2>1 DEF LateAt
  <2>2. CASE m # n
    <3>1. NextTurn(m)' = NextTurn(m) /\ (Concerned(m)' <=> Concerned(m))
      BY <1>1, <1>4, <2>2, TurnStays
    <3>2. CASE m \in todo
      <4>1. n < m
        BY <1>1, <2>2, <3>2 DEF Namespace
      <4>2. clock' <= now + PutsBefore(m)
        BY <1>2, <1>7, <4>1, PutsAddUp, Times
      <4> QED
        BY <1>1, <2>2, <3>1, <3>2, <4>2 DEF LateAt, LateInv
    <3>3. CASE m \notin todo
      <4>1. Concerned(m) => now + wait <= NextTurn(m)
        BY <1>1, <3>3 DEF LateAt, LateInv
      <4>2. Concerned(m) => now + wait' <= NextTurn(m)
        BY <1>5, <4>1, Times
      <4> QED
        BY <1>1, <3>1, <3>3, <4>2 DEF LateAt
    <3> QED
      BY <3>2, <3>3
  <2> QED
    BY <2>1, <2>2
<1> QED
  BY <1>1, <1>8, <1>10 DEF LateInv

\* Every step keeps LateInv.
LEMMA StepLate ==
    TypeOK /\ WaitInv /\ DueInv /\ LateInv /\ [Next]_vars => LateInv'
<1> SUFFICES ASSUME TypeOK, WaitInv, DueInv, LateInv, [Next]_vars PROVE LateInv'
  OBVIOUS
<1>1. CASE UNCHANGED vars \/ \E m \in Namespace : Rekey(m)
  <2>1. UNCHANGED <<tree, clock, only, pc, todo, now, wait, wake, since, published>>
    BY <1>1 DEF Rekey, vars, memory, history
  <2>2. \A n \in Namespace : LateAt(n)'
    BY <2>1, TurnStays DEF LateAt, LateInv
  <2> QED
    BY <2>1, <2>2 DEF LateInv
<1>2. CASE Next /\ ~\E m \in Namespace : Rekey(m)
  BY <1>2, StartLate, EndLate, SleepLate, RestartLate, EditLate, SkipLate,
     PublishLate DEF Next
<1> QED
  BY <1>1, <1>2

\* A namespace is never later than its turn by more than the puts of a round
\* and of the namespaces before it in the next, in a round or a sleep too.
LEMMA LateIsInTime == TypeOK /\ WaitInv /\ LateInv => NeverStarved
<1> SUFFICES ASSUME TypeOK, WaitInv, LateInv, pc # "off",
                    NEW n \in Namespace, Concerned(n)
             PROVE  clock <= Deadline(n)
  BY DEF NeverStarved
<1> DEFINE turn == NextTurn(n)
           before == PutsBefore(n)
<1>1. /\ turn \in Nat /\ before \in Nat /\ RoundLength \in Nat
      /\ clock \in Nat /\ now \in Nat /\ wait \in Nat /\ wake \in Nat
  BY Times
<1>2. LateAt(n) /\ pc \in {"round", "visit", "sleep"}
  BY DEF LateInv, TypeOK
<1>3. Deadline(n) = turn + RoundLength + before
  BY DEF Deadline
<1> HIDE DEF turn, before
<1>4. CASE clock <= turn + RoundLength
  BY <1>1, <1>3, <1>4
<1>5. CASE pc = "round"
  BY <1>2, <1>4, <1>5 DEF LateAt, turn
<1>6. CASE pc = "visit" /\ n \in todo
  <2>1. clock <= now + before /\ now <= turn + RoundLength
    BY <1>2, <1>6 DEF LateAt, turn, before
  <2> QED
    BY <1>1, <1>3, <2>1
<1>7. CASE pc = "visit" /\ n \notin todo
  <2>1. now + wait <= turn /\ clock <= now + RoundLength
    BY <1>2, <1>7 DEF LateAt, LateInv, turn
  <2> QED
    BY <1>1, <1>4, <2>1
<1>8. CASE pc = "sleep"
  <2>1. wake <= turn + RoundLength /\ clock <= wake
    BY <1>2, <1>8 DEF LateAt, LateInv, turn
  <2> QED
    BY <1>1, <1>4, <2>1
<1> QED
  BY <1>2, <1>5, <1>6, <1>7, <1>8

\* The loop begins on time.
LEMMA InitLate == Init => WaitInv /\ DueInv /\ LateInv
<1> SUFFICES ASSUME Init PROVE WaitInv /\ DueInv /\ LateInv
  OBVIOUS
<1>1. pc = "round" /\ clock = 0 /\ TypeOK
  BY InitType DEF Init
<1>2. WaitInv
  BY <1>1 DEF WaitInv
<1>3. DueInv
  BY DEF Init, DueInv, DueAt
<1>4. \A n \in Namespace : 0 <= NextTurn(n) + RoundLength
  BY <1>1, Times
<1> QED
  BY <1>1, <1>2, <1>3, <1>4 DEF LateInv, LateAt

\* Each readable namespace of the loop is published again by its deadline:
\* its turn, the puts of one round and those of the namespaces before it,
\* for any number of namespaces, whatever is broken, removed or slow.
THEOREM NobodyStarves == Spec => []NeverStarved
<1>1. Spec => [](TypeOK /\ WaitInv)
  BY RepublishTypeCorrect, InitLate, StepWait, PTL DEF Spec
<1>2. Spec => []DueInv
  BY <1>1, InitLate, StepDue, PTL DEF Spec
<1> QED
  BY <1>1, <1>2, InitLate, StepLate, LateIsInTime, PTL DEF Spec
=============================================================================
