----------------------------- MODULE Republish -----------------------------
(***************************************************************************)
(* The schedule of the republish loop of stunmesh-provd: which namespace   *)
(* it publishes when, while the operator adds, edits, breaks and removes   *)
(* namespaces, puts take time, and the process is killed and started       *)
(* again.  What a publish does to one node is module Publish; here it      *)
(* takes time, and leaves values sealed with the controller key of then in *)
(* the cache.                                                              *)
(*                                                                         *)
(* An operator named X_Slip is X with a plausible slip in it.  No action   *)
(* uses one: putting it in X's place must break one of the properties.     *)
(***************************************************************************)
EXTENDS Naturals, FiniteSets

CONSTANTS
    N,          \* namespaces 1 .. N, in the order ReadDir lists them
    Intervals,  \* the republish_interval values an operator may write
    Fallback,   \* fallbackPollInterval
    Absent,     \* no such namespace directory
    Malformed,  \* a namespace whose files do not parse, e.g. in an edit
    All,        \* publish without --namespace
    None,       \* nothing
    MaxPut,     \* bound: how long the puts of one namespace take
    MaxTime,    \* bound: how long the clock runs
    MaxEvents   \* bound: edits, failed puts, kills and stops

VARIABLES
    tree,       \* of each namespace: its interval, Absent or Malformed
    key,        \* how often its controller key was made anew
    clock,      \* the time
    only,       \* the namespace given with --namespace, or All
    pc,         \* what the loop is about to do
    listed,     \* the namespaces of this round
    todo,       \* those of them not visited yet
    now,        \* the clock as this round read it
    due,        \* when each namespace is due, or None
    nextDue,    \* the same, as this round builds it
    wait,       \* how long this round will sleep
    wake,       \* when the sleep ends
    cache,      \* the key that a namespace's cached values are sealed with
    events,     \* edits, failed puts, kills and stops so far (bounded)
    since,      \* history: since when the namespace reads well and the loop runs
    published,  \* history: when it was published last, and its interval then
    unnoticed   \* history: listed by a round, and its key made anew since

memory == <<listed, todo, now, due, nextDue, wait, wake, cache>>
history == <<since, published, unnoticed>>
vars == <<tree, key, clock, only, pc, memory, events, history>>

-----------------------------------------------------------------------------
Namespace == 1..N
Time == 0..MaxTime
Draft == Intervals \cup {Absent, Malformed}
Publication == [at : Time, interval : Intervals]

ASSUME ConstantsAssumption ==
    /\ N \in Nat \ {0} /\ Intervals \subseteq Nat /\ Fallback \in Nat \ {0}
    /\ Absent \notin Nat /\ Malformed \notin Nat /\ None \notin Nat
    /\ All \notin Nat /\ Absent # Malformed
    /\ MaxPut \in Nat /\ MaxTime \in Nat /\ MaxEvents \in Nat
    /\ None \notin Publication

Shorter(d, e) == IF d <= e THEN d ELSE e

\* store.ReadDeployment succeeds: an interval must be positive.
Readable_Slip(n) == tree[n] \in Intervals
Readable(n) == tree[n] \in Intervals /\ tree[n] > 0

\* store.Namespaces, or the one namespace that was asked for.
Namespaces == IF only = All THEN {n \in Namespace : tree[n] # Absent}
              ELSE {only}
resolveNamespaces == only # All => Readable(only)

\* A started loop: nothing cached, nothing scheduled.
Fresh ==
    /\ listed' = {} /\ todo' = {} /\ now' = 0 /\ wait' = 0 /\ wake' = 0
    /\ due' = [n \in Namespace |-> None]
    /\ nextDue' = due' /\ cache' = due'

-----------------------------------------------------------------------------
Init ==
    /\ tree \in [Namespace -> Draft]
    /\ key = [n \in Namespace |-> 0]
    /\ clock = 0
    /\ only \in Namespace \cup {All}
    /\ pc = "round"
    /\ listed = {} /\ todo = {} /\ now = 0 /\ wait = 0 /\ wake = 0
    /\ due = [n \in Namespace |-> None]
    /\ nextDue = due /\ cache = due
    /\ events = 0
    /\ since = [n \in Namespace |-> 0]
    /\ published = due
    /\ unnoticed = {}

Event == events < MaxEvents /\ events' = events + 1

-----------------------------------------------------------------------------
(* One round of runRepublishLoop.                                          *)

StartRound ==
    /\ pc = "round"
    /\ resolveNamespaces
    /\ listed' = Namespaces
    /\ todo' = listed'
    /\ now' = clock
    /\ nextDue' = [n \in Namespace |-> None]
    /\ wait' = Fallback
    /\ pc' = "visit"
    /\ unnoticed' = unnoticed \cap listed'
    /\ UNCHANGED <<tree, key, clock, only, due, wake, cache, events, since,
                   published>>

\* The namespace of --namespace cannot be read: the process exits.
ResolveFails ==
    /\ pc = "round"
    /\ ~resolveNamespaces
    /\ pc' = "off"
    /\ Fresh
    /\ UNCHANGED <<tree, key, clock, only, events, history>>

\* The next namespace of the round, by name.
Visit(n) ==
    /\ pc = "visit" /\ n \in todo /\ \A m \in todo : n <= m
    /\ todo' = todo \ {n}

Schedule(n, t) == nextDue' = [nextDue EXCEPT ![n] = t]

\* ReadDeployment fails: retried after the fallback interval.
SkipMalformed(n) ==
    /\ Visit(n) /\ ~Readable(n)
    /\ Schedule(n, now + Fallback)
    /\ UNCHANGED <<tree, key, clock, only, pc, listed, now, due, wait, wake,
                   cache, events, history>>

IsDue(n) == due[n] # None => now >= due[n]

SkipNotDue_Slip(n) ==
    /\ Visit(n) /\ Readable(n) /\ ~IsDue(n)
    /\ Schedule(n, due[n])
    /\ UNCHANGED <<tree, key, clock, only, pc, listed, now, due, wait, wake,
                   cache, events, history>>

SkipNotDue(n) ==
    /\ Visit(n) /\ Readable(n) /\ ~IsDue(n)
    /\ Schedule(n, due[n])
    /\ wait' = Shorter(wait, due[n] - now)
    /\ UNCHANGED <<tree, key, clock, only, pc, listed, now, due, wake, cache,
                   events, history>>

\* publishNamespaceCached: its puts take d, and cached values are put as they
\* are; values that were sealed now are cached unless a put failed.
publishNamespaceCached(n, d) ==
    /\ Visit(n) /\ Readable(n) /\ IsDue(n)
    /\ clock + d <= MaxTime
    /\ clock' = clock + d
    /\ Schedule(n, now + tree[n])
    /\ wait' = Shorter(wait, tree[n])
    /\ IF cache[n] # None THEN UNCHANGED <<cache, events>>
       ELSE \/ cache' = [cache EXCEPT ![n] = key[n]] /\ UNCHANGED events
            \/ Event /\ UNCHANGED cache
    /\ published' = [published EXCEPT ![n] = [at |-> clock, interval |-> tree[n]]]
    /\ UNCHANGED <<tree, key, only, pc, listed, now, due, wake, since, unnoticed>>

pruneCache_Slip == cache
pruneCache == [n \in Namespace |-> IF n \in listed THEN cache[n] ELSE None]

EndRound_Slip ==
    /\ pc = "visit" /\ todo = {}
    /\ due' = nextDue
    /\ cache' = pruneCache
    /\ wait' = wait - (clock - now)
    /\ wake' = clock + wait'
    /\ pc' = "sleep"
    /\ UNCHANGED <<tree, key, clock, only, listed, todo, now, nextDue, events,
                   history>>

\* The end of a round: the sleep starts when the puts are over.
EndRound ==
    /\ pc = "visit" /\ todo = {}
    /\ due' = nextDue
    /\ cache' = pruneCache
    /\ wake' = clock + wait
    /\ pc' = "sleep"
    /\ UNCHANGED <<tree, key, clock, only, listed, todo, now, nextDue, wait,
                   events, history>>

Wake ==
    /\ pc = "sleep" /\ clock = wake
    /\ pc' = "round"
    /\ UNCHANGED <<tree, key, clock, only, memory, events, history>>

Tick ==
    /\ pc = "off" \/ (pc = "sleep" /\ clock < wake)
    /\ clock < MaxTime
    /\ clock' = clock + 1
    /\ UNCHANGED <<tree, key, only, pc, memory, events, history>>

\* SIGTERM, or the process dies: what it had in memory is gone.
Kill ==
    /\ pc # "off" /\ Event
    /\ pc' = "off"
    /\ Fresh
    /\ unnoticed' = {}
    /\ UNCHANGED <<tree, key, clock, only, since, published>>

Start ==
    /\ pc = "off"
    /\ pc' = "round"
    /\ since' = [n \in Namespace |-> clock]
    /\ UNCHANGED <<tree, key, clock, only, memory, events, published, unnoticed>>

-----------------------------------------------------------------------------
(* The operator.                                                           *)

\* The controller key of n is made anew, while the loop has n in its list.
NewKey(n) ==
    /\ key' = [key EXCEPT ![n] = @ + 1]
    /\ unnoticed' = IF n \in listed THEN unnoticed \cup {n} ELSE unnoticed

\* A new interval, a typo, a removal (and, from Absent, a new namespace with
\* a new controller key under the old name).
Edit(n, draft) ==
    /\ Event
    /\ draft # tree[n]
    /\ tree' = [tree EXCEPT ![n] = draft]
    /\ IF tree[n] = Absent THEN NewKey(n) ELSE UNCHANGED <<key, unnoticed>>
    /\ since' = IF Readable(n) THEN since ELSE [since EXCEPT ![n] = clock]
    /\ UNCHANGED <<clock, only, pc, memory, published>>

\* controller.key and controller.pub are removed and made again by init, in a
\* namespace that stays.
Rekey(n) ==
    /\ Event
    /\ tree[n] # Absent
    /\ NewKey(n)
    /\ UNCHANGED <<tree, clock, only, pc, memory, since, published>>

-----------------------------------------------------------------------------
Next ==
    \/ StartRound \/ ResolveFails
    \/ \E n \in Namespace :
        \/ SkipMalformed(n) \/ SkipNotDue(n)
        \/ \E d \in 0..MaxPut : publishNamespaceCached(n, d)
        \/ \E draft \in Draft : Edit(n, draft)
        \/ Rekey(n)
    \/ EndRound \/ Wake \/ Tick \/ Kill \/ Start

Spec == Init /\ [][Next]_vars

-----------------------------------------------------------------------------
(* Properties.                                                             *)

\* Type invariant of every variable of the loop; what it keeps in memory does
\* not outlive the process.
TypeOK ==
    /\ tree \in [Namespace -> Draft]
    /\ key \in [Namespace -> Nat]
    /\ clock \in Time
    /\ only \in Namespace \cup {All}
    /\ pc \in {"off", "round", "visit", "sleep"}
    /\ todo \subseteq listed /\ listed \subseteq Namespace
    /\ now \in 0..clock
    /\ due \in [Namespace -> Nat \cup {None}]
    /\ nextDue \in [Namespace -> Nat \cup {None}]
    /\ wait \in Nat /\ wake \in Nat
    /\ cache \in [Namespace -> Nat \cup {None}]
    /\ pc = "off" => \A n \in Namespace : due[n] = None /\ cache[n] = None
    /\ events \in 0..MaxEvents
    /\ since \in [Namespace -> Time]
    /\ published \in [Namespace -> Publication \cup {None}]
    /\ unnoticed \subseteq Namespace

\* The puts of a whole round, and of the namespaces before n in a round.
RoundLength == N * MaxPut
PutsBefore(n) == (n - 1) * MaxPut

\* When a namespace is due again at the latest: an interval after its last
\* publish, or a fallback interval after it became readable.
Turn(readableSince, last) ==
    LET later == readableSince + Fallback
        again == IF last = None THEN 0 ELSE last.at + last.interval
    IN  IF later > again THEN later ELSE again

NextTurn(n) == Turn(since[n], published[n])

\* When it must have been published again: the puts of the round before, and
\* those of the namespaces that come before n in its own, may come between.
Deadline(n) == NextTurn(n) + RoundLength + PutsBefore(n)

\* Readable, and one of the namespaces of this loop.
Concerned(n) == Readable(n) /\ only \in {n, All}

\* A namespace that can be read is published again in time, whatever the
\* others do: one that is broken, removed or slow delays it by its puts at
\* most, and so do an edit of its own interval and a fallback poll.
NeverStarved ==
    pc # "off" => \A n \in Namespace : Concerned(n) => clock <= Deadline(n)

\* ReadDeployment rejects an interval that is not positive because it "turns
\* the republish loop into an unthrottled flood": a round always sleeps, and
\* never past the fallback interval.
NoFlood == pc = "sleep" => wait \in 1..Fallback

\* The values a round is about to put again are sealed with the controller
\* key their namespace has now, also when it came back under its old name. The
\* loop compares no controller keys: it can only tell by a round that does not
\* list the namespace, so one whose key was made anew with no such round in
\* between -- removed and made again, or given a new key in place -- is left
\* out.
CachedWithCurrentKey ==
    \A n \in todo \ unnoticed : cache[n] \in {None, key[n]}

\* republish_loop.go on a cached value whose content and identity key are those
\* of this round: it "is still exactly what a node holding that identity key
\* and looking at that content would expect, so putting it again is correct".
\* So its sender is the controller that the namespace has now.
RePutIsExpected ==
    \A n \in todo :
        Readable(n) /\ IsDue(n) => cache[n] \in {None, key[n]}

-----------------------------------------------------------------------------
(* Inductive invariants of the proofs in RepublishProofs.                  *)

\* A round that runs has a sleep in sight, of at most the fallback interval.
WaitInv == pc \in {"visit", "sleep"} => wait \in 1..Fallback

\* Values of a listed namespace are sealed with its key of now unless that was
\* made anew unnoticed; outside a round the others have no values.
CacheInv ==
    /\ \A n \in listed \ unnoticed : cache[n] \in {None, key[n]}
    /\ pc # "visit" => \A n \in Namespace \ listed : cache[n] = None

\* A time that a schedule may hold for n: within an interval of its last
\* publish, or within a fallback interval of when it became readable, or of
\* now where it still is not.
From(n) == IF Readable(n) THEN since[n] ELSE clock
InTime(n, t) ==
    \/ published[n] # None /\ t <= published[n].at + published[n].interval
    \/ t <= From(n) + Fallback

\* What is scheduled is in time.
DueAt(n) ==
    /\ since[n] <= clock
    /\ due[n] # None => InTime(n, due[n])
    /\ pc = "visit" /\ nextDue[n] # None => InTime(n, nextDue[n])

DueInv == \A n \in Namespace : DueAt(n)

\* How late the loop may be with a namespace: at most the puts of a round when
\* one begins, and of the namespaces before n when n is up; after its visit
\* the sleep of the round ends before its turn.
LateAt(n) ==
    /\ pc = "round" /\ Concerned(n) => clock <= NextTurn(n) + RoundLength
    /\ pc = "visit" /\ n \in todo =>
          /\ clock <= now + PutsBefore(n)
          /\ Concerned(n) => now <= NextTurn(n) + RoundLength
    /\ pc = "visit" /\ n \notin todo /\ Concerned(n) => now + wait <= NextTurn(n)
    /\ pc = "sleep" /\ Concerned(n) => wake <= NextTurn(n) + RoundLength

LateInv ==
    /\ pc = "visit" => clock <= now + RoundLength
    /\ pc = "sleep" => clock <= wake /\ wake <= clock + Fallback
    /\ \A n \in Namespace : LateAt(n)
=============================================================================
