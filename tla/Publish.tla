------------------------------ MODULE Publish ------------------------------
(***************************************************************************)
(* From the controller's tree to a node, through the DHT: the republish    *)
(* loop of stunmesh-provd with its cache of sealed values, `publish        *)
(* --once` beside it, the proxies that store the values, and the fetch of  *)
(* the node's agent.  One node: every node has a DHT key and a cache entry *)
(* of its own.                                                             *)
(*                                                                         *)
(* X_Slip (or X_..._Slip) is X with a plausible slip in it.  No action     *)
(* uses one: putting it in X's place must break one of the properties.     *)
(***************************************************************************)
EXTENDS Naturals, Sequences

CONSTANTS
    Content,    \* bundle contents (everything but the timestamp)
    Identity,   \* node identity keys
    NodeKey,    \* the identity key this node really has
    Proxies,    \* the proxy base URLs, in the order a Get tries them
    Drafts,     \* what the operator may make of the node's files
    First,      \* the files this controller starts with
    Broken,     \* the content of node files that do not build
    Junk,       \* a value somebody else stored under the key
    None,       \* nothing
    ClockSteps, \* a seal may carry an earlier second than one before it
    MaxEvents   \* bound: edits of the node's files, runs of `publish --once`,
                \* failures, losses, kills, clock steps and foreign values

VARIABLES
    tree,      \* the node's files on the controller: what wg.yaml and
               \* stunmesh.yaml say, and identity.pub
    reading,   \* the identity.pub a controller process has read while it still
               \* reads the other files, and whether they changed since
    now,       \* the largest timestamp sealed so far
    dht,       \* what each proxy returns for the node's DHT key
    cache,     \* the loop's cacheEntry for the node, or None
    put,       \* the put each controller process has under way, or None
    applied,   \* the content the node's agent applied last, or None
    stepped,   \* history: a seal carried no later second than one before it
    events     \* edits, runs of --once and faults so far (bounded)

vars == <<tree, reading, now, dht, cache, put, applied, stepped, events>>

-----------------------------------------------------------------------------
(* Data.                                                                   *)

Proxy == {Proxies[i] : i \in DOMAIN Proxies}
Files == [content : Content \cup {Broken}, to : Identity]
Reading == [to : Identity, torn : BOOLEAN]

\* A sealed value: its content, the identity it is sealed to, its timestamp.
\* A cacheEntry (bundle, identityPub, sealed) is the same three things.
Value == [content : Content, to : Identity, ts : Nat]

Controller == {"loop", "once"}

\* A put under way: the proxies that have not answered, whether all others
\* took the value, and whether it was sealed for this put.
Put == [value : Value, left : SUBSET Proxy, ok : BOOLEAN, fresh : BOOLEAN]

ASSUME ConstantsAssumption ==
    /\ NodeKey \in Identity
    /\ Broken \notin Content
    /\ Drafts \subseteq Files
    /\ First \in Files
    /\ Junk \notin Value
    /\ None \notin Value /\ None \notin Put /\ None \notin Content
    /\ None \notin Reading
    /\ Proxies \in Seq(Proxy)
    /\ ClockSteps \in BOOLEAN
    /\ MaxEvents \in Nat

-----------------------------------------------------------------------------
(* decryptAndSelect.                                                       *)

\* The values in vs that open with the node's key (and parse and validate).
usable(vs) == {v \in vs : v # Junk /\ v.to = NodeKey}

\* Those of them with the largest timestamp; which one is kept depends on the
\* order of the response.
newest_Slip(vs) == usable(vs)
newest(vs) == {v \in usable(vs) : \A u \in usable(vs) : u.ts <= v.ts}

-----------------------------------------------------------------------------
Init ==
    /\ tree = First
    /\ reading = [c \in Controller |-> None]
    /\ now = 0
    /\ dht = [x \in Proxy |-> {}]
    /\ cache = None
    /\ put = [c \in Controller |-> None]
    /\ applied = None
    /\ stepped = FALSE
    /\ events = 0

Event == events < MaxEvents /\ events' = events + 1

\* The operator edits the node's files, or breaks them for a while, perhaps
\* while a process is between two of them.
Edit(f) ==
    /\ Event
    /\ f # tree
    /\ tree' = f
    /\ reading' = [c \in Controller |->
                      IF reading[c] = None THEN None
                      ELSE [to |-> reading[c].to, torn |-> TRUE]]
    /\ UNCHANGED <<now, dht, cache, put, applied, stepped>>

-----------------------------------------------------------------------------
(* The controller.                                                         *)

\* ReadNode begins with identity.pub: each round of the loop for the node, and
\* each run of `publish --once`.
readIdentity(c) ==
    /\ put[c] = None /\ reading[c] = None
    /\ IF c = "once" THEN Event ELSE UNCHANGED events
    /\ reading' = [reading EXCEPT ![c] = [to |-> tree.to, torn |-> FALSE]]
    /\ UNCHANGED <<tree, now, dht, cache, put, applied, stepped>>

\* What wg.yaml and stunmesh.yaml then say, read one after the other: anything,
\* a mixture of two drafts or half of one, if they changed meanwhile (NodeFiles
\* has the files one by one).
Rest(c) == IF reading[c].torn THEN Content \cup {Broken} ELSE {tree.content}

DoneReading(c) == reading' = [reading EXCEPT ![c] = None]

\* The files do not build: the node is skipped and keeps its cache entry.
ReadFails(c) ==
    /\ reading[c] # None
    /\ Broken \in Rest(c)
    /\ DoneReading(c)
    /\ UNCHANGED <<tree, now, dht, cache, put, applied, stepped, events>>

StartPut(c, v, fresh) ==
    put' = [put EXCEPT ![c] = [value |-> v, left |-> Proxy, ok |-> TRUE,
                               fresh |-> fresh]]

\* sealAndPutNode up to its put, for process c: a later second than every
\* earlier seal, unless the clock stepped back, two seals fall into one
\* second, or the round read the clock before another process did.
SealAndPut(c, con) ==
    \E ts \in 1..(now + 1) :
        /\ IF ts <= now THEN ClockSteps /\ Event ELSE UNCHANGED events
        /\ stepped' = (stepped \/ ts <= now)
        /\ now' = IF ts > now THEN ts ELSE now
        /\ StartPut(c, [content |-> con, to |-> reading[c].to, ts |-> ts], TRUE)

\* The cached bundle and identity key are those of this round.
cachedEqual_Slip(con, to) == cache # None /\ cache.content = con
cachedEqual(con, to) == cache # None /\ cache.content = con /\ cache.to = to

\* One round of the loop for the node: put the cached value again, or seal
\* and put.
publishNodeCached_Slip(c) ==
    /\ c = "loop" /\ reading[c] # None
    /\ \E con \in Rest(c) \ {Broken} :
        /\ ~cachedEqual(con, reading[c].to)
        /\ SealAndPut(c, con)
    /\ DoneReading(c)
    /\ UNCHANGED <<tree, dht, cache, applied>>

publishNodeCached_Reseal_Slip(c) ==
    /\ c = "loop" /\ reading[c] # None
    /\ \E con \in Rest(c) \ {Broken} :
        IF cachedEqual(con, reading[c].to)
        THEN /\ StartPut(c, [cache EXCEPT !.ts = now + 1], FALSE)
             /\ UNCHANGED <<now, stepped, events>>
        ELSE SealAndPut(c, con)
    /\ DoneReading(c)
    /\ UNCHANGED <<tree, dht, cache, applied>>

publishNodeCached(c) ==
    /\ c = "loop" /\ reading[c] # None
    /\ \E con \in Rest(c) \ {Broken} :
        IF cachedEqual(con, reading[c].to)
        THEN StartPut(c, cache, FALSE) /\ UNCHANGED <<now, stepped, events>>
        ELSE SealAndPut(c, con)
    /\ DoneReading(c)
    /\ UNCHANGED <<tree, dht, cache, applied>>

\* `publish --once`: always seals.
publishNode(c) ==
    /\ c = "once" /\ reading[c] # None
    /\ \E con \in Rest(c) \ {Broken} : SealAndPut(c, con)
    /\ DoneReading(c)
    /\ UNCHANGED <<tree, dht, cache, applied>>

Answered(c, x, ok) ==
    put' = [put EXCEPT ![c].left = @ \ {x}, ![c].ok = @ /\ ok]

\* Proxy x takes the value.
PutTaken(c, x) ==
    /\ put[c] # None /\ x \in put[c].left
    /\ dht' = [dht EXCEPT ![x] = @ \cup {put[c].value}]
    /\ Answered(c, x, TRUE)
    /\ UNCHANGED <<tree, reading, now, cache, applied, stepped, events>>

\* Proxy x fails, or takes the value and its answer is lost or too late.
PutFailed(c, x) ==
    /\ put[c] # None /\ x \in put[c].left
    /\ Event
    /\ \/ UNCHANGED dht
       \/ dht' = [dht EXCEPT ![x] = @ \cup {put[c].value}]
    /\ Answered(c, x, FALSE)
    /\ UNCHANGED <<tree, reading, now, cache, applied, stepped>>

\* Every proxy answered: the loop caches a value it sealed, but only if all
\* of them took it.
PutDone(c) ==
    /\ put[c] # None /\ put[c].left = {}
    /\ cache' = IF c = "loop" /\ put[c].fresh /\ put[c].ok THEN put[c].value
                ELSE cache
    /\ put' = [put EXCEPT ![c] = None]
    /\ UNCHANGED <<tree, reading, now, dht, applied, stepped, events>>

\* The process dies and the loop is started again with an empty cache.
Kill(c) ==
    /\ Event
    /\ \/ put[c] # None \/ reading[c] # None
       \/ c = "loop" /\ cache # None
    /\ put' = [put EXCEPT ![c] = None]
    /\ DoneReading(c)
    /\ cache' = IF c = "loop" THEN None ELSE cache
    /\ UNCHANGED <<tree, now, dht, applied, stepped>>

-----------------------------------------------------------------------------
(* The DHT behind the proxies.                                             *)

\* A value reaches the part of the DHT that another proxy asks.
Spread(x, y) ==
    /\ \E v \in dht[x] \ dht[y] : dht' = [dht EXCEPT ![y] = @ \cup {v}]
    /\ UNCHANGED <<tree, reading, now, cache, put, applied, stepped, events>>

\* A value nobody puts (again) expires.
Expire(v) ==
    /\ \E x \in Proxy : v \in dht[x]
    /\ v # cache
    /\ \A c \in Controller : put[c] # None => put[c].value # v
    /\ dht' = [x \in Proxy |-> dht[x] \ {v}]
    /\ UNCHANGED <<tree, reading, now, cache, put, applied, stepped, events>>

\* All values expire, as in a long outage of the controller, or somebody else
\* stores a value under the key.
Disturb(x) ==
    /\ Event
    /\ \/ /\ \A c \in Controller : put[c] = None
          /\ dht' = [y \in Proxy |-> {}]
       \/ dht' = [dht EXCEPT ![x] = @ \cup {Junk}]
    /\ UNCHANGED <<tree, reading, now, cache, put, applied, stepped>>

-----------------------------------------------------------------------------
(* The node.                                                               *)

\* runFetchApply: the first proxy that answers with a value decides, the ones
\* before it have none or do not answer.  A cycle that finds nothing usable,
\* or whose apply fails, changes nothing here.
runFetchApply(i) ==
    LET asked == Proxies[i]
    IN  /\ dht[asked] # {}
        /\ IF \A j \in 1..(i - 1) : dht[Proxies[j]] = {}
           THEN UNCHANGED events ELSE Event
        /\ \E v \in newest(dht[asked]) : applied' = v.content
        /\ UNCHANGED <<tree, reading, now, dht, cache, put, stepped>>

-----------------------------------------------------------------------------
Next ==
    \/ \E f \in Drafts : Edit(f)
    \/ \E c \in Controller : \/ readIdentity(c) \/ ReadFails(c)
                             \/ publishNodeCached(c) \/ publishNode(c)
                             \/ PutDone(c) \/ Kill(c)
                             \/ \E x \in Proxy : PutTaken(c, x) \/ PutFailed(c, x)
    \/ \E x, y \in Proxy : Spread(x, y)
    \/ \E v \in UNION {dht[x] : x \in Proxy} : Expire(v)
    \/ \E x \in Proxy : Disturb(x)
    \/ \E i \in DOMAIN Proxies : runFetchApply(i)

Spec == Init /\ [][Next]_vars

\* The loop and its puts go on, the DHT spreads what it holds and forgets
\* what nobody refreshes, and the agent keeps fetching.
Fairness ==
    /\ WF_vars(readIdentity("loop"))
    /\ WF_vars(publishNodeCached("loop") \/ ReadFails("loop"))
    /\ \A c \in Controller :
        /\ WF_vars(\E x \in Proxy : PutTaken(c, x))
        /\ WF_vars(PutDone(c))
    /\ \A x, y \in Proxy : WF_vars(Spread(x, y))
    /\ WF_vars(\E v \in UNION {dht[x] : x \in Proxy} : Expire(v))
    /\ WF_vars(\E i \in DOMAIN Proxies : runFetchApply(i))

FairSpec == Spec /\ Fairness
-----------------------------------------------------------------------------
(* Properties.                                                             *)

\* Type invariant of every variable of the publish path; what the loop puts
\* again is its cache entry.
TypeOK ==
    /\ tree \in Files
    /\ reading \in [Controller -> Reading \cup {None}]
    /\ \A c \in Controller : reading[c] # None => put[c] = None
    /\ now \in Nat
    /\ dht \in [Proxy -> SUBSET (Value \cup {Junk})]
    /\ cache \in Value \cup {None}
    /\ put \in [Controller -> Put \cup {None}]
    /\ put["loop"] # None => put["loop"].fresh \/ put["loop"].value = cache
    /\ applied \in Content \cup {None}
    /\ stepped \in BOOLEAN
    /\ events \in 0..MaxEvents

\* A put that every proxy has taken, of the value that was sealed last.
LatestPutTaken(c) ==
    /\ put[c] # None /\ put[c].left = {} /\ put[c].ok
    /\ put[c].value.ts = now

\* As long as every seal carried a later second than all before it -- the clock
\* never stepped back, no two seals fell into one second, and no round read the
\* clock before another process sealed -- an edit takes effect with its put: as
\* soon as every proxy has taken the value that was sealed last, a node that
\* asks any of them selects it, although older values, those of a concurrent
\* `publish --once` and foreign ones are still there.
LatestPutIsSelected ==
    \A c \in Controller :
        LatestPutTaken(c) /\ put[c].value.to = NodeKey /\ ~stepped =>
            \A x \in Proxy : newest(dht[x]) = {put[c].value}

\* The files describe this node with the key it has.
Settled == tree.content # Broken /\ tree.to = NodeKey

\* Once the operator leaves the files alone and the faults stop, the node's
\* agent applies what they say and stays with it -- after rounds that read half
\* of an edit, partial puts, restarts of the loop, runs of --once, lost values,
\* a clock that stepped back, and values that others stored.
Delivered == <>[](Settled => applied = tree.content)

\* And it stays available: from then on every proxy answers with it, also to
\* a node that has lost its state, although nothing is sealed any more.
Available ==
    <>[](Settled =>
            \A x \in Proxy : /\ newest(dht[x]) # {}
                             /\ \A v \in newest(dht[x]) : v.content = tree.content)

\* A put of the cached value that every proxy took.
RePutTaken ==
    put["loop"] # None /\ put["loop"].left = {} /\ put["loop"].ok
        /\ ~put["loop"].fresh

\* republish_loop.go on putting a cached value again: it "is still exactly
\* what a node holding that identity key and looking at that content would
\* expect, so putting it again is correct".  So when every proxy has taken it
\* again, a node that asks any of them selects that content.
RePutIsSelected ==
    RePutTaken /\ put["loop"].value.to = NodeKey =>
        \A x \in Proxy : \A v \in newest(dht[x]) :
            v.content = put["loop"].value.content

-----------------------------------------------------------------------------
(* Inductive invariants of the proofs in PublishProofs.                    *)

\* The sealed values that are somewhere: in the DHT, in the cache, in a put.
Around ==
    ((UNION {dht[x] : x \in Proxy}) \ {Junk})
    \cup ({cache} \ {None})
    \cup {put[c].value : c \in {d \in Controller : put[d] # None}}

\* No value is newer than the last seal, and while the clock has not stepped
\* back there is one value of that seal; a proxy that took a value has it as
\* long as the put goes on.
SealedInv ==
    /\ \A v \in Around : v.ts <= now
    /\ ~stepped => \A v, w \in Around : v.ts = now /\ w.ts = now => v = w
    /\ \A c \in Controller :
        put[c] # None /\ put[c].ok =>
            \A x \in Proxy \ put[c].left : put[c].value \in dht[x]
=============================================================================
