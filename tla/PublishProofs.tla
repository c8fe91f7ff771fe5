---------------------------- MODULE PublishProofs ----------------------------
(***************************************************************************)
(* Theorems about Publish for any number of proxies, contents and identity *)
(* keys, and any bound on edits and faults.  All of them argue about the   *)
(* sealed values that are around: in the DHT, in the cache, in a put.      *)
(***************************************************************************)
EXTENDS Publish, TLAPS

-----------------------------------------------------------------------------
(* Operators.                                                              *)

\* Whatever a node selects is a value it was sent, sealed to its key.
LEMMA NewestType ==
    ASSUME NEW vs \in SUBSET (Value \cup {Junk}), NEW v \in newest(vs)
    PROVE  v \in Value /\ v \in vs /\ v # Junk /\ v.to = NodeKey
BY DEF newest, usable

\* None is no put and no value.
LEMMA NoneIsNothing == None \notin Put /\ None \notin Value /\ Junk \notin Value
BY ConstantsAssumption

\* The answer changes the put of one process and nothing else of any put.
LEMMA AnsweredMoves ==
    ASSUME TypeOK, NEW c \in Controller, NEW x \in Proxy, NEW ok \in BOOLEAN,
           put[c] # None, Answered(c, x, ok)
    PROVE  /\ put' \in [Controller -> Put \cup {None}]
           /\ put'[c] # None
           /\ put'[c].value = put[c].value /\ put'[c].fresh = put[c].fresh
           /\ put'[c].left = put[c].left \ {x}
           /\ put'[c].ok => put[c].ok /\ ok
           /\ \A d \in Controller : d # c => put'[d] = put[d]
<1>1. put \in [Controller -> Put \cup {None}] /\ put[c] \in Put
  BY DEF TypeOK
<1>2. PICK f : f = [put[c] EXCEPT !.left = @ \ {x}, !.ok = @ /\ ok]
  OBVIOUS
<1>3. put' = [put EXCEPT ![c] = f]
  BY <1>2 DEF Answered
<1>4. /\ f \in Put
      /\ f.value = put[c].value /\ f.fresh = put[c].fresh
      /\ f.left = put[c].left \ {x}
      /\ f.ok => put[c].ok /\ ok
  <2>1. f = [value |-> put[c].value, left |-> put[c].left \ {x},
             ok |-> (put[c].ok /\ ok), fresh |-> put[c].fresh]
    BY <1>1, <1>2 DEF Put
  <2>2. (put[c].ok /\ ok) \in BOOLEAN
    OBVIOUS
  <2> QED
    BY <1>1, <2>1, <2>2 DEF Put
<1>5. put'[c] = f /\ \A d \in Controller : d # c => put'[d] = put[d]
  BY <1>1, <1>3
<1>6. put' \in [Controller -> Put \cup {None}]
  BY <1>1, <1>3, <1>4
<1> QED
  BY <1>4, <1>5, <1>6, NoneIsNothing

\* A put that begins.
LEMMA StartPutMoves ==
    ASSUME TypeOK, NEW c \in Controller, NEW v \in Value, NEW fresh \in BOOLEAN,
           StartPut(c, v, fresh)
    PROVE  /\ put' \in [Controller -> Put \cup {None}]
           /\ put'[c] # None
           /\ put'[c].value = v /\ put'[c].left = Proxy
           /\ put'[c].ok = TRUE /\ put'[c].fresh = fresh
           /\ \A d \in Controller : d # c => put'[d] = put[d]
<1> DEFINE e == [value |-> v, left |-> Proxy, ok |-> TRUE, fresh |-> fresh]
<1>1. e \in Put
  BY DEF Put
<1>2. put' = [put EXCEPT ![c] = e]
  BY DEF StartPut
<1>3. e.value = v /\ e.left = Proxy /\ e.ok = TRUE /\ e.fresh = fresh
  OBVIOUS
<1> HIDE DEF e
<1>4. put \in [Controller -> Put \cup {None}]
  BY DEF TypeOK
<1>5. put'[c] = e /\ \A d \in Controller : d # c => put'[d] = put[d]
  BY <1>2, <1>4
<1>6. put' \in [Controller -> Put \cup {None}]
  BY <1>1, <1>2, <1>4
<1> QED
  BY <1>1, <1>3, <1>5, <1>6, NoneIsNothing

\* A counted event stays within its bound.
LEMMA EventType ==
    ASSUME events \in 0..MaxEvents, Event
    PROVE  events' \in 0..MaxEvents
BY ConstantsAssumption DEF Event

\* What is published was read as something that builds.
LEMMA RestType ==
    ASSUME TypeOK, NEW c \in Controller, NEW con \in Rest(c) \ {Broken}
    PROVE  con \in Content
BY DEF Rest, TypeOK, Files

\* Sealing starts the put of a new value, which is the newest of all unless
\* the clock stepped back.
LEMMA Seals ==
    ASSUME TypeOK, NEW c \in Controller, NEW con \in Content, reading[c] # None,
           SealAndPut(c, con)
    PROVE  /\ now' \in Nat /\ stepped' \in BOOLEAN /\ events' \in 0..MaxEvents
           /\ \E v \in Value :
                /\ StartPut(c, v, TRUE)
                /\ \/ v.ts > now /\ now' = v.ts /\ stepped' = stepped
                   \/ v.ts <= now /\ now' = now /\ stepped'
<1>1. PICK ts \in 1..(now + 1) :
        /\ IF ts <= now THEN ClockSteps /\ Event ELSE UNCHANGED events
        /\ stepped' = (stepped \/ ts <= now)
        /\ now' = IF ts > now THEN ts ELSE now
        /\ StartPut(c, [content |-> con, to |-> reading[c].to, ts |-> ts], TRUE)
  BY DEF SealAndPut
<1> DEFINE v == [content |-> con, to |-> reading[c].to, ts |-> ts]
<1>2. ts \in Nat /\ now \in Nat /\ stepped \in BOOLEAN /\ events \in 0..MaxEvents
  BY DEF TypeOK
<1>3. v \in Value
  <2>1. reading[c].to \in Identity
    BY DEF TypeOK, Reading
  <2> QED
    BY <1>2, <2>1 DEF Value
<1>4. v.ts = ts
  OBVIOUS
<1>5. StartPut(c, v, TRUE)
  BY <1>1
<1> HIDE DEF v
<1>6. events' \in 0..MaxEvents
  BY <1>1, <1>2, EventType
<1> SUFFICES /\ now' \in Nat /\ stepped' \in BOOLEAN
             /\ \/ v.ts > now /\ now' = v.ts /\ stepped' = stepped
                \/ v.ts <= now /\ now' = now /\ stepped'
  BY <1>3, <1>5, <1>6
<1>7. CASE ts > now
  <2>1. ~(ts <= now)
    BY <1>2, <1>7
  <2>2. now' = ts /\ stepped' = stepped
    BY <1>1, <1>2, <1>7, <2>1
  <2> QED
    BY <1>2, <1>4, <1>7, <2>2
<1>8. CASE ts <= now
  <2>1. ~(ts > now)
    BY <1>2, <1>8
  <2>2. now' = now /\ stepped' = TRUE
    BY <1>1, <1>2, <1>8, <2>1
  <2> QED
    BY <1>2, <1>4, <1>8, <2>2
<1> QED
  BY <1>2, <1>7, <1>8

\* A round that has read the files puts the cached value again, or one value
\* that it seals.
LEMMA Publishes ==
    ASSUME TypeOK, NEW c \in Controller, publishNodeCached(c) \/ publishNode(c)
    PROVE  /\ reading[c] # None /\ put[c] = None
           /\ UNCHANGED <<tree, dht, cache, applied>> /\ DoneReading(c)
           /\ now' \in Nat /\ stepped' \in BOOLEAN /\ events' \in 0..MaxEvents
           /\ \/ /\ c = "loop" /\ cache \in Value /\ StartPut(c, cache, FALSE)
                 /\ UNCHANGED <<now, stepped>>
              \/ \E v \in Value :
                    /\ StartPut(c, v, TRUE)
                    /\ \/ v.ts > now /\ now' = v.ts /\ stepped' = stepped
                       \/ v.ts <= now /\ now' = now /\ stepped'
<1>1. /\ reading[c] # None /\ put[c] = None
      /\ UNCHANGED <<tree, dht, cache, applied>> /\ DoneReading(c)
  BY DEF publishNodeCached, publishNode, TypeOK
<1>2. PICK con \in Rest(c) \ {Broken} :
        \/ /\ c = "loop" /\ cachedEqual(con, reading[c].to)
           /\ StartPut(c, cache, FALSE) /\ UNCHANGED <<now, stepped, events>>
        \/ SealAndPut(c, con)
  BY DEF publishNodeCached, publishNode
<1>3. CASE /\ c = "loop" /\ cachedEqual(con, reading[c].to)
           /\ StartPut(c, cache, FALSE) /\ UNCHANGED <<now, stepped, events>>
  <2>1. cache \in Value
    BY <1>3 DEF cachedEqual, TypeOK
  <2> QED
    BY <1>1, <1>3, <2>1 DEF TypeOK
<1>4. CASE SealAndPut(c, con)
  <2>1. con \in Content
    BY RestType
  <2> QED
    BY <1>1, <1>4, <2>1, Seals
<1> QED
  BY <1>2, <1>3, <1>4

\* A process that has read the files, or died, reads no more.
LEMMA DoneReadingType ==
    ASSUME TypeOK, NEW c \in Controller, DoneReading(c)
    PROVE  /\ reading' \in [Controller -> Reading \cup {None}]
           /\ reading'[c] = None
           /\ \A d \in Controller : d # c => reading'[d] = reading[d]
BY DEF DoneReading, TypeOK

\* The value that a list of proxies is asked for comes from one of them.
LEMMA AskedProxy == ASSUME NEW i \in DOMAIN Proxies PROVE Proxies[i] \in Proxy
BY DEF Proxy

-----------------------------------------------------------------------------
(* Types.                                                                  *)

\* The initial state is well typed.
LEMMA InitType == Init => TypeOK
<1> SUFFICES ASSUME Init PROVE TypeOK
  OBVIOUS
<1>1. tree \in Files /\ now = 0 /\ applied = None /\ cache = None
  BY ConstantsAssumption DEF Init
<1>2. /\ reading \in [Controller -> Reading \cup {None}]
      /\ \A c \in Controller : reading[c] = None
  BY DEF Init
<1>3. dht \in [Proxy -> SUBSET (Value \cup {Junk})]
  BY DEF Init
<1>4. put \in [Controller -> Put \cup {None}] /\ put["loop"] = None
  BY DEF Init, Controller
<1>5. stepped \in BOOLEAN
  BY DEF Init
<1>6. events \in 0..MaxEvents
  <2>1. MaxEvents \in Nat
    BY ConstantsAssumption
  <2>2. events = 0
    BY DEF Init
  <2> QED
    BY <2>1, <2>2
<1> QED
  BY <1>1, <1>2, <1>3, <1>4, <1>5, <1>6 DEF TypeOK

\* A round of the loop and a run of --once keep every variable in its type.
LEMMA ControllerType ==
    ASSUME TypeOK, NEW c \in Controller, publishNodeCached(c) \/ publishNode(c)
    PROVE  TypeOK'
<1>1. /\ UNCHANGED <<tree, dht, cache, applied>> /\ DoneReading(c)
      /\ now' \in Nat /\ stepped' \in BOOLEAN /\ events' \in 0..MaxEvents
  BY Publishes
<1>2. PICK v \in Value, fresh \in BOOLEAN :
        StartPut(c, v, fresh) /\ (~fresh => c = "loop" /\ v = cache)
  <2>1. CASE c = "loop" /\ cache \in Value /\ StartPut(c, cache, FALSE)
    BY <2>1
  <2>2. CASE \E v \in Value : StartPut(c, v, TRUE)
    BY <2>2
  <2> QED
    BY <2>1, <2>2, Publishes
<1>3. /\ put' \in [Controller -> Put \cup {None}]
      /\ put'[c].value = v /\ put'[c].fresh = fresh
      /\ \A d \in Controller : d # c => put'[d] = put[d]
  BY <1>2, StartPutMoves
<1>4. put'["loop"] # None => put'["loop"].fresh \/ put'["loop"].value = cache'
  BY <1>1, <1>2, <1>3 DEF TypeOK, Controller
<1>5. /\ reading' \in [Controller -> Reading \cup {None}]
      /\ \A d \in Controller : reading'[d] # None => put'[d] = None
  BY <1>1, <1>3, DoneReadingType DEF TypeOK
<1> QED
  BY <1>1, <1>3, <1>4, <1>5 DEF TypeOK

\* So does the reading of the files.
LEMMA ReadType ==
    ASSUME TypeOK, NEW c \in Controller, readIdentity(c) \/ ReadFails(c)
    PROVE  TypeOK'
<1>1. /\ UNCHANGED <<tree, now, dht, cache, put, applied, stepped>>
      /\ events' \in 0..MaxEvents
  BY EventType DEF readIdentity, ReadFails, TypeOK
<1>2. /\ reading' \in [Controller -> Reading \cup {None}]
      /\ \A d \in Controller : reading'[d] # None => put'[d] = None
  <2>1. CASE readIdentity(c)
    <3> DEFINE r == [to |-> tree.to, torn |-> FALSE]
    <3>1. r \in Reading
      BY DEF TypeOK, Files, Reading
    <3>2. put[c] = None /\ reading' = [reading EXCEPT ![c] = r]
      BY <2>1 DEF readIdentity
    <3> HIDE DEF r
    <3> QED
      BY <1>1, <3>1, <3>2 DEF TypeOK
  <2>2. CASE ReadFails(c)
    BY <1>1, <2>2, DoneReadingType DEF ReadFails, TypeOK
  <2> QED
    BY <2>1, <2>2
<1> QED
  BY <1>1, <1>2 DEF TypeOK

\* So does every answer of a proxy.
LEMMA AnswerType ==
    ASSUME TypeOK, NEW c \in Controller, NEW x \in Proxy,
           PutTaken(c, x) \/ PutFailed(c, x)
    PROVE  TypeOK'
<1>1. /\ put[c] # None
      /\ UNCHANGED <<tree, reading, now, cache, applied, stepped>>
      /\ events' \in 0..MaxEvents
  BY EventType DEF PutTaken, PutFailed, TypeOK
<1>2. PICK ok \in BOOLEAN : Answered(c, x, ok)
  BY DEF PutTaken, PutFailed
<1>3. put[c].value \in Value
  BY <1>1 DEF TypeOK, Put
<1>4. dht' \in [Proxy -> SUBSET (Value \cup {Junk})]
  <2>1. dht \in [Proxy -> SUBSET (Value \cup {Junk})]
    BY DEF TypeOK
  <2>2. dht' = dht \/ dht' = [dht EXCEPT ![x] = @ \cup {put[c].value}]
    BY DEF PutTaken, PutFailed
  <2> QED
    BY <1>3, <2>1, <2>2
<1>5. /\ put' \in [Controller -> Put \cup {None}]
      /\ put'[c].value = put[c].value /\ put'[c].fresh = put[c].fresh
      /\ \A d \in Controller : d # c => put'[d] = put[d]
  BY <1>1, <1>2, AnsweredMoves
<1>6. put'["loop"] # None => put'["loop"].fresh \/ put'["loop"].value = cache'
  <2>1. CASE c = "loop"
    BY <1>1, <1>5, <2>1 DEF TypeOK
  <2>2. CASE c # "loop"
    BY <1>1, <1>5, <2>2 DEF TypeOK, Controller
  <2> QED
    BY <2>1, <2>2
<1>7. \A d \in Controller : reading'[d] # None => put'[d] = None
  BY <1>1, <1>5 DEF TypeOK
<1> QED
  BY <1>1, <1>4, <1>5, <1>6, <1>7 DEF TypeOK

\* So does the end of a put, or of a process.
LEMMA PutEndType ==
    ASSUME TypeOK, NEW c \in Controller, PutDone(c) \/ Kill(c)
    PROVE  TypeOK'
<1>1. /\ UNCHANGED <<tree, now, dht, applied, stepped>>
      /\ events' \in 0..MaxEvents
      /\ put' = [put EXCEPT ![c] = None]
  BY EventType DEF PutDone, Kill, TypeOK
<1>2. cache' \in Value \cup {None} /\ (c # "loop" => cache' = cache)
  <2>1. put[c] # None => put[c].value \in Value
    BY DEF TypeOK, Put
  <2> QED
    BY <2>1 DEF PutDone, Kill, TypeOK
<1>3. /\ put' \in [Controller -> Put \cup {None}] /\ put'[c] = None
      /\ \A d \in Controller : d # c => put'[d] = put[d]
  BY <1>1 DEF TypeOK
<1>4. put'["loop"] # None => put'["loop"].fresh \/ put'["loop"].value = cache'
  <2>1. CASE c = "loop"
    BY <1>3, <2>1
  <2>2. CASE c # "loop"
    BY <1>2, <1>3, <2>2 DEF TypeOK, Controller
  <2> QED
    BY <2>1, <2>2
<1>5. /\ reading' \in [Controller -> Reading \cup {None}]
      /\ \A d \in Controller : reading'[d] # None => put'[d] = None
  <2>1. UNCHANGED reading \/ DoneReading(c)
    BY DEF PutDone, Kill
  <2> QED
    BY <1>3, <2>1, DoneReadingType DEF TypeOK
<1> QED
  BY <1>1, <1>2, <1>3, <1>4, <1>5 DEF TypeOK

\* So does what happens to the values in the DHT.
LEMMA DHTType ==
    ASSUME TypeOK,
           \/ \E x, y \in Proxy : Spread(x, y)
           \/ \E v : Expire(v)
           \/ \E x \in Proxy : Disturb(x)
    PROVE  TypeOK'
<1>1. /\ UNCHANGED <<tree, reading, now, cache, put, applied, stepped>>
      /\ events' \in 0..MaxEvents
  BY EventType DEF Spread, Expire, Disturb, TypeOK
<1>2. dht \in [Proxy -> SUBSET (Value \cup {Junk})]
  BY DEF TypeOK
<1>3. ASSUME NEW x \in Proxy, NEW y \in Proxy, Spread(x, y)
      PROVE  dht' \in [Proxy -> SUBSET (Value \cup {Junk})]
  BY <1>2, <1>3 DEF Spread
<1>4. ASSUME NEW v, Expire(v)
      PROVE  dht' \in [Proxy -> SUBSET (Value \cup {Junk})]
  BY <1>2, <1>4 DEF Expire
<1>5. ASSUME NEW x \in Proxy, Disturb(x)
      PROVE  dht' \in [Proxy -> SUBSET (Value \cup {Junk})]
  BY <1>2, <1>5 DEF Disturb
<1>6. dht' \in [Proxy -> SUBSET (Value \cup {Junk})]
  BY <1>3, <1>4, <1>5
<1> QED
  BY <1>1, <1>6 DEF TypeOK

\* Every step keeps every variable in its type.
LEMMA StepType == TypeOK /\ [Next]_vars => TypeOK'
<1> SUFFICES ASSUME TypeOK, [Next]_vars PROVE TypeOK'
  OBVIOUS
<1>1. ASSUME NEW f \in Drafts, Edit(f) PROVE TypeOK'
  <2>1. tree' \in Files
    BY <1>1, ConstantsAssumption DEF Edit
  <2>2. /\ reading' \in [Controller -> Reading \cup {None}]
        /\ \A c \in Controller : reading'[c] # None => reading[c] # None
    <3>1. \A c \in Controller : reading[c] # None =>
                [to |-> reading[c].to, torn |-> TRUE] \in Reading
      BY DEF TypeOK, Reading
    <3> QED
      BY <1>1, <3>1 DEF Edit
  <2>3. events' \in 0..MaxEvents
    BY <1>1, EventType DEF Edit, TypeOK
  <2> QED
    BY <1>1, <2>1, <2>2, <2>3 DEF Edit, TypeOK
<1>2. ASSUME NEW i \in DOMAIN Proxies, runFetchApply(i) PROVE TypeOK'
  <2>1. dht[Proxies[i]] \in SUBSET (Value \cup {Junk})
    BY AskedProxy DEF TypeOK
  <2>2. applied' \in Content
    BY <1>2, <2>1, NewestType DEF runFetchApply, Value
  <2>3. events' \in 0..MaxEvents
    BY <1>2, EventType DEF runFetchApply, TypeOK
  <2> QED
    BY <1>2, <2>2, <2>3 DEF runFetchApply, TypeOK
<1>3. CASE UNCHANGED vars
  BY <1>3 DEF vars, TypeOK
<1> QED
  BY <1>1, <1>2, <1>3, ReadType, ControllerType, AnswerType, PutEndType, DHTType DEF Next

\* Every reachable state of the publish path is well typed, and what the loop
\* puts again is its cache entry.
THEOREM PublishTypeCorrect == Spec => []TypeOK
BY InitType, StepType, PTL DEF Spec

-----------------------------------------------------------------------------
(* The values that are around.                                             *)

\* Everything that is around is a sealed value.
LEMMA AroundType == ASSUME TypeOK PROVE Around \subseteq Value
<1>1. \A x \in Proxy : dht[x] \subseteq Value \cup {Junk}
  BY DEF TypeOK
<1>2. \A c \in Controller : put[c] # None => put[c].value \in Value
  BY DEF TypeOK, Put
<1>3. cache # None => cache \in Value
  BY DEF TypeOK
<1> QED
  BY <1>1, <1>2, <1>3 DEF Around

\* Where the DHT, the cache and the puts hold nothing they did not, nothing
\* new is around but what the extra set adds.
LEMMA AroundGrows ==
    ASSUME NEW new,
           \A x \in Proxy : dht'[x] \subseteq dht[x] \cup {Junk} \cup new \cup Around,
           cache' \in {None, cache} \cup new \cup Around,
           \A c \in Controller : put'[c] # None =>
                \/ put[c] # None /\ put'[c].value = put[c].value
                \/ put'[c].value \in new \cup Around
    PROVE  Around' \subseteq Around \cup new
<1> SUFFICES ASSUME NEW v \in Around' PROVE v \in Around \cup new
  OBVIOUS
<1>1. CASE v # Junk /\ \E x \in Proxy : v \in dht'[x]
  <2>1. PICK x \in Proxy : v \in dht'[x]
    BY <1>1
  <2>2. v \in dht[x] => v \in Around
    BY <1>1 DEF Around
  <2> QED
    BY <1>1, <2>1, <2>2
<1>2. CASE v = cache' /\ v # None
  <2>1. cache # None => cache \in Around
    BY DEF Around
  <2> QED
    BY <1>2, <2>1
<1>3. CASE \E c \in Controller : put'[c] # None /\ v = put'[c].value
  <2>1. PICK c \in Controller : put'[c] # None /\ v = put'[c].value
    BY <1>3
  <2>2. put[c] # None => put[c].value \in Around
    BY DEF Around
  <2> QED
    BY <2>1, <2>2
<1> QED
  BY <1>1, <1>2, <1>3 DEF Around

\* A step that seals adds one value.
Sealing(v) ==
    /\ Around' \subseteq Around \cup {v}
    /\ now' \in Nat
    /\ \/ v.ts > now /\ now' = v.ts /\ stepped' = stepped
       \/ v.ts <= now /\ now' = now /\ stepped'

\* A round of the loop and a run of --once add at most that one value.
LEMMA ControllerAround ==
    ASSUME TypeOK, NEW c \in Controller, publishNodeCached(c) \/ publishNode(c)
    PROVE  \/ Around' \subseteq Around /\ UNCHANGED <<now, stepped>>
           \/ \E v \in Value : Sealing(v)
<1>1. put[c] = None /\ UNCHANGED <<dht, cache>> /\ now' \in Nat
  BY Publishes
<1>2. CASE cache \in Value /\ StartPut(c, cache, FALSE) /\ UNCHANGED <<now, stepped>>
  <2>1. put'[c].value = cache /\ \A d \in Controller : d # c => put'[d] = put[d]
    BY <1>2, StartPutMoves
  <2>2. cache \in Around
    BY <1>2, NoneIsNothing DEF Around
  <2>3. Around' \subseteq Around \cup {}
    BY <1>1, <2>1, <2>2, AroundGrows
  <2> QED
    BY <1>2, <2>3
<1>3. ASSUME NEW v \in Value, StartPut(c, v, TRUE),
             \/ v.ts > now /\ now' = v.ts /\ stepped' = stepped
             \/ v.ts <= now /\ now' = now /\ stepped'
      PROVE  Sealing(v)
  <2>1. put'[c].value = v /\ \A d \in Controller : d # c => put'[d] = put[d]
    BY <1>3, StartPutMoves
  <2>2. Around' \subseteq Around \cup {v}
    <3>1. \A x \in Proxy : dht'[x] \subseteq dht[x] \cup {Junk} \cup {v} \cup Around
      BY <1>1
    <3>2. cache' \in {None, cache} \cup {v} \cup Around
      BY <1>1
    <3>3. \A d \in Controller : put'[d] # None =>
              \/ put[d] # None /\ put'[d].value = put[d].value
              \/ put'[d].value \in {v} \cup Around
      BY <2>1
    <3> QED
      BY <3>1, <3>2, <3>3, AroundGrows
  <2> QED
    BY <1>1, <1>3, <2>2 DEF Sealing
<1> QED
  BY <1>2, <1>3, Publishes

\* No other step adds a value or moves the largest timestamp.
LEMMA StepAround ==
    ASSUME TypeOK, [Next]_vars
    PROVE  \/ Around' \subseteq Around /\ UNCHANGED <<now, stepped>>
           \/ \E v \in Value : Sealing(v)
<1>1. ASSUME NEW c \in Controller, publishNodeCached(c) \/ publishNode(c)
      PROVE  \/ Around' \subseteq Around /\ UNCHANGED <<now, stepped>>
             \/ \E v \in Value : Sealing(v)
  BY <1>1, ControllerAround
<1>2. ASSUME NEW c \in Controller, NEW x \in Proxy, PutTaken(c, x) \/ PutFailed(c, x)
      PROVE  Around' \subseteq Around /\ UNCHANGED <<now, stepped>>
  <2>1. put[c] # None /\ UNCHANGED <<now, stepped, cache>>
    BY <1>2 DEF PutTaken, PutFailed
  <2>2. PICK ok \in BOOLEAN : Answered(c, x, ok)
    BY <1>2 DEF PutTaken, PutFailed
  <2>3. /\ put'[c].value = put[c].value
        /\ \A d \in Controller : d # c => put'[d] = put[d]
    BY <2>1, <2>2, AnsweredMoves
  <2>4. dht' = dht \/ dht' = [dht EXCEPT ![x] = @ \cup {put[c].value}]
    BY <1>2 DEF PutTaken, PutFailed
  <2>5. put[c].value \in Around
    BY <2>1 DEF Around
  <2>6. \A y \in Proxy : dht'[y] \subseteq dht[y] \cup Around
    BY <2>4, <2>5 DEF TypeOK
  <2>7. Around' \subseteq Around \cup {}
    BY <2>1, <2>3, <2>6, AroundGrows
  <2> QED
    BY <2>1, <2>7
<1>3. ASSUME NEW c \in Controller, PutDone(c) \/ Kill(c)
      PROVE  Around' \subseteq Around /\ UNCHANGED <<now, stepped>>
  <2>1. UNCHANGED <<now, stepped, dht>> /\ put' = [put EXCEPT ![c] = None]
    BY <1>3 DEF PutDone, Kill
  <2>2. put'[c] = None /\ \A d \in Controller : d # c => put'[d] = put[d]
    BY <2>1 DEF TypeOK
  <2>3. put[c] # None => put[c].value \in Around
    BY DEF Around
  <2>4. cache' \in {None, cache} \cup Around
    BY <1>3, <2>3 DEF PutDone, Kill
  <2>5. Around' \subseteq Around \cup {}
    BY <2>1, <2>2, <2>4, AroundGrows
  <2> QED
    BY <2>1, <2>5
<1>4. ASSUME NEW x \in Proxy, NEW y \in Proxy, Spread(x, y)
      PROVE  Around' \subseteq Around /\ UNCHANGED <<now, stepped>>
  <2>1. UNCHANGED <<now, stepped, cache, put>>
    BY <1>4 DEF Spread
  <2>2. dht[x] \subseteq {Junk} \cup Around
    BY DEF Around
  <2>3. PICK v \in dht[x] : dht' = [dht EXCEPT ![y] = @ \cup {v}]
    BY <1>4 DEF Spread
  <2>4. v \in {Junk} \cup Around
    BY <2>2
  <2>5. \A z \in Proxy : dht'[z] \subseteq dht[z] \cup {Junk} \cup Around
    BY <2>3, <2>4 DEF TypeOK
  <2>6. Around' \subseteq Around \cup {}
    BY <2>1, <2>5, AroundGrows
  <2> QED
    BY <2>1, <2>6
<1>5. ASSUME (\E v : Expire(v)) \/ (\E x \in Proxy : Disturb(x))
      PROVE  Around' \subseteq Around /\ UNCHANGED <<now, stepped>>
  <2>1. UNCHANGED <<now, stepped, cache, put>>
    BY <1>5 DEF Expire, Disturb
  <2>2. \A z \in Proxy : dht'[z] \subseteq dht[z] \cup {Junk}
    BY <1>5 DEF Expire, Disturb, TypeOK
  <2>3. Around' \subseteq Around \cup {}
    BY <2>1, <2>2, AroundGrows
  <2> QED
    BY <2>1, <2>3
<1>6. ASSUME \/ \E f \in Drafts : Edit(f)
             \/ \E c \in Controller : readIdentity(c) \/ ReadFails(c)
             \/ \E i \in DOMAIN Proxies : runFetchApply(i)
             \/ UNCHANGED vars
      PROVE  Around' \subseteq Around /\ UNCHANGED <<now, stepped>>
  <2>1. UNCHANGED <<now, stepped, dht, cache, put>>
    BY <1>6 DEF Edit, readIdentity, ReadFails, runFetchApply, vars
  <2> QED
    BY <2>1 DEF Around
<1> QED
  BY <1>1, <1>2, <1>3, <1>4, <1>5, <1>6 DEF Next

-----------------------------------------------------------------------------
(* The latest put.                                                         *)

\* At first nothing was sealed.
LEMMA InitSealed == Init => SealedInv
<1> SUFFICES ASSUME Init PROVE SealedInv
  OBVIOUS
<1>1. Around = {}
  BY DEF Init, Around
<1>2. \A c \in Controller : put[c] = None
  BY DEF Init
<1> QED
  BY <1>1, <1>2 DEF SealedInv

\* What a proxy took in a put that goes on, without a failure, stays there.
Taken == \A c \in Controller :
            put[c] # None /\ put[c].ok =>
                \A x \in Proxy \ put[c].left : put[c].value \in dht[x]

LEMMA StepTaken ==
    ASSUME TypeOK, Taken, [Next]_vars
    PROVE  Taken'
<1>1. ASSUME NEW c \in Controller, publishNodeCached(c) \/ publishNode(c)
      PROVE  Taken'
  <2>1. put[c] = None /\ UNCHANGED dht
    BY <1>1, Publishes
  <2>2. PICK v \in Value : StartPut(c, v, FALSE) \/ StartPut(c, v, TRUE)
    BY <1>1, Publishes
  <2>3. put'[c].left = Proxy /\ \A d \in Controller : d # c => put'[d] = put[d]
    BY <2>2, StartPutMoves
  <2> QED
    BY <2>1, <2>3 DEF Taken
<1>2. ASSUME NEW c \in Controller, NEW x \in Proxy, PutTaken(c, x) PROVE Taken'
  <2>1. put[c] # None /\ dht' = [dht EXCEPT ![x] = @ \cup {put[c].value}]
    BY <1>2 DEF PutTaken
  <2>2. /\ put'[c].value = put[c].value
        /\ put'[c].left = put[c].left \ {x}
        /\ put'[c].ok => put[c].ok
        /\ \A d \in Controller : d # c => put'[d] = put[d]
    BY <1>2, <2>1, AnsweredMoves DEF PutTaken
  <2>3. put[c].value \in dht'[x] /\ \A y \in Proxy : dht[y] \subseteq dht'[y]
    BY <2>1 DEF TypeOK
  <2> QED
    BY <2>1, <2>2, <2>3 DEF Taken
<1>3. ASSUME NEW c \in Controller, NEW x \in Proxy, PutFailed(c, x) PROVE Taken'
  <2>1. /\ put[c] # None
        /\ dht' = dht \/ dht' = [dht EXCEPT ![x] = @ \cup {put[c].value}]
    BY <1>3 DEF PutFailed
  <2>2. ~put'[c].ok /\ \A d \in Controller : d # c => put'[d] = put[d]
    BY <1>3, <2>1, AnsweredMoves DEF PutFailed
  <2>3. \A y \in Proxy : dht[y] \subseteq dht'[y]
    BY <2>1 DEF TypeOK
  <2> QED
    BY <2>2, <2>3 DEF Taken
<1>4. ASSUME NEW c \in Controller, PutDone(c) \/ Kill(c) PROVE Taken'
  <2>1. UNCHANGED dht /\ put' = [put EXCEPT ![c] = None]
    BY <1>4 DEF PutDone, Kill
  <2>2. put'[c] = None /\ \A d \in Controller : d # c => put'[d] = put[d]
    BY <2>1 DEF TypeOK
  <2> QED
    BY <2>1, <2>2 DEF Taken
<1>5. ASSUME NEW v, Expire(v) PROVE Taken'
  <2>1. /\ UNCHANGED put
        /\ \A c \in Controller : put[c] # None => put[c].value # v
        /\ \A x \in Proxy : dht'[x] = dht[x] \ {v}
    BY <1>5 DEF Expire
  <2> QED
    BY <2>1 DEF Taken
<1>6. ASSUME NEW x \in Proxy, Disturb(x) PROVE Taken'
  <2>1. UNCHANGED put
    BY <1>6 DEF Disturb
  <2>2. CASE \A c \in Controller : put[c] = None
    BY <2>1, <2>2 DEF Taken
  <2>3. CASE dht' = [dht EXCEPT ![x] = @ \cup {Junk}]
    <3>1. \A y \in Proxy : dht[y] \subseteq dht'[y]
      BY <2>3 DEF TypeOK
    <3> QED
      BY <2>1, <3>1 DEF Taken
  <2> QED
    BY <1>6, <2>2, <2>3 DEF Disturb
<1>7. ASSUME NEW x \in Proxy, NEW y \in Proxy, Spread(x, y) PROVE Taken'
  <2>1. UNCHANGED put
    BY <1>7 DEF Spread
  <2>2. \A z \in Proxy : dht[z] \subseteq dht'[z]
    BY <1>7 DEF Spread, TypeOK
  <2> QED
    BY <2>1, <2>2 DEF Taken
<1>8. ASSUME \/ \E f \in Drafts : Edit(f)
             \/ \E c \in Controller : readIdentity(c) \/ ReadFails(c)
             \/ \E i \in DOMAIN Proxies : runFetchApply(i)
             \/ UNCHANGED vars
      PROVE  Taken'
  <2>1. UNCHANGED <<dht, put>>
    BY <1>8 DEF Edit, readIdentity, ReadFails, runFetchApply, vars
  <2> QED
    BY <2>1 DEF Taken
<1> QED
  BY <1>1, <1>2, <1>3, <1>4, <1>5, <1>6, <1>7, <1>8 DEF Next

\* Every step keeps SealedInv: a value that is new is newer than all others,
\* or the clock has stepped back.
LEMMA StepSealed == TypeOK /\ SealedInv /\ [Next]_vars => SealedInv'
<1> SUFFICES ASSUME TypeOK, SealedInv, [Next]_vars PROVE SealedInv'
  OBVIOUS
<1>1. Taken'
  BY StepTaken DEF Taken, SealedInv
<1>2. now \in Nat /\ \A v \in Around : v.ts \in Nat
  BY AroundType DEF TypeOK, Value
<1>3. CASE Around' \subseteq Around /\ UNCHANGED <<now, stepped>>
  BY <1>1, <1>3 DEF SealedInv, Taken
<1>4. ASSUME NEW v \in Value, Sealing(v) PROVE SealedInv'
  <2>1. v.ts \in Nat
    BY DEF Value
  <2>2. CASE v.ts > now /\ now' = v.ts /\ stepped' = stepped
    <3>1. \A w \in Around' : w = v \/ (w \in Around /\ w.ts <= now)
      BY <1>4 DEF Sealing, SealedInv
    <3>2. \A w \in Around' : w.ts <= now' /\ (w.ts = now' => w = v)
      BY <1>2, <2>1, <2>2, <3>1
    <3> QED
      BY <1>1, <3>2 DEF SealedInv, Taken
  <2>3. CASE v.ts <= now /\ now' = now /\ stepped'
    <3>1. \A w \in Around' : w.ts <= now'
      BY <1>4, <2>3 DEF Sealing, SealedInv
    <3> QED
      BY <1>1, <2>3, <3>1 DEF SealedInv, Taken
  <2> QED
    BY <1>4, <2>2, <2>3 DEF Sealing
<1> QED
  BY <1>3, <1>4, StepAround

\* While the clock has not stepped back, a proxy that took the value sealed
\* last has that value, and no other of its time.
LEMMA SealedSelects == TypeOK /\ SealedInv => LatestPutIsSelected
<1> SUFFICES ASSUME TypeOK, SealedInv, ~stepped,
                    NEW c \in Controller, LatestPutTaken(c),
                    put[c].value.to = NodeKey, NEW x \in Proxy
             PROVE  newest(dht[x]) = {put[c].value}
  BY DEF LatestPutIsSelected
<1> DEFINE v == put[c].value
<1>1. v \in Value /\ v \in Around /\ v.ts = now /\ v \in dht[x]
  BY DEF LatestPutTaken, TypeOK, Put, Around, SealedInv
<1>2. v # Junk /\ v \in usable(dht[x])
  BY <1>1, NoneIsNothing DEF usable
<1>3. ASSUME NEW u \in usable(dht[x])
      PROVE  u \in Around /\ u.ts \in Nat /\ u.ts <= now /\ (u.ts = now => u = v)
  <2>1. u \in Around
    BY <1>3 DEF usable, Around
  <2> QED
    BY <1>1, <2>1, AroundType DEF SealedInv, Value
<1>4. now \in Nat
  BY DEF TypeOK
<1> HIDE DEF v
<1>5. v \in newest(dht[x])
  BY <1>1, <1>2, <1>3 DEF newest
<1>6. ASSUME NEW u \in newest(dht[x]) PROVE u = v
  <2>1. u \in usable(dht[x]) /\ v.ts <= u.ts
    BY <1>2, <1>6 DEF newest
  <2> QED
    BY <1>1, <1>3, <1>4, <2>1
<1> QED
  BY <1>5, <1>6 DEF v

\* As long as every seal carried a later second than all before it, an edit
\* takes effect with its put.
THEOREM LatestPutWins == Spec => []LatestPutIsSelected
BY PublishTypeCorrect, InitSealed, StepSealed, SealedSelects, PTL DEF Spec
=============================================================================
