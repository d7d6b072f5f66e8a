---------------------------- MODULE KeySyncProofs ----------------------------
(***************************************************************************)
(* A server that answers requests has its keys, and keeps the newest of    *)
(* each, whatever number of keys there is and however often they change.   *)
(*                                                                         *)
(* What has to be added to the properties to make them inductive is, for   *)
(* each key, an order of age: what is cached, what has been fetched, what  *)
(* is stored; and that nothing is cached for a key that has no listener.   *)
(***************************************************************************)
EXTENDS KeySync, TLAPS

\* How old a document of either sign is.
Age(d) == IF d < 0 THEN -d ELSE d

\* Nothing is younger than the last document written.
AgesAreBounded ==
    /\ \A n \in Name : Age(docs[n]) <= writes /\ Age(cache[n]) <= writes
    /\ Age(fetched) <= writes

\* No key is cached that is younger than its document, and none is fetched.
StoreIsAhead ==
    /\ \A n \in Name : docs[n] # 0 => Age(cache[n]) <= Age(docs[n])
    /\ stage = "got" /\ ~Serving /\ docs[signatures[position]] # 0
         => Age(fetched) <= Age(docs[signatures[position]])

\* Only a key with a listener is cached and, unless the process is about to
\* end, every such key is, with its content.
ListenersHaveKeys ==
    /\ \A n \in Name : cache[n] # 0 => n \in listeners
    /\ fatal = "none" => /\ stage # "await"
                         /\ \A n \in Name : cache[n] >= 0
                         /\ \A n \in listeners : cache[n] > 0

\* The inductive invariant.
IInv == TypeOK /\ AgesAreBounded /\ StoreIsAhead /\ ListenersHaveKeys

-----------------------------------------------------------------------------

\* The key the start-up is at is a name, the next position is one too, or the
\* one past the last, and listening to it makes the listeners those before it.
LEMMA StartUpIsAtAKey ==
    ASSUME TypeOK, ~Serving
    PROVE  /\ signatures[position] \in Name
           /\ signatures[position] \notin listeners
           /\ position + 1 \in 1..Len(signatures) + 1
           /\ listeners \cup {signatures[position]}
                = {signatures[i] : i \in 1..(position + 1) - 1}
  <1>1. /\ DOMAIN signatures = 1..Len(signatures) /\ Len(signatures) \in Nat
        /\ position \in 1..Len(signatures)
    BY SignaturesAreApart DEF TypeOK, Serving
  <1>2. \A i \in 1..position - 1 : i \in DOMAIN signatures /\ i # position
    BY <1>1
  <1>3. signatures[position] \in Name
    BY <1>1 DEF Name
  <1>4. signatures[position] \notin listeners
    BY <1>1, <1>2, SignaturesAreApart DEF TypeOK
  <1>5. 1..(position + 1) - 1 = (1..position - 1) \cup {position}
    BY <1>1
  <1>6. QED
    BY <1>1, <1>3, <1>4, <1>5 DEF TypeOK

\* A server that listens has a listener on every key.
LEMMA ServingListensToAll ==
    ASSUME TypeOK, Serving
    PROVE  listeners = Name
  <1>1. /\ DOMAIN signatures = 1..Len(signatures) /\ Len(signatures) \in Nat
        /\ position = Len(signatures) + 1
    BY SignaturesAreApart DEF TypeOK, Serving
  <1>2. QED
    BY <1>1 DEF TypeOK, Name

\* The server starts with nothing cached.
LEMMA InitIInv == Init => IInv
  <1> SUFFICES ASSUME Init PROVE IInv
    OBVIOUS
  <1>1. Len(signatures) \in Nat /\ MaxWrites \in Nat \ {0}
    BY SignaturesAreApart
  <1>2. TypeOK
    BY <1>1 DEF Init, TypeOK
  <1>3. AgesAreBounded
    BY DEF Init, AgesAreBounded, Age
  <1>4. StoreIsAhead
    BY DEF Init, StoreIsAhead, Age
  <1>5. ListenersHaveKeys
    BY DEF Init, ListenersHaveKeys
  <1>6. QED
    BY <1>2, <1>3, <1>4, <1>5 DEF IInv

\* The documents only get newer.
LEMMA WriteDocStep ==
    ASSUME IInv, NEW n \in Name, WriteDoc(n)
    PROVE  IInv'
  <1> USE SignaturesAreApart DEF IInv, WriteDoc, startUp
  <1>1. PICK d \in {-(writes + 1), 0, writes + 1} : docs' = [docs EXCEPT ![n] = d]
    OBVIOUS
  <1>2. TypeOK'
    BY <1>1 DEF TypeOK
  <1>3. AgesAreBounded'
    <2>1. writes \in Nat /\ writes' = writes + 1 /\ cache' = cache /\ fetched' = fetched
      BY DEF TypeOK
    <2>2. d \in Int /\ Age(d) \in Int /\ Age(d) <= writes + 1
      BY <2>1 DEF Age
    <2>3. \A m \in Name : docs'[m] \in {docs[m], d}
      BY <1>1 DEF TypeOK
    <2>4. ASSUME NEW m \in Name
          PROVE  Age(docs'[m]) <= writes' /\ Age(cache'[m]) <= writes'
      <3>1. docs[m] \in Int /\ cache[m] \in Int
        BY DEF TypeOK
      <3>2. Age(docs[m]) \in Int /\ Age(cache[m]) \in Int
        BY <3>1 DEF Age
      <3>3. Age(docs[m]) <= writes /\ Age(cache[m]) <= writes
        BY DEF AgesAreBounded
      <3> QED BY <2>1, <2>2, <2>3, <3>2, <3>3
    <2>5. Age(fetched) <= writes'
      BY <2>1 DEF AgesAreBounded, TypeOK, Age
    <2> QED BY <2>1, <2>4, <2>5 DEF AgesAreBounded
  <1>4. StoreIsAhead'
    <2>1. \A m \in Name : m # n => docs'[m] = docs[m]
      BY <1>1 DEF TypeOK
    <2>2. docs'[n] # 0 => Age(docs'[n]) = writes + 1
      BY <1>1 DEF TypeOK, Age
    <2>3. ~Serving => signatures[position] \in Name
      BY StartUpIsAtAKey
    <2>4. \A m \in Name : Age(cache[m]) <= writes + 1
      BY DEF AgesAreBounded, TypeOK, Age
    <2>5. Age(fetched) <= writes + 1
      BY DEF AgesAreBounded, TypeOK, Age
    <2>6. Serving' <=> Serving
      BY DEF Serving
    <2>7. \A m \in Name : docs'[m] # 0 => Age(cache[m]) <= Age(docs'[m])
      BY <2>1, <2>2, <2>4 DEF StoreIsAhead
    <2>8. ASSUME stage = "got", ~Serving, docs'[signatures[position]] # 0
          PROVE  Age(fetched) <= Age(docs'[signatures[position]])
      BY <2>1, <2>2, <2>3, <2>5, <2>8 DEF StoreIsAhead
    <2>9. QED
      BY <2>6, <2>7, <2>8 DEF StoreIsAhead, Age
  <1>5. ListenersHaveKeys'
    BY DEF ListenersHaveKeys
  <1>6. QED
    BY <1>2, <1>3, <1>4, <1>5

\* What getAndCache does to the cache and to the order of ages.
LEMMA GetAndCacheStep ==
    ASSUME IInv, NEW n \in Name, NEW doc \in -MaxWrites..MaxWrites, Age(doc) <= writes,
           GetAndCache(n, doc)
    PROVE  /\ cache' \in [Name -> -MaxWrites..MaxWrites]
           /\ fatal' \in {"none", "reporting", "killed"}
           /\ fatal' = "none" => fatal = "none" /\ doc > 0
           /\ \A m \in Name : m # n => cache'[m] = cache[m]
           /\ cache'[n] = IF doc = 0 THEN cache[n] ELSE doc
           /\ \A m \in Name : Age(cache'[m]) <= writes
  BY SignaturesAreApart DEF IInv, TypeOK, GetAndCache, ExecAsFatalError, AgesAreBounded

\* The start-up reads a document,
LEMMA FetchStep ==
    ASSUME IInv, Fetch
    PROVE  IInv'
  <1> USE DEF IInv, Fetch, store
  <1>1. signatures[position] \in Name
    BY StartUpIsAtAKey
  <1>2. TypeOK'
    BY <1>1 DEF TypeOK
  <1>3. AgesAreBounded'
    BY <1>1 DEF AgesAreBounded, Age
  <1>4. StoreIsAhead'
    BY <1>1 DEF StoreIsAhead, Age, TypeOK
  <1>5. ListenersHaveKeys'
    BY DEF ListenersHaveKeys
  <1>6. QED
    BY <1>2, <1>3, <1>4, <1>5

\* caches it, and goes on to the next key or listens.
LEMMA CacheFetchedStep ==
    ASSUME IInv, CacheFetched
    PROVE  IInv'
  <1> DEFINE n == signatures[position]
  <1> USE DEF IInv
  <1>1. /\ n \in Name /\ n \notin listeners /\ position + 1 \in 1..Len(signatures) + 1
        /\ listeners \cup {n} = {signatures[i] : i \in 1..(position + 1) - 1}
    BY StartUpIsAtAKey DEF CacheFetched
  <1>2. /\ fetched \in -MaxWrites..MaxWrites /\ Age(fetched) <= writes
        /\ GetAndCache(n, fetched)
    BY DEF CacheFetched, TypeOK, AgesAreBounded
  <1>3. /\ cache' \in [Name -> -MaxWrites..MaxWrites]
        /\ fatal' \in {"none", "reporting", "killed"}
        /\ fatal' = "none" => fatal = "none" /\ fetched > 0
        /\ \A m \in Name : m # n => cache'[m] = cache[m]
        /\ cache'[n] = IF fetched = 0 THEN cache[n] ELSE fetched
        /\ \A m \in Name : Age(cache'[m]) <= writes
    BY <1>1, <1>2, GetAndCacheStep
  <1>4. UNCHANGED <<docs, writes, fetched>> /\ stage = "got" /\ ~Serving
    BY DEF CacheFetched, store
  <1>5. \/ /\ fetched = 0 /\ stage' = "await" /\ UNCHANGED <<position, listeners, unread>>
        \/ /\ fetched # 0 /\ stage' = "get" /\ position' = position + 1
           /\ listeners' = listeners \cup {n} /\ unread' = unread \cup {n}
    BY DEF CacheFetched, Listen
  <1>6. TypeOK'
    <2>1. unread' \subseteq listeners'
      BY <1>5 DEF TypeOK
    <2>2. position' \in 1..Len(signatures) + 1 /\ stage' \in {"get", "got", "await"}
      BY <1>1, <1>5 DEF TypeOK
    <2>3. listeners' = {signatures[i] : i \in 1..position' - 1}
      BY <1>1, <1>5 DEF TypeOK
    <2>4. QED
      BY <1>3, <1>4, <2>1, <2>2, <2>3 DEF TypeOK
  <1>7. AgesAreBounded'
    BY <1>3, <1>4 DEF AgesAreBounded, Age
  <1>8. StoreIsAhead'
    <2>1. stage' # "got"
      BY <1>5
    <2>2. docs[n] # 0 => Age(fetched) <= Age(docs[n])
      BY <1>4 DEF StoreIsAhead
    <2>3. \A m \in Name : docs[m] # 0 => Age(cache'[m]) <= Age(docs[m])
      BY <1>3, <2>2 DEF StoreIsAhead
    <2>4. QED
      BY <1>4, <2>1, <2>3 DEF StoreIsAhead, Age
  <1>9. ListenersHaveKeys'
    <2>1. \A m \in Name : cache'[m] # 0 => m \in listeners'
      BY <1>1, <1>3, <1>5 DEF ListenersHaveKeys
    <2>2. ASSUME fatal' = "none"
          PROVE  /\ stage' # "await"
                 /\ \A m \in Name : cache'[m] >= 0
                 /\ \A m \in listeners' : cache'[m] > 0
      <3>1. /\ fatal = "none" /\ fetched > 0 /\ fetched # 0 /\ cache'[n] = fetched
            /\ stage' = "get" /\ listeners' = listeners \cup {n}
        BY <1>2, <1>3, <1>5, <2>2
      <3>2. listeners \subseteq Name
        BY SignaturesAreApart DEF TypeOK, Name
      <3>3. QED
        BY <1>1, <1>3, <3>1, <3>2 DEF ListenersHaveKeys
    <2>3. QED
      BY <2>1, <2>2 DEF ListenersHaveKeys
  <1>10. QED
    BY <1>6, <1>7, <1>8, <1>9

\* The broken document is reported: the start-up goes on.
LEMMA ResumeStep ==
    ASSUME IInv, Resume
    PROVE  IInv'
  <1> USE DEF IInv, Resume, Listen, store
  <1>1. /\ signatures[position] \in Name /\ position + 1 \in 1..Len(signatures) + 1
        /\ listeners \cup {signatures[position]}
             = {signatures[i] : i \in 1..(position + 1) - 1}
    BY StartUpIsAtAKey
  <1>2. TypeOK'
    BY <1>1 DEF TypeOK
  <1>3. AgesAreBounded'
    BY DEF AgesAreBounded, Age
  <1>4. StoreIsAhead'
    BY DEF StoreIsAhead, Age
  <1>5. ListenersHaveKeys'
    BY DEF ListenersHaveKeys
  <1>6. QED
    BY <1>2, <1>3, <1>4, <1>5

\* A snapshot is never older than what is cached.
LEMMA SnapshotStep ==
    ASSUME IInv, NEW n \in Name, Snapshot(n)
    PROVE  IInv'
  <1> USE DEF IInv
  <1>1. UNCHANGED <<docs, writes, position, stage, fetched, listeners>>
    BY DEF Snapshot, store, startUp
  <1>2. n \in listeners
    BY DEF Snapshot, TypeOK
  <1>3. docs[n] \in -MaxWrites..MaxWrites /\ Age(docs[n]) <= writes /\ GetAndCache(n, docs[n])
    BY DEF Snapshot, TypeOK, AgesAreBounded
  <1>4. /\ cache' \in [Name -> -MaxWrites..MaxWrites]
        /\ fatal' \in {"none", "reporting", "killed"}
        /\ fatal' = "none" => fatal = "none" /\ docs[n] > 0
        /\ \A m \in Name : m # n => cache'[m] = cache[m]
        /\ cache'[n] = IF docs[n] = 0 THEN cache[n] ELSE docs[n]
        /\ \A m \in Name : Age(cache'[m]) <= writes
    BY <1>3, GetAndCacheStep
  <1>5. TypeOK'
    BY <1>1, <1>4 DEF TypeOK, Snapshot
  <1>6. AgesAreBounded'
    BY <1>1, <1>4 DEF AgesAreBounded, Age
  <1>7. StoreIsAhead'
    <2>1. \A m \in Name : docs[m] # 0 => Age(cache'[m]) <= Age(docs[m])
      <3>1. docs[n] # 0 => Age(cache'[n]) <= Age(docs[n])
        BY <1>3, <1>4 DEF Age
      <3>2. QED
        BY <1>4, <3>1 DEF StoreIsAhead
    <2>2. QED
      BY <1>1, <2>1 DEF StoreIsAhead, Age, Serving
  <1>8. ListenersHaveKeys'
    <2>1. \A m \in Name : cache'[m] # 0 => m \in listeners
      BY <1>2, <1>4 DEF ListenersHaveKeys
    <2>2. listeners \subseteq Name
      BY SignaturesAreApart DEF TypeOK, Name
    <2>3. QED
      BY <1>1, <1>3, <1>4, <2>1, <2>2 DEF ListenersHaveKeys
  <1>9. QED
    BY <1>5, <1>6, <1>7, <1>8

\* A restart begins anew.
LEMMA RestartStep ==
    ASSUME IInv, Restart
    PROVE  IInv'
  <1> USE SignaturesAreApart DEF IInv, Restart, store
  <1>1. TypeOK'
    <2>1. Len(signatures) \in Nat /\ 1 \in 1..Len(signatures) + 1 /\ 1..1 - 1 = {}
      OBVIOUS
    <2>2. QED
      BY <2>1 DEF TypeOK
  <1>2. AgesAreBounded'
    BY DEF AgesAreBounded, Age, TypeOK
  <1>3. StoreIsAhead'
    BY DEF StoreIsAhead, Age, TypeOK
  <1>4. ListenersHaveKeys'
    BY DEF ListenersHaveKeys
  <1>5. QED
    BY <1>1, <1>2, <1>3, <1>4

\* Every step.
LEMMA NextIInv == IInv /\ [Next]_vars => IInv'
  <1> SUFFICES ASSUME IInv, [Next]_vars PROVE IInv'
    OBVIOUS
  <1>1. ASSUME NEW n \in Name, WriteDoc(n) PROVE IInv'
    BY <1>1, WriteDocStep
  <1>2. ASSUME NEW n \in Name, Snapshot(n) PROVE IInv'
    BY <1>2, SnapshotStep
  <1>3. CASE Fetch
    BY <1>3, FetchStep
  <1>4. CASE CacheFetched
    BY <1>4, CacheFetchedStep
  <1>5. CASE Resume
    BY <1>5, ResumeStep
  <1>6. CASE Report
    BY <1>6 DEF IInv, Report, store, startUp, TypeOK, AgesAreBounded, StoreIsAhead,
                ListenersHaveKeys, Age, Serving
  <1>7. CASE Restart
    BY <1>7, RestartStep
  <1>8. CASE UNCHANGED vars
    BY <1>8 DEF IInv, vars, store, startUp, TypeOK, AgesAreBounded, StoreIsAhead,
                ListenersHaveKeys, Age, Serving
  <1>9. QED
    BY <1>1, <1>2, <1>3, <1>4, <1>5, <1>6, <1>7, <1>8 DEF Next

\* The strengthened invariant holds in every state of the start-up and of a
\* running server.
THEOREM Invariance == Spec => []IInv
  <1>1. QED
    BY InitIInv, NextIInv, PTL DEF Spec

-----------------------------------------------------------------------------

\* The start-up loop and the listeners keep every variable well formed.
THEOREM TypeCorrect == Spec => []TypeOK
  <1>1. IInv => TypeOK
    BY DEF IInv
  <1>2. QED
    BY <1>1, Invariance, PTL

\* A server that is not on its way out answers requests only with all of its
\* keys cached, content included, for any number of keys.
THEOREM NoRequestWithoutKeys == Spec => []KeysBeforeRequests
  <1>1. IInv => KeysBeforeRequests
    BY ServingListensToAll DEF IInv, ListenersHaveKeys, KeysBeforeRequests
  <1>2. QED
    BY <1>1, Invariance, PTL

\* Whatever is written while a key is fetched, listened to or reported, the cache
\* has it as soon as its listener has nothing left to report, for any number of
\* keys and writes.
THEOREM NoWriteIsMissedHolds == Spec => []NoWriteIsMissed
  <1>1. Init => NoWriteIsMissed
    BY DEF Init, NoWriteIsMissed
  <1>2. ASSUME IInv, NoWriteIsMissed, [Next]_vars PROVE NoWriteIsMissed'
    <2> USE <1>2 DEF NoWriteIsMissed
    <2>1. listeners \subseteq Name
      BY SignaturesAreApart DEF IInv, TypeOK, Name
    <2>2. ASSUME NEW n \in Name, WriteDoc(n) PROVE NoWriteIsMissed'
      BY <2>1, <2>2 DEF WriteDoc, startUp, IInv, TypeOK
    <2>3. ASSUME NEW n \in Name, Snapshot(n) PROVE NoWriteIsMissed'
      <3>1. /\ listeners' = listeners /\ docs' = docs /\ unread' = unread \ {n}
            /\ GetAndCache(n, docs[n])
        BY <2>3 DEF Snapshot, store, startUp
      <3>2. /\ cache' = IF docs[n] = 0 THEN cache ELSE [cache EXCEPT ![n] = docs[n]]
            /\ fatal' = IF docs[n] <= 0 /\ fatal = "none" THEN "reporting" ELSE fatal
        BY <3>1 DEF GetAndCache, ExecAsFatalError
      <3>3. ASSUME NEW m \in listeners \ (unread \ {n})
            PROVE  /\ docs[m] # 0 => cache'[m] = docs[m]
                   /\ docs[m] <= 0 => fatal' # "none"
        BY <2>1, <3>2 DEF IInv, TypeOK
      <3>4. QED
        BY <3>1, <3>3
    <2>4. CASE CacheFetched
      <3>1. /\ signatures[position] \in Name /\ signatures[position] \notin listeners
            /\ GetAndCache(signatures[position], fetched) /\ docs' = docs
            /\ \/ listeners' = listeners /\ unread' = unread
               \/ /\ listeners' = listeners \cup {signatures[position]}
                  /\ unread' = unread \cup {signatures[position]}
        BY <2>4, StartUpIsAtAKey DEF CacheFetched, Listen, store, IInv
      <3>2. /\ \A m \in listeners : cache'[m] = cache[m]
            /\ fatal # "none" => fatal' # "none"
        BY <2>1, <3>1 DEF GetAndCache, ExecAsFatalError, IInv, TypeOK
      <3>3. QED
        BY <3>1, <3>2
    <2>5. CASE Resume
      BY <2>5 DEF Resume, Listen, store
    <2>6. CASE Restart
      BY <2>6 DEF Restart
    <2>7. CASE Report
      BY <2>7 DEF Report, store, startUp
    <2>8. CASE Fetch
      BY <2>8 DEF Fetch, store
    <2>9. CASE UNCHANGED vars
      BY <2>9 DEF vars, store, startUp
    <2>10. QED
      BY <2>2, <2>3, <2>4, <2>5, <2>6, <2>7, <2>8, <2>9 DEF Next
  <1>3. QED
    BY <1>1, <1>2, Invariance, PTL DEF Spec

\* The fetch of the start-up and the snapshots of the listener never put an
\* older key in the place of a newer one, for any number of rotations.
THEOREM KeysOnlyGetNewer == Spec => CacheNeverGoesBack
  <1> DEFINE Newer == \A n \in Name : cache[n] > 0 /\ cache'[n] > 0 => cache[n] <= cache'[n]
  <1>1. ASSUME IInv, [Next]_vars PROVE [Newer]_vars
    <2> USE <1>1
    <2>1. cache \in [Name -> -MaxWrites..MaxWrites] /\ MaxWrites \in Nat
      BY SignaturesAreApart DEF IInv, TypeOK
    <2>2. CASE UNCHANGED cache
      BY <2>1, <2>2
    <2>3. ASSUME NEW n \in Name, Snapshot(n) PROVE Newer
      <3>1. cache' = IF docs[n] = 0 THEN cache ELSE [cache EXCEPT ![n] = docs[n]]
        BY <2>3 DEF Snapshot, GetAndCache
      <3>2. docs[n] # 0 => Age(cache[n]) <= Age(docs[n])
        BY DEF IInv, StoreIsAhead
      <3>3. docs[n] \in Int
        BY SignaturesAreApart DEF IInv, TypeOK
      <3>4. QED
        BY <2>1, <3>1, <3>2, <3>3 DEF Age
    <2>4. CASE CacheFetched
      <3>1. /\ cache' = IF fetched = 0 THEN cache
                        ELSE [cache EXCEPT ![signatures[position]] = fetched]
            /\ ~Serving
        BY <2>4 DEF CacheFetched, GetAndCache
      <3>2. signatures[position] \in Name /\ cache[signatures[position]] = 0
        BY <3>1, StartUpIsAtAKey DEF IInv, ListenersHaveKeys
      <3>3. QED
        BY <2>1, <3>1, <3>2
    <2>5. CASE Restart
      BY <2>1, <2>5 DEF Restart
    <2>6. QED
      BY <2>2, <2>3, <2>4, <2>5 DEF Next, WriteDoc, Fetch, Resume, Report, startUp, vars
  <1>2. QED
    BY <1>1, Invariance, PTL DEF Spec, CacheNeverGoesBack
=============================================================================
