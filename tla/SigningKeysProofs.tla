-------------------------- MODULE SigningKeysProofs --------------------------
(***************************************************************************)
(* The safety properties of SigningKeys for any number of requests,        *)
(* rotations and tokens and any rounding of time.  The keys that are       *)
(* cached or on their way are successive rotations of one key; a request   *)
(* signs with one of them that is not newer than the cached one; and a     *)
(* token is not older than the key it is signed with.  Numbering the       *)
(* rotations from the cached key on, and not each from the one before, is  *)
(* what makes this inductive without an induction on the length of feed.   *)
(***************************************************************************)
EXTENDS SigningKeys, SequenceTheorems, TLAPS

\* Rounding to seconds keeps the order of instants.
LEMMA SecondsAreOrdered ==
  ASSUME NEW s \in Nat, NEW t \in Nat, s <= t
  PROVE  Second(s) \in Nat /\ Second(t) \in Nat /\ Second(s) <= Second(t)
<1> DEFINE p == s \div Millis
           q == t \div Millis
<1>1. /\ Millis \in Nat \ {0} /\ p \in Int /\ q \in Int
      /\ Millis * p <= s /\ s < Millis * (p + 1)
      /\ Millis * q <= t /\ t < Millis * (q + 1)
  BY ClockIsSane
<1> HIDE DEF p, q
<1>2. \A i, j \in Int : i < j => Millis * i + Millis <= Millis * j
  BY <1>1
<1>3. p >= 0 /\ q >= 0 /\ p <= q
  BY <1>1, <1>2
<1> QED BY <1>1, <1>3 DEF p, q, Second

-----------------------------------------------------------------------------
(* The inductive invariant.                                                *)

\* The cached key and the rotations on their way to it are one chain.
KeyChain ==
    /\ cache.actual.content >= 1 /\ cache.actual.buildedAt <= now
    /\ \/ cache.prev = NoNode
       \/ cache.prev.content >= 1 /\ cache.prev.content + 1 = cache.actual.content
    /\ \A i \in 1..Len(feed) :
          /\ feed[i].actual.content = cache.actual.content + i
          /\ feed[i].actual.buildedAt <= now
          /\ feed[i].prev = IF i = 1 THEN cache.actual ELSE feed[i - 1].actual
    /\ source = Isolated => feed = <<>> /\ cache.prev = NoNode

\* A request signs with the cached key or with one that was cached before.
SignersAreCachedOrOld ==
    \A r \in Request : signing[r] # NoKey =>
        LET node == signing[r].actual IN
        /\ node.content \in 1..cache.actual.content
        /\ node.buildedAt <= now
        /\ node.content = cache.actual.content => node = cache.actual
        /\ node.content = cache.prev.content => node = cache.prev

\* A token is not older than its key, as far as the validator knows that key.
TokensFollowTheirKeys ==
    \A t \in tokens :
        /\ t.content \in 1..cache.actual.content
        /\ t.content = cache.actual.content => Second(cache.actual.buildedAt) <= t.iat
        /\ t.content = cache.prev.content => Second(cache.prev.buildedAt) <= t.iat

\* The inductive invariant.
IInv == TypeOK /\ KeyChain /\ SignersAreCachedOrOld /\ TokensFollowTheirKeys

\* A first key is a key, and absent ones are too.
LEMMA KeyTypes ==
  ASSUME source \in Sources
  PROVE  /\ NoNode \in Node /\ NoKey \in Key
         /\ \A n, t \in Nat : FirstKey(n, t) \in Key
  BY ClockIsSane DEF NoNode, NoKey, Node, Key, FirstKey

\* The chain starts with the first key, which nobody has signed with.
LEMMA InitIInv == Init => IInv
<1> SUFFICES ASSUME Init PROVE IInv
  OBVIOUS
<1>1. source \in Sources /\ kind \in Kinds
  BY DEF Init
<1>2. TypeOK
  BY <1>1, KeyTypes DEF Init, TypeOK
<1>3. KeyChain
  BY DEF Init, KeyChain, FirstKey
<1>4. SignersAreCachedOrOld /\ TokensFollowTheirKeys
  BY DEF Init, SignersAreCachedOrOld, TokensFollowTheirKeys
<1> QED BY <1>2, <1>3, <1>4 DEF IInv

\* The cache moves on to a rotation, as CacheSnapshot and Restart let it.
Advance(i) == cache' = feed[i] /\ feed' = SubSeq(feed, i + 1, Len(feed))

\* The rest of the feed continues the chain; who held the old key holds the
\* previous one, if the cache has not jumped over it.
LEMMA AdvanceStep ==
  ASSUME IInv, NEW i \in 1..Len(feed), Advance(i),
         UNCHANGED <<Setup, now, tokens>>,
         signing' \in {signing, [r \in Request |-> NoKey]}
  PROVE  IInv'
<1> USE DEF IInv
<1>1. /\ feed \in Seq(Key) /\ Len(feed) \in Nat /\ \A x \in 1..Len(feed) : feed[x] \in Key
      /\ cache \in Key /\ now \in Nat
  BY DEF TypeOK
<1>2. /\ feed' \in Seq(Key) /\ Len(feed') = Len(feed) - i
      /\ \A x \in 1..Len(feed') : feed'[x] = feed[i + x]
  <2>1. /\ i + 1 \in Int /\ \A x \in (i + 1)..Len(feed) : feed[x] \in Key
    BY <1>1
  <2>2. /\ SubSeq(feed, i + 1, Len(feed)) \in Seq(Key)
        /\ Len(SubSeq(feed, i + 1, Len(feed))) = IF i + 1 <= Len(feed) THEN Len(feed) - (i + 1) + 1 ELSE 0
        /\ \A x \in 1..(Len(feed) - (i + 1) + 1) : SubSeq(feed, i + 1, Len(feed))[x] = feed[(i + 1) + x - 1]
    BY <1>1, <2>1, SubSeqProperties
  <2> QED BY <1>1, <2>2 DEF Advance
<1>3. TypeOK'
  <2>1. cache' \in Key
    BY <1>1 DEF Advance
  <2>2. signing' \in [Request -> Key]
    BY KeyTypes DEF TypeOK
  <2> QED BY <1>2, <2>1, <2>2 DEF TypeOK, Setup
<1>4. cache.actual.content \in Nat /\ cache.actual.content >= 1
  BY <1>1 DEF KeyChain, Key, Node
<1>5. /\ cache' = feed[i]
      /\ cache'.actual.content = cache.actual.content + i
      /\ cache'.actual.buildedAt <= now
      /\ cache'.prev = IF i = 1 THEN cache.actual ELSE feed[i - 1].actual
      /\ cache'.prev.content = cache.actual.content + i - 1
  <2>1. cache' = feed[i]
    BY DEF Advance
  <2>2. /\ feed[i].actual.content = cache.actual.content + i
        /\ feed[i].actual.buildedAt <= now
        /\ feed[i].prev = IF i = 1 THEN cache.actual ELSE feed[i - 1].actual
    BY DEF KeyChain
  <2>3. ASSUME i # 1 PROVE feed[i - 1].actual.content = cache.actual.content + (i - 1)
    BY <1>1, <2>3 DEF KeyChain
  <2> QED BY <1>1, <1>4, <2>1, <2>2, <2>3
<1>6. source # Isolated
  BY <1>1 DEF KeyChain
<1>7. KeyChain'
  <2>1. ASSUME NEW x \in 1..Len(feed')
        PROVE  /\ feed'[x].actual.content = cache'.actual.content + x
               /\ feed'[x].actual.buildedAt <= now'
               /\ feed'[x].prev = IF x = 1 THEN cache'.actual ELSE feed'[x - 1].actual
    <3>1. i + x \in 1..Len(feed) /\ i + x # 1 /\ feed'[x] = feed[i + x]
      BY <1>1, <1>2
    <3>2. x # 1 => x - 1 \in 1..Len(feed') /\ feed'[x - 1] = feed[i + x - 1]
      BY <1>1, <1>2
    <3>3. /\ feed[i + x].actual.content = cache.actual.content + (i + x)
          /\ feed[i + x].actual.buildedAt <= now
          /\ feed[i + x].prev = feed[i + x - 1].actual
      BY <3>1 DEF KeyChain
    <3>4. feed'[x].actual.content = cache'.actual.content + x
      BY <1>1, <1>5, <1>4, <3>1, <3>3
    <3>5. feed[i + x - 1] = IF x = 1 THEN cache' ELSE feed'[x - 1]
      BY <1>1, <1>5, <3>2
    <3> QED BY <3>1, <3>3, <3>4, <3>5
  <2>2. cache'.actual.content >= 1 /\ cache'.prev.content >= 1
        /\ cache'.prev.content + 1 = cache'.actual.content
    BY <1>1, <1>4, <1>5
  <2> QED BY <1>5, <1>6, <2>1, <2>2 DEF KeyChain, Setup
<1>8. SignersAreCachedOrOld'
  BY <1>5, <1>4 DEF SignersAreCachedOrOld
<1>9. TokensFollowTheirKeys'
  BY <1>5, <1>4 DEF TokensFollowTheirKeys
<1> QED BY <1>3, <1>7, <1>8, <1>9

\* Every step preserves the invariant.
LEMMA NextIInv == IInv /\ [Next]_vars => IInv'
<1> SUFFICES ASSUME IInv, [Next]_vars PROVE IInv'
  OBVIOUS
<1> USE DEF IInv
<1>0. /\ feed \in Seq(Key) /\ Len(feed) \in Nat /\ \A x \in 1..Len(feed) : feed[x] \in Key
      /\ cache \in Key /\ now \in Nat
      /\ cache.actual.content \in Nat /\ cache.actual.content >= 1
      /\ cache.actual.buildedAt \in Nat
  <2>1. feed \in Seq(Key) /\ cache \in Key /\ now \in Nat
    BY DEF TypeOK
  <2>2. Len(feed) \in Nat /\ \A x \in 1..Len(feed) : feed[x] \in Key
    BY <2>1
  <2>3. cache.actual.content \in Nat /\ cache.actual.buildedAt \in Nat
    BY <2>1 DEF Key, Node
  <2> QED BY <2>1, <2>2, <2>3 DEF KeyChain
<1>1. CASE Tick
  <2>1. now' = now + 1 /\ UNCHANGED <<source, kind, cache, feed, signing, tokens>>
    BY <1>1 DEF Tick, Setup
  <2>2. TypeOK'
    BY <2>1 DEF TypeOK
  <2>3. KeyChain'
    <3>1. \A x \in 1..Len(feed) : feed[x].actual.buildedAt <= now + 1
      <4>1. \A x \in 1..Len(feed) : feed[x].actual.buildedAt \in Nat
        BY <1>0 DEF Key, Node
      <4>2. \A x \in 1..Len(feed) : feed[x].actual.buildedAt <= now
        BY DEF KeyChain
      <4> QED BY <1>0, <4>1, <4>2
    <3> QED BY <1>0, <2>1, <3>1 DEF KeyChain
  <2>4. SignersAreCachedOrOld'
    <3>1. \A r \in Request : signing[r].actual.buildedAt \in Nat
      BY DEF TypeOK, Key, Node
    <3> QED BY <1>0, <2>1, <3>1 DEF SignersAreCachedOrOld
  <2>5. TokensFollowTheirKeys'
    BY <2>1 DEF TokensFollowTheirKeys
  <2> QED BY <2>2, <2>3, <2>4, <2>5
<1>2. CASE Rotate
  <2> DEFINE new == [actual |-> [content |-> Newest.actual.content + 1, buildedAt |-> now],
                     prev |-> Newest.actual, ttl |-> Ttl]
  <2>1. feed' = Append(feed, new) /\ source = Firestore
        /\ UNCHANGED <<source, kind, now, cache, signing, tokens>>
    BY <1>2 DEF Rotate, Setup
  <2>2. Newest \in Key /\ Newest.actual.content = cache.actual.content + Len(feed)
        /\ Newest = IF Len(feed) = 0 THEN cache ELSE feed[Len(feed)]
    <3>1. CASE feed = <<>>
      BY <1>0, <3>1 DEF Newest
    <3>2. CASE feed # <<>>
      <4>1. Len(feed) \in 1..Len(feed)
        BY <1>0, <3>2, EmptySeq
      <4> QED BY <1>0, <3>2, <4>1 DEF Newest, KeyChain
    <3> QED BY <3>1, <3>2
  <2>3. new \in Key /\ new.actual.content = cache.actual.content + (Len(feed) + 1)
        /\ new.actual.buildedAt = now /\ new.prev = Newest.actual
    <3>1. Ttl \in Nat
      BY ClockIsSane
    <3>2. Newest.actual \in Node /\ Newest.actual.content \in Nat
      BY <2>2 DEF Key, Node
    <3>3. new \in Key
      BY <1>0, <3>1, <3>2 DEF Key, Node
    <3>4. /\ new.actual.content = Newest.actual.content + 1
          /\ new.actual.buildedAt = now /\ new.prev = Newest.actual
      OBVIOUS
    <3> HIDE DEF new
    <3>5. Newest.actual.content + 1 = cache.actual.content + (Len(feed) + 1)
      <4>1. cache.actual.content \in Nat /\ Len(feed) \in Nat
        BY <1>0
      <4>2. Newest.actual.content = cache.actual.content + Len(feed)
        BY <2>2
      <4> QED BY <4>1, <4>2
    <3> QED BY <3>3, <3>4, <3>5
  <2> HIDE DEF new
  <2>4. /\ feed' \in Seq(Key) /\ Len(feed') = Len(feed) + 1
        /\ \A x \in 1..Len(feed) : feed'[x] = feed[x]
        /\ feed'[Len(feed) + 1] = new
    BY <1>0, <2>1, <2>3, AppendProperties
  <2>5. TypeOK'
    BY <2>1, <2>4 DEF TypeOK
  <2>6. KeyChain'
    <3>1. ASSUME NEW x \in 1..Len(feed')
          PROVE  /\ feed'[x].actual.content = cache'.actual.content + x
                 /\ feed'[x].actual.buildedAt <= now'
                 /\ feed'[x].prev = IF x = 1 THEN cache'.actual ELSE feed'[x - 1].actual
      <4>1. CASE x \in 1..Len(feed)
        <5>1. x # 1 => x - 1 \in 1..Len(feed)
          BY <1>0, <4>1
        <5> QED BY <2>1, <2>4, <4>1, <5>1 DEF KeyChain
      <4>2. CASE x = Len(feed) + 1
        <5>1. Len(feed) # 0 => Len(feed) \in 1..Len(feed) /\ x - 1 = Len(feed) /\ x # 1
          BY <1>0, <4>2
        <5> QED BY <1>0, <2>1, <2>2, <2>3, <2>4, <4>2, <5>1
      <4> QED BY <1>0, <2>4, <4>1, <4>2
    <3>2. source # Isolated
      BY <2>1 DEF Firestore, Isolated
    <3> QED BY <2>1, <3>1, <3>2 DEF KeyChain
  <2>7. SignersAreCachedOrOld' /\ TokensFollowTheirKeys'
    BY <2>1 DEF SignersAreCachedOrOld, TokensFollowTheirKeys
  <2> QED BY <2>5, <2>6, <2>7
<1>3. CASE CacheSnapshot
  <2>1. PICK i \in 1..Len(feed) : Advance(i)
    BY <1>3 DEF CacheSnapshot, Advance
  <2> QED BY <1>3, <2>1, AdvanceStep DEF CacheSnapshot
<1>4. CASE Restart
  <2>1. signing' = [r \in Request |-> NoKey] /\ UNCHANGED <<source, kind, now, tokens>>
    BY <1>4 DEF Restart, Setup
  <2>2. ASSUME source = Firestore PROVE IInv'
    <3>1. PICK i \in 0..Len(feed) : /\ cache' = (<<cache>> \o feed)[i + 1]
                                    /\ feed' = SubSeq(feed, i + 1, Len(feed))
      BY <1>4, <2>2 DEF Restart, Firestore, Isolated
    <3>2. /\ (<<cache>> \o feed)[1] = cache
          /\ \A x \in 1..Len(feed) : (<<cache>> \o feed)[x + 1] = feed[x]
      BY <1>0
    <3>3. CASE i = 0
      <4>1. cache' = cache /\ feed' = feed
        BY <1>0, <3>1, <3>2, <3>3, SubSeqFull
      <4>2. TypeOK' /\ KeyChain'
        BY <2>1, <4>1, KeyTypes DEF TypeOK, KeyChain
      <4> QED BY <2>1, <4>1, <4>2 DEF SignersAreCachedOrOld, TokensFollowTheirKeys
    <3>4. CASE i \in 1..Len(feed)
      BY <2>1, <3>1, <3>2, <3>4, AdvanceStep DEF Advance, Setup
    <3> QED BY <1>0, <3>3, <3>4
  <2>3. ASSUME source # Firestore PROVE IInv'
    <3>1. /\ source = Isolated /\ feed' = feed /\ feed = <<>>
          /\ cache' = FirstKey(cache.actual.content + 1, now)
      BY <1>4, <2>3 DEF Restart, KeyChain
    <3>2. /\ cache' \in Key /\ cache'.actual.content = cache.actual.content + 1
          /\ cache'.actual.buildedAt = now /\ cache'.prev = NoNode
      BY <1>0, <3>1, KeyTypes DEF FirstKey, TypeOK
    <3>3. TypeOK' /\ KeyChain'
      BY <1>0, <2>1, <3>1, <3>2, KeyTypes DEF TypeOK, KeyChain
    <3>4. SignersAreCachedOrOld' /\ TokensFollowTheirKeys'
      BY <1>0, <2>1, <3>2 DEF SignersAreCachedOrOld, TokensFollowTheirKeys, NoNode
    <3> QED BY <3>3, <3>4
  <2> QED BY <2>2, <2>3
<1>5. ASSUME NEW r \in Request, ReadKey(r) PROVE IInv'
  <2>1. /\ signing' = [signing EXCEPT ![r] = cache]
        /\ UNCHANGED <<source, kind, now, cache, feed, tokens>>
    BY <1>5 DEF ReadKey, Setup
  <2>2. TypeOK' /\ KeyChain' /\ TokensFollowTheirKeys'
    BY <1>0, <2>1 DEF TypeOK, KeyChain, TokensFollowTheirKeys
  <2>3. SignersAreCachedOrOld'
    <3>1. /\ cache.actual.buildedAt <= now
          /\ cache.actual.content # cache.prev.content
          /\ cache.actual.content \in 1..cache.actual.content
      <4>1. cache.actual.content \in Nat
        BY <1>0 DEF TypeOK, Key, Node
      <4>2. cache.actual.content >= 1 /\ cache.actual.buildedAt <= now
        BY <1>0 DEF KeyChain
      <4>3. cache.prev.content # cache.actual.content
        <5>1. CASE cache.prev = NoNode
          BY <4>2, <5>1 DEF NoNode
        <5>2. CASE cache.prev # NoNode
          BY <1>0, <4>1, <5>2 DEF KeyChain
        <5> QED BY <5>1, <5>2
      <4> QED BY <4>1, <4>2, <4>3
    <3>2. \A q \in Request : signing'[q] = IF q = r THEN cache ELSE signing[q]
      BY <1>0, <2>1 DEF TypeOK
    <3> QED BY <1>0, <2>1, <3>1, <3>2 DEF SignersAreCachedOrOld
  <2> QED BY <2>2, <2>3
<1>6. ASSUME NEW r \in Request, Sign(r) PROVE IInv'
  <2> DEFINE node == signing[r].actual
             new  == SignedWith(signing[r])
  <2>1. /\ signing[r] # NoKey /\ tokens' = tokens \cup {new}
        /\ signing' = [signing EXCEPT ![r] = NoKey]
        /\ UNCHANGED <<source, kind, now, cache, feed>>
    BY <1>6 DEF Sign, Setup
  <2>2. /\ signing[r] \in Key /\ node.content \in Nat /\ node.buildedAt \in Nat
        /\ node.buildedAt <= now
        /\ node.content \in 1..cache.actual.content
        /\ node.content = cache.actual.content => node = cache.actual
        /\ node.content = cache.prev.content => node = cache.prev
    BY <2>1 DEF SignersAreCachedOrOld, TypeOK, Key, Node
  <2>3. Second(now) \in Nat /\ Second(node.buildedAt) <= Second(now)
    BY <1>0, <2>2, SecondsAreOrdered
  <2>4. new \in Token /\ new.content = node.content /\ new.iat = Second(now)
    <3>1. signing[r].ttl \div Millis \in Nat /\ Second(now + CodeLife) \in Nat
      <4>1. \A s \in Nat : Second(s) \in Nat
        BY SecondsAreOrdered
      <4>2. signing[r].ttl \in Nat /\ CodeLife \in Nat
        BY <2>2, ClockIsSane DEF Key
      <4>3. Second(signing[r].ttl) \in Nat /\ Second(now + CodeLife) \in Nat
        <5>1. now + CodeLife \in Nat
          BY <1>0, <4>2
        <5> QED BY <4>1, <4>2, <5>1
      <4> QED BY <4>3 DEF Second
    <3> QED BY <2>2, <2>3, <3>1 DEF SignedWith, Token
  <2> HIDE DEF new, node
  <2>5. TypeOK' /\ KeyChain'
    BY <2>1, <2>4, KeyTypes DEF TypeOK, KeyChain
  <2>6. SignersAreCachedOrOld'
    BY <2>1 DEF SignersAreCachedOrOld, TypeOK
  <2>7. TokensFollowTheirKeys'
    BY <2>1, <2>2, <2>3, <2>4 DEF TokensFollowTheirKeys
  <2> QED BY <2>5, <2>6, <2>7
<1>7. ASSUME NEW t \in tokens, Discard(t) PROVE IInv'
  <2>1. tokens' = tokens \ {t} /\ UNCHANGED <<source, kind, now, cache, feed, signing>>
    BY <1>7 DEF Discard, Setup
  <2>2. TypeOK' /\ KeyChain'
    BY <2>1 DEF TypeOK, KeyChain
  <2> QED BY <2>1, <2>2 DEF SignersAreCachedOrOld, TokensFollowTheirKeys
<1>8. CASE UNCHANGED vars
  BY <1>8 DEF vars, TypeOK, KeyChain, SignersAreCachedOrOld, TokensFollowTheirKeys
<1> QED BY <1>1, <1>2, <1>3, <1>4, <1>5, <1>6, <1>7, <1>8 DEF Next

\* The inductive invariant holds in every reachable state.
LEMMA Invariance == Spec => []IInv
  BY InitIInv, NextIInv, PTL DEF Spec

-----------------------------------------------------------------------------
(* The theorems.                                                           *)

\* Keys and tokens are well formed.
THEOREM TypeCorrect == Spec => []TypeOK
<1>1. IInv => TypeOK
  BY DEF IInv
<1> QED BY Invariance, <1>1, PTL

\* One rotation logs nobody out, however times are rounded and however many
\* rotations have been before.
THEOREM OneRotationHolds == Spec => []OneRotationLogsNobodyOut
<1>1. ASSUME IInv PROVE OneRotationLogsNobodyOut
  <2> SUFFICES ASSUME NEW t \in tokens, Alive(t),
                      \/ t.content = cache.actual.content
                      \/ /\ t.content = cache.prev.content
                         /\ t.iat < Second(cache.actual.buildedAt)
               PROVE  Accepted(cache, t)
    BY DEF OneRotationLogsNobodyOut
  <2>1. /\ t.content \in 1..cache.actual.content
        /\ t.content = cache.actual.content => Second(cache.actual.buildedAt) <= t.iat
        /\ t.content = cache.prev.content => Second(cache.prev.buildedAt) <= t.iat
    BY <1>1 DEF IInv, TokensFollowTheirKeys
  <2>2. t.content = cache.prev.content => cache.prev # NoNode
    BY <2>1 DEF NoNode
  <2> QED BY <2>1, <2>2 DEF Accepted, BySigner, ByDeprecatedSigner
<1> QED BY <1>1, Invariance, PTL

\* What a step may do to the cache.
NewKey ==
    /\ now' = now /\ tokens' = tokens
    /\ \/ /\ cache'.prev.content >= cache.actual.content
          /\ cache'.prev.content = cache.actual.content => cache'.prev = cache.actual
          /\ cache'.actual.content > cache.actual.content
          /\ source = Firestore
       \/ /\ cache'.prev = NoNode
          /\ cache'.actual.content > cache.actual.content

\* The cache moves on to a later rotation, or to a key of a new process.
LEMMA CacheStep ==
  ASSUME IInv, [Next]_vars, cache' # cache
  PROVE  NewKey
<1>0. /\ Len(feed) \in Nat /\ cache.actual.content \in Nat
  BY DEF IInv, TypeOK, Key, Node
<1>1. ASSUME NEW i \in 1..Len(feed), cache' = feed[i], now' = now, tokens' = tokens
      PROVE  NewKey
  <2>1. /\ feed[i].actual.content = cache.actual.content + i
        /\ feed[i].prev = IF i = 1 THEN cache.actual ELSE feed[i - 1].actual
        /\ source = Firestore
    <3>1. /\ feed[i].actual.content = cache.actual.content + i
          /\ feed[i].prev = IF i = 1 THEN cache.actual ELSE feed[i - 1].actual
          /\ source = Isolated => feed = <<>>
      BY DEF IInv, KeyChain
    <3>2. Len(feed) # 0
      BY <1>0
    <3>3. source # Isolated
      BY <3>1, <3>2
    <3>4. source \in {Firestore, Isolated}
      BY ClockIsSane DEF IInv, TypeOK
    <3> QED BY <3>1, <3>3, <3>4
  <2>2. ASSUME i # 1 PROVE feed[i - 1].actual.content = cache.actual.content + (i - 1)
    BY <1>0, <2>2 DEF IInv, KeyChain
  <2> QED BY <1>0, <1>1, <2>1, <2>2 DEF NewKey
<1>2. CASE CacheSnapshot
  BY <1>1, <1>2 DEF CacheSnapshot
<1>3. CASE Restart
  <2>1. now' = now /\ tokens' = tokens
    BY <1>3 DEF Restart
  <2>2. CASE source = Firestore
    <3>1. PICK i \in 0..Len(feed) : cache' = (<<cache>> \o feed)[i + 1]
      BY <1>3, <2>2 DEF Restart, Firestore, Isolated
    <3>2. /\ (<<cache>> \o feed)[1] = cache
          /\ \A x \in 1..Len(feed) : (<<cache>> \o feed)[x + 1] = feed[x]
      BY DEF IInv, TypeOK
    <3>3. i \in 1..Len(feed) /\ cache' = feed[i]
      BY <1>0, <3>1, <3>2
    <3> QED BY <1>1, <2>1, <3>3
  <2>3. CASE source # Firestore
    BY <1>0, <1>3, <2>1, <2>3 DEF Restart, FirstKey, NewKey
  <2> QED BY <2>2, <2>3
<1> QED BY <1>2, <1>3 DEF Next, Tick, Rotate, ReadKey, Sign, Discard, vars

\* The action inside RejectedStaysRejected.
KeepsRejected == \A t \in tokens \cap tokens' : ~Accepted(cache, t) => ~Accepted(cache, t)'

\* A token is as old as its key: no later key is the one it was signed with, and
\* as the previous key the cached one accepts nothing new.
LEMMA RejectedStep ==
  ASSUME IInv, [Next]_vars
  PROVE  KeepsRejected
<1> SUFFICES ASSUME NEW t \in tokens, Accepted(cache, t)'
             PROVE  Accepted(cache, t)
  BY DEF KeepsRejected
<1>0. /\ t.content \in 1..cache.actual.content /\ cache.actual.content \in Nat
      /\ t.content = cache.actual.content => Second(cache.actual.buildedAt) <= t.iat
  BY DEF IInv, TokensFollowTheirKeys, TypeOK, Key, Node
<1>1. Alive(t)
  <2>1. kind' = kind /\ now \in Nat /\ now' \in Nat /\ now <= now'
    BY DEF Next, Tick, Rotate, CacheSnapshot, Restart, ReadKey, Sign, Discard, vars, Setup,
           IInv, TypeOK
  <2>2. Second(now) \in Nat /\ Second(now') \in Nat /\ Second(now) <= Second(now')
    BY <2>1, SecondsAreOrdered
  <2>3. Second(now)' = Second(now')
    BY DEF Second
  <2>4. t.exp \in Nat /\ Millis \in Nat
    BY ClockIsSane DEF IInv, TypeOK, Token
  <2>5. t.exp * Millis \in Nat
    BY <2>4
  <2> QED BY <2>1, <2>2, <2>3, <2>4, <2>5 DEF Accepted, Alive
<1>2. BySigner(cache, t) \/ ByDeprecatedSigner(cache, t)
  <2>1. CASE cache' = cache
    BY <2>1 DEF Accepted, BySigner, ByDeprecatedSigner, Second
  <2>2. CASE cache' # cache
    <3>1. NewKey
      BY <2>2, CacheStep
    <3>2. t.content # cache'.actual.content
      BY <1>0, <3>1 DEF NewKey
    <3>3. t.content = cache'.prev.content /\ cache'.prev # NoNode
      BY <3>2 DEF Accepted, BySigner, ByDeprecatedSigner
    <3>4. t.content = cache.actual.content
      BY <1>0, <3>1, <3>3 DEF NewKey
    <3> QED BY <1>0, <3>4 DEF BySigner
  <2> QED BY <2>1, <2>2
<1> QED BY <1>1, <1>2 DEF Accepted

\* A rejected token or code is never accepted again.
THEOREM RejectedHolds == Spec => RejectedStaysRejected
<1>1. IInv /\ [Next]_vars => [KeepsRejected]_vars
  BY RejectedStep
<1> QED BY <1>1, Invariance, PTL DEF Spec, RejectedStaysRejected, KeepsRejected

\* The action inside SignedWithCurrentKeyOrDead.
SignsForCache ==
    \A t \in tokens' \ tokens : Alive(t) => (Accepted(cache, t) <=> t.content = cache.actual.content)

\* A token is issued now, when the cached key already exists.
LEMMA SignedStep ==
  ASSUME IInv, [Next]_vars
  PROVE  SignsForCache
<1> SUFFICES ASSUME NEW t \in tokens' \ tokens, Alive(t)
             PROVE  Accepted(cache, t) <=> t.content = cache.actual.content
  BY DEF SignsForCache
<1>1. PICK r \in Request : Sign(r)
  BY DEF Next, Tick, Rotate, CacheSnapshot, Restart, ReadKey, Discard, vars
<1>2. t = SignedWith(signing[r])
  BY <1>1 DEF Sign
<1>3. t.iat = Second(now)
  BY <1>2 DEF SignedWith
<1>4. /\ Second(cache.actual.buildedAt) <= Second(now)
      /\ Second(cache.actual.buildedAt) \in Nat /\ Second(now) \in Nat
  BY SecondsAreOrdered DEF IInv, KeyChain, TypeOK, Key, Node
<1> QED BY <1>3, <1>4 DEF Accepted, BySigner, ByDeprecatedSigner

\* What a request signs works at once if and only if the request held the key
\* that is cached.
THEOREM SignedHolds == Spec => SignedWithCurrentKeyOrDead
<1>1. IInv /\ [Next]_vars => [SignsForCache]_vars
  BY SignedStep
<1> QED BY <1>1, Invariance, PTL DEF Spec, SignedWithCurrentKeyOrDead, SignsForCache

\* The action inside RestartEndsSessions.
EndsSessions ==
    source = Isolated /\ cache' # cache => \A t \in tokens : ~Accepted(cache, t)'

\* A new process has a new key and no previous one.
LEMMA RestartStep ==
  ASSUME IInv, [Next]_vars
  PROVE  EndsSessions
<1> SUFFICES ASSUME source = Isolated, cache' # cache, NEW t \in tokens
             PROVE  ~Accepted(cache, t)'
  BY DEF EndsSessions
<1>1. t.content \in 1..cache.actual.content /\ cache.actual.content \in Nat
  BY DEF IInv, TokensFollowTheirKeys, TypeOK, Key, Node
<1>2. cache'.prev = NoNode /\ cache'.actual.content > cache.actual.content
  BY CacheStep DEF NewKey, Firestore, Isolated
<1> QED BY <1>1, <1>2 DEF Accepted, BySigner, ByDeprecatedSigner

\* Without Firestore a restart ends every session and voids every code.
THEOREM RestartHolds == Spec => RestartEndsSessions
<1>1. IInv /\ [Next]_vars => [EndsSessions]_vars
  BY RestartStep
<1> QED BY <1>1, Invariance, PTL DEF Spec, RestartEndsSessions, EndsSessions
=============================================================================
