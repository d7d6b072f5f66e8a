----------------------------- MODULE SigningKeys -----------------------------
(***************************************************************************)
(* The life of one signing key and of what is signed with it: the tokens   *)
(* of the login flow and the two-factor codes.  The key is rotated outside *)
(* this program, in Firestore; a listener copies every rotation, some time *)
(* later, into the cache that the one API instance signs and validates     *)
(* with.  With the isolated repository there is no rotation: the key is    *)
(* random and lives in memory only.                                        *)
(*                                                                         *)
(* Time is in milliseconds in the keys and in seconds in the tokens; that  *)
(* rounding decides which of two keys a token is checked against.          *)
(***************************************************************************)
EXTENDS Integers, FiniteSets, Sequences

CONSTANTS
    Request,    \* requests that sign something, each at most one at a time
    Sources,    \* where the key may live: Firestore, Isolated
    Kinds,      \* what may be signed with it: Jwt, Code
    Millis,     \* milliseconds per second (1000)
    Ttl,        \* lifetime of a token in ms, as Firestore has it for the key
    CodeLife,   \* lifetime of a two-factor code in ms (3 h, whatever the key)
    Month,      \* 30 days in ms
    MaxTime,    \* bound: the last instant
    MaxKeys,    \* bound: keys ever made
    MaxTokens   \* bound: tokens in the hands of clients

Firestore == "firestore"
Isolated  == "isolated"
Jwt       == "jwt"
Code      == "code"

\* Absent values: no previous key, and a request that is signing nothing.
NoNode == [content |-> 0, buildedAt |-> 0]
NoKey  == [actual |-> NoNode, prev |-> NoNode, ttl |-> 0]

ASSUME ClockIsSane ==
    /\ Millis \in Nat \ {0}
    /\ {Ttl, CodeLife, Month, MaxTime, MaxKeys, MaxTokens} \subseteq Nat
    /\ Sources \subseteq {Firestore, Isolated} /\ Kinds \subseteq {Jwt, Code}

VARIABLES
    source,     \* where this deployment has the key; never changes
    kind,       \* what this key signs; never changes
    now,        \* Date.now()
    cache,      \* the cached key
    feed,       \* rotations made and not yet in the cache, oldest first
    signing,    \* request -> the key it has read and not yet signed with
    tokens      \* signed tokens and codes, in the hands of clients

vars == <<source, kind, now, cache, feed, signing, tokens>>

Setup == <<source, kind>>

Node  == [content : Nat, buildedAt : Nat]
Key   == [actual : Node, prev : Node, ttl : Nat]
Token == [content : Nat, iat : Nat, exp : Nat]

Newest == IF feed = <<>> THEN cache ELSE feed[Len(feed)]

\* The first key: made by the key function when the system is set up, or by
\* the isolated repository when the process starts.  The slip is a constant
\* instead of random bytes.
FirstKey_Mut(n, t) ==
    [actual |-> [content |-> 1, buildedAt |-> t], prev |-> NoNode,
     ttl |-> IF source = Firestore THEN Ttl ELSE t + Month]

FirstKey(n, t) ==
    [actual |-> [content |-> n, buildedAt |-> t], prev |-> NoNode,
     ttl |-> IF source = Firestore THEN Ttl ELSE t + Month]

Init ==
    /\ source \in Sources /\ kind \in Kinds
    /\ now = 0
    /\ cache = FirstKey(1, 0)
    /\ feed = <<>>
    /\ signing = [r \in Request |-> NoKey]
    /\ tokens = {}

-----------------------------------------------------------------------------
(* Signing and validating.                                                 *)

Second(t) == t \div Millis

\* jwtService.signAsync, and the metadata of a two-factor code.
SignedWith_Mut(k) ==
    [content |-> k.actual.content, iat |-> Second(k.actual.buildedAt),
     exp |-> Second(now) + (k.ttl \div Millis)]

SignedWith(k) ==
    [content |-> k.actual.content, iat |-> Second(now),
     exp |-> IF kind = Jwt THEN Second(now) + (k.ttl \div Millis)
                           ELSE Second(now + CodeLife)]

\* jsonwebtoken compares seconds, the two-factor check milliseconds.
Alive(t) == IF kind = Jwt THEN Second(now) < t.exp ELSE t.exp * Millis > now

\* handleNewerSignatures: issued since the actual key exists, and signed by it.
BySigner(k, t) ==
    /\ t.iat >= Second(k.actual.buildedAt)
    /\ t.content = k.actual.content

\* handleDepreacatedSignatures: issued before, while the previous key was the
\* actual one, and signed by that.
ByDeprecatedSigner_Mut(k, t) ==
    /\ k.prev # NoNode
    /\ t.iat < Second(k.actual.buildedAt)
    /\ Second(k.prev.buildedAt) < t.iat
    /\ t.content = k.prev.content

ByDeprecatedSigner(k, t) ==
    /\ k.prev # NoNode
    /\ t.iat < Second(k.actual.buildedAt)
    /\ Second(k.prev.buildedAt) <= t.iat
    /\ t.content = k.prev.content

\* ValidateTokenService.exec and ValidateTFAService.exec.
Accepted(k, t) == Alive(t) /\ (BySigner(k, t) \/ ByDeprecatedSigner(k, t))

-----------------------------------------------------------------------------
(* Steps.                                                                  *)

Tick ==
    /\ now < MaxTime
    /\ now' = now + 1
    /\ UNCHANGED <<Setup, cache, feed, signing, tokens>>

\* The key function, outside this program, replaces the key in Firestore.
Rotate ==
    /\ source = Firestore /\ Newest.actual.content < MaxKeys
    /\ feed' = Append(feed,
         [actual |-> [content |-> Newest.actual.content + 1, buildedAt |-> now],
          prev |-> Newest.actual, ttl |-> Ttl])
    /\ UNCHANGED <<Setup, now, cache, signing, tokens>>

\* The listener caches a snapshot; rotations in quick succession may come as
\* one snapshot.  Two slips: snapshots applied out of order, and a listener
\* that ends after its first snapshot.
CacheSnapshot_Mut ==
    /\ \E i \in 1..Len(feed) :
          /\ cache' = feed[i]
          /\ feed' = SubSeq(feed, 1, i - 1) \o SubSeq(feed, i + 1, Len(feed))
    /\ UNCHANGED <<Setup, now, signing, tokens>>

CacheSnapshot_Mut2 ==
    /\ feed # <<>>
    /\ cache' = IF cache.prev = NoNode THEN feed[1] ELSE cache
    /\ feed' = Tail(feed)
    /\ UNCHANGED <<Setup, now, signing, tokens>>

CacheSnapshot ==
    /\ \E i \in 1..Len(feed) : cache' = feed[i] /\ feed' = SubSeq(feed, i + 1, Len(feed))
    /\ UNCHANGED <<Setup, now, signing, tokens>>

\* The process restarts: requests are lost, the cache is filled anew from the
\* document as it is by then, or with a new random key.
Restart ==
    /\ signing' = [r \in Request |-> NoKey]
    /\ \/ /\ source = Firestore
          /\ \E i \in 0..Len(feed) :
                /\ cache' = (<<cache>> \o feed)[i + 1]
                /\ feed' = SubSeq(feed, i + 1, Len(feed))
       \/ /\ source = Isolated /\ cache.actual.content < MaxKeys
          /\ cache' = FirstKey(cache.actual.content + 1, now)
          /\ UNCHANGED feed
    /\ UNCHANGED <<Setup, now, tokens>>

\* CreateTokenService.exec and GenTFAService.exec read the key, wait, and sign
\* with what they read.
ReadKey(r) ==
    /\ signing[r] = NoKey
    /\ signing' = [signing EXCEPT ![r] = cache]
    /\ UNCHANGED <<Setup, now, cache, feed, tokens>>

Sign(r) ==
    /\ signing[r] # NoKey /\ MaxTokens > Cardinality(tokens)
    /\ tokens' = tokens \cup {SignedWith(signing[r])}
    /\ signing' = [signing EXCEPT ![r] = NoKey]
    /\ UNCHANGED <<Setup, now, cache, feed>>

\* A client throws a token away (it expired, or the user left).
Discard(t) ==
    /\ tokens' = tokens \ {t}
    /\ UNCHANGED <<Setup, now, cache, feed, signing>>

Next ==
    \/ Tick
    \/ Rotate
    \/ CacheSnapshot
    \/ Restart
    \/ \E r \in Request : ReadKey(r) \/ Sign(r)
    \/ \E t \in tokens : Discard(t)

\* Firestore promises its listeners the last state of a document, eventually.
Spec == Init /\ [][Next]_vars /\ WF_vars(CacheSnapshot)

-----------------------------------------------------------------------------

\* Keys and tokens are well formed.
TypeOK ==
    /\ source \in Sources /\ kind \in Kinds
    /\ now \in Nat
    /\ cache \in Key
    /\ feed \in Seq(Key)
    /\ signing \in [Request -> Key]
    /\ tokens \subseteq Token

\* One rotation logs nobody out: whatever was signed by the cached key, or by
\* the one before it in a second before the rotation, is accepted until it
\* expires, although the validator guesses the key from times rounded to
\* seconds.
OneRotationLogsNobodyOut ==
    \A t \in tokens :
        /\ Alive(t)
        /\ \/ t.content = cache.actual.content
           \/ t.content = cache.prev.content /\ t.iat < Second(cache.actual.buildedAt)
        => Accepted(cache, t)

\* Nothing that was rejected is ever accepted later: not when time passes, not
\* when a rotation arrives and not after a restart.
RejectedStaysRejected ==
    [][\A t \in tokens \cap tokens' : ~Accepted(cache, t) => ~Accepted(cache, t)']_vars

\* What a request signs works at once unless a rotation was cached while the
\* request held the older key; then it never works.
SignedWithCurrentKeyOrDead ==
    [][\A t \in tokens' \ tokens :
          Alive(t) => (Accepted(cache, t) <=> t.content = cache.actual.content)]_vars

\* The cache catches up with every rotation.
CacheCatchesUp ==
    \A n \in 1..MaxKeys : Newest.actual.content = n ~> cache.actual.content >= n

\* Without Firestore a restart ends every session: no token or code signed
\* before it is accepted after it, however short the restart took.
RestartEndsSessions ==
    [][source = Isolated /\ cache' # cache => \A t \in tokens : ~Accepted(cache, t)']_vars
=============================================================================
