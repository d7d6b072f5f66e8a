------------------------------- MODULE KeySync -------------------------------
(***************************************************************************)
(* FirestoreKey: before the server listens, every signing key is fetched   *)
(* from the collection "secrets" and a listener is put on its document; a  *)
(* document that is missing or malformed ends the process, by reporting    *)
(* the error first and sending itself SIGTERM when that is done.           *)
(*                                                                         *)
(* Only a missing document makes the start-up wait for that.  After a      *)
(* malformed one the code goes on with what the parser's error callback    *)
(* returned, a promise, and caches a key without content.                  *)
(*                                                                         *)
(* A document is 0 when it is missing, n when it is the n-th one written   *)
(* and -n when that one is malformed.  The cache holds, for each key, 0    *)
(* for nothing, or the document; a negative one is a key without content.  *)
(* SigningKeys follows one key of a server that is running.                *)
(***************************************************************************)
EXTENDS Integers, Sequences

CONSTANTS
    signatures,  \* the names of the keys, in the order they are fetched
    MaxWrites    \* bound: documents written

Name == {signatures[i] : i \in DOMAIN signatures}

ASSUME SignaturesAreApart ==
    /\ signatures \in Seq(Name) /\ MaxWrites \in Nat \ {0}
    /\ \A i, j \in DOMAIN signatures : signatures[i] = signatures[j] => i = j

VARIABLES
    docs,       \* name -> document
    writes,     \* documents written so far
    position,   \* the key the start-up is at; past the last, the server listens
    stage,      \* of the start-up, for that key: "get", "got" or "await"
    fetched,    \* what the get returned
    listeners,  \* names with a listener
    unread,     \* those of them that have a snapshot to report
    cache,      \* name -> what is cached
    fatal       \* "none", "reporting" or "killed": execAsFatalError

store   == <<docs, writes>>
startUp == <<position, stage, fetched, listeners>>
vars    == <<store, startUp, unread, cache, fatal>>

Serving == position > Len(signatures)

\* A new process has nothing cached: the cache is in its memory.
Init ==
    /\ docs \in [Name -> {-1, 0, 1}] /\ writes = 1
    /\ position = 1 /\ stage = "get" /\ fetched = 0
    /\ listeners = {} /\ unread = {}
    /\ cache = [n \in Name |-> 0]
    /\ fatal = "none"

\* The key function, or an operator, writes a document or deletes it.
WriteDoc(n) ==
    /\ writes < MaxWrites
    /\ writes' = writes + 1
    /\ docs' \in {[docs EXCEPT ![n] = d] : d \in {-writes', 0, writes'}}
    /\ unread' = unread \cup ({n} \cap listeners)
    /\ UNCHANGED <<startUp, cache, fatal>>

\* execAsFatalError: the first report that is done kills the process.
ExecAsFatalError == fatal' = IF fatal = "none" THEN "reporting" ELSE fatal

\* getAndCache.  Two slips: a malformed document is only logged, a missing one
\* is passed over.
GetAndCache_Mut(n, doc) ==
    /\ IF doc = 0 THEN ExecAsFatalError ELSE UNCHANGED fatal
    /\ cache' = IF doc = 0 THEN cache ELSE [cache EXCEPT ![n] = doc]

GetAndCache_Mut2(n, doc) ==
    /\ IF doc < 0 THEN ExecAsFatalError ELSE UNCHANGED fatal
    /\ cache' = IF doc = 0 THEN cache ELSE [cache EXCEPT ![n] = doc]

GetAndCache(n, doc) ==
    /\ IF doc <= 0 THEN ExecAsFatalError ELSE UNCHANGED fatal
    /\ cache' = IF doc = 0 THEN cache ELSE [cache EXCEPT ![n] = doc]

-----------------------------------------------------------------------------
(* watchSignatures, for the key the start-up is at.                        *)

\* The slip listens before the result of the get is cached.
Fetch_Mut ==
    /\ ~Serving /\ stage = "get"
    /\ fetched' = docs[signatures[position]]
    /\ stage' = "got"
    /\ listeners' = listeners \cup {signatures[position]}
    /\ unread' = unread \cup {signatures[position]}
    /\ UNCHANGED <<store, position, cache, fatal>>

Fetch ==
    /\ ~Serving /\ stage = "get"
    /\ fetched' = docs[signatures[position]]
    /\ stage' = "got"
    /\ UNCHANGED <<store, position, listeners, unread, cache, fatal>>

\* The listener will report the document as it is now, first of all.  The slip
\* trusts what was fetched and waits for the next change.
Listen_Mut ==
    /\ listeners' = listeners \cup {signatures[position]}
    /\ position' = position + 1
    /\ stage' = "get"
    /\ UNCHANGED unread

Listen ==
    /\ listeners' = listeners \cup {signatures[position]}
    /\ unread' = unread \cup {signatures[position]}
    /\ position' = position + 1
    /\ stage' = "get"

CacheFetched ==
    /\ ~Serving /\ stage = "got"
    /\ GetAndCache(signatures[position], fetched)
    /\ IF fetched = 0 THEN stage' = "await" /\ UNCHANGED <<position, listeners, unread>>
                      ELSE Listen
    /\ UNCHANGED <<store, fetched>>

\* The SIGTERM is sent, the promise is resolved: the start-up goes on until the
\* signal is handled.
Resume ==
    /\ ~Serving /\ stage = "await" /\ fatal = "killed"
    /\ Listen
    /\ UNCHANGED <<store, fetched, cache, fatal>>

-----------------------------------------------------------------------------

\* The slip stops listening after the first snapshot.
Snapshot_Mut(n) ==
    /\ n \in unread
    /\ unread' = unread \ {n}
    /\ listeners' = listeners \ {n}
    /\ GetAndCache(n, docs[n])
    /\ UNCHANGED <<store, position, stage, fetched>>

\* onSnapshot; documents written in quick succession may come as one snapshot.
Snapshot(n) ==
    /\ n \in unread
    /\ unread' = unread \ {n}
    /\ GetAndCache(n, docs[n])
    /\ UNCHANGED <<store, startUp>>

\* The report is sent, or there is no reporter: its callback kills the process.
Report ==
    /\ fatal = "reporting"
    /\ fatal' = "killed"
    /\ UNCHANGED <<store, startUp, unread, cache>>

\* The handler of SIGTERM ends the process and App Engine starts another.
Restart ==
    /\ fatal = "killed"
    /\ position' = 1 /\ stage' = "get" /\ fetched' = 0
    /\ listeners' = {} /\ unread' = {}
    /\ cache' = [n \in Name |-> 0]
    /\ fatal' = "none"
    /\ UNCHANGED store

Next ==
    \/ \E n \in Name : WriteDoc(n) \/ Snapshot(n)
    \/ Fetch \/ CacheFetched \/ Resume
    \/ Report \/ Restart

\* Gets and reports are answered, listeners report, signals are handled and
\* the process is started again.
Fairness ==
    /\ WF_vars(Fetch \/ CacheFetched)
    /\ \A n \in Name : WF_vars(Snapshot(n))
    /\ WF_vars(Report) /\ WF_vars(Restart)

Spec == Init /\ [][Next]_vars /\ Fairness

-----------------------------------------------------------------------------

TypeOK ==
    /\ docs \in [Name -> -MaxWrites..MaxWrites] /\ writes \in 1..MaxWrites
    /\ position \in 1..Len(signatures) + 1
    /\ stage \in {"get", "got", "await"} /\ fetched \in -MaxWrites..MaxWrites
    /\ unread \subseteq listeners
    /\ listeners = {signatures[i] : i \in 1..position - 1}
    /\ cache \in [Name -> -MaxWrites..MaxWrites]
    /\ fatal \in {"none", "reporting", "killed"}

\* A server that answers requests has all its keys, with their content: when
\* it lacks one it is already on its way out.
KeysBeforeRequests ==
    fatal = "none" =>
        \A n \in Name : cache[n] >= 0 /\ (Serving => cache[n] > 0)

\* A listener that has nothing left to report has cached its document as it is,
\* and if that is broken the exit has begun: no write is lost between the get of
\* the start-up and the first snapshot, nor between two snapshots.
NoWriteIsMissed ==
    \A n \in listeners \ unread :
        /\ docs[n] # 0 => cache[n] = docs[n]
        /\ docs[n] <= 0 => fatal # "none"

\* While a process runs, a key in its cache is never replaced by an older one:
\* what the start-up fetched cannot overwrite what a listener brought.
CacheNeverGoesBack ==
    [][\A n \in Name : cache[n] > 0 /\ cache'[n] > 0 => cache[n] <= cache'[n]]_vars

\* A server does not outlive a broken document: it ends, unless the document
\* is repaired first.
BrokenDocumentEndsServer ==
    \A n \in Name : (Serving /\ docs[n] <= 0) ~> (~Serving \/ docs[n] > 0)

\* Once all the documents are sound for good, the server comes up, stays up
\* and signs with them, however it was broken before.
RepairedDocumentsServe ==
    <>[](\A n \in Name : docs[n] > 0) => <>[](Serving /\ cache = docs)
=============================================================================
