------------------------------ MODULE TagCache ------------------------------
(***************************************************************************)
(* The tagged response cache: the lookup and the fill in the route adapter *)
(* (src/src/binding.gb), the tag index and the tag generations             *)
(* (src/src/cache.gb).  Requests of several processes share one cache      *)
(* store; a response is stamped with the generation each of its tags had   *)
(* before the handler ran, and an entry whose stamp is out of date is a    *)
(* miss.                                                                   *)
(*                                                                         *)
(* Every read or write of the store, of the index or of a generation is an *)
(* action.  Each tag stands for some data with a version number, and the   *)
(* response of a key shows the versions of the tags it carries.            *)
(***************************************************************************)
EXTENDS Naturals, Sequences, FiniteSets

CONSTANTS
  Procs,        \* instances of the application
  Shared,       \* where tag state lives when the store provides it
  Keys, Tags,
  TagsOf,       \* the resolved tags of each key
  Readers,      \* requests to cached routes
  Writers,      \* requests that write data and call cacheInvalidate
  Home,         \* the instance that serves each of them
  NoEntry,
  SharedTags,   \* does the store answer supportsTags()?
  Persistent,   \* does the store survive the process?
  MaxRecorded,  \* keys an instance keeps under a tag: 512 in the code
  MaxVersion,   \* bound on the writes to each tag's data
  MaxRestarts   \* bound on restarts of an instance

ASSUME TagCacheAssumption ==
  /\ TagsOf \in [Keys -> SUBSET Tags]
  /\ Home \in [Readers \cup Writers -> Procs]
  /\ Readers \cap Writers = {} /\ Shared \notin Procs
  /\ SharedTags \in BOOLEAN /\ Persistent \in BOOLEAN
  /\ IsFiniteSet(Keys) /\ MaxRecorded \in Nat \ {0}
  /\ MaxVersion \in Nat /\ MaxRestarts \in Nat

VARIABLES
  data,         \* the version of the data behind each tag
  settled,      \* the latest version whose invalidation has taken effect
  gen,          \* the generation of each tag, per instance or shared
  index,        \* the list of keys recorded under each tag, the oldest first
  store,        \* the cache store
  pc, key, todo, stamp, got, shown,   \* a request to a cached route
  since,        \* what was settled when it arrived
  wpc, tag, wrote, doomed,            \* a request that invalidates
  restarts,
  \* a history variable, which no guard reads
  dropped       \* the keys cut off the list of a tag and not recorded there since

reader == <<pc, key, todo, stamp, got, shown, since>>
writer == <<wpc, tag, wrote, doomed>>
recorded == <<index, dropped>>
vars   == <<data, settled, gen, recorded, store, reader, writer, restarts>>

\* Bug: every instance keeps tag state of its own.
SideLocal(p) == p

Side(p) == IF SharedTags THEN Shared ELSE p
Sides == Procs \cup {Shared}

Zero == [t \in Tags |-> 0]
Blank == [value |-> Zero, stamp |-> Zero]

Init ==
  /\ data = Zero /\ settled = Zero
  /\ gen = [s \in Sides |-> Zero]
  /\ index = [s \in Sides |-> [t \in Tags |-> <<>>]]
  /\ store = [k \in Keys |-> NoEntry]
  /\ pc = [r \in Readers |-> "idle"]
  /\ key \in [Readers -> Keys]
  /\ todo = [r \in Readers |-> {}]
  /\ stamp = [r \in Readers |-> Zero]
  /\ got = [r \in Readers |-> NoEntry]
  /\ shown = [r \in Readers |-> Zero]
  /\ since = [r \in Readers |-> Zero]
  /\ wpc = [w \in Writers |-> "idle"]
  /\ tag \in [Writers -> Tags]
  /\ wrote = [w \in Writers |-> 0]
  /\ doomed = [w \in Writers |-> <<>>]
  /\ restarts = 0 /\ dropped = {}

-----------------------------------------------------------------------------
(* A request to a cached route.                                            *)

Goto(r, from, to) == pc[r] = from /\ pc' = [pc EXCEPT ![r] = to]

\* One tag of the list at a time; the last one leads on.
Turn(r, t, from, to) ==
  /\ t \in todo[r]
  /\ Goto(r, from, IF todo[r] = {t} THEN to ELSE from)
  /\ todo' = [todo EXCEPT ![r] = @ \ {t}]

Arrive(r, k) ==
  /\ Goto(r, "idle", IF TagsOf[k] = {} THEN "get" ELSE "capture")
  /\ key'   = [key EXCEPT ![r] = k]
  /\ todo'  = [todo EXCEPT ![r] = TagsOf[k]]
  /\ since' = [since EXCEPT ![r] = settled]
  /\ UNCHANGED <<data, settled, gen, recorded, store, stamp, got, shown, writer, restarts>>

\* Bug: a tag that was never invalidated has no generation.
CurrentTagGenUnset(r, t) ==
  IF gen[Side(Home[r])][t] = 0 THEN NoEntry ELSE gen[Side(Home[r])][t]

CurrentTagGen(r, t) == gen[Side(Home[r])][t]

Capture(r, t) ==
  /\ Turn(r, t, "capture", "get")
  /\ stamp' = [stamp EXCEPT ![r][t] = CurrentTagGen(r, t)]
  /\ UNCHANGED <<data, settled, gen, recorded, store, key, got, shown, since, writer, restarts>>

Get(r) ==
  /\ Goto(r, "get", IF store[key[r]] = NoEntry THEN "compute"
                    ELSE IF TagsOf[key[r]] = {} THEN "hit" ELSE "check")
  /\ got'  = [got EXCEPT ![r] = store[key[r]]]
  /\ todo' = [todo EXCEPT ![r] = TagsOf[key[r]]]
  /\ UNCHANGED <<data, settled, gen, recorded, store, key, stamp, shown, since, writer, restarts>>

UpToDate(r, t) == got[r].stamp[t] = CurrentTagGen(r, t)

\* openEnvelope: compare the stamp tag by tag.
Check(r, t) ==
  /\ Turn(r, t, "check", "hit")
  /\ UpToDate(r, t)
  /\ UNCHANGED <<data, settled, gen, recorded, store, key, stamp, got, shown, since, writer, restarts>>

Reject(r, t) ==
  /\ Goto(r, "check", "compute")
  /\ t \in todo[r]
  /\ ~UpToDate(r, t)
  /\ UNCHANGED <<data, settled, gen, recorded, store, key, todo, stamp, got, shown, since, writer, restarts>>

Hit(r) ==
  /\ Goto(r, "hit", "reply")
  /\ shown' = [shown EXCEPT ![r] = got[r].value]
  /\ UNCHANGED <<data, settled, gen, recorded, store, key, todo, stamp, got, since, writer, restarts>>

\* The handler reads the data; an error or a cookie keeps its response out of
\* the cache.
Compute(r) ==
  /\ \E to \in {"store", "reply"} : Goto(r, "compute", to)
  /\ shown' = [shown EXCEPT ![r] = data]
  /\ UNCHANGED <<data, settled, gen, recorded, store, key, todo, stamp, got, since, writer, restarts>>

Store(r) ==
  /\ Goto(r, "store", IF TagsOf[key[r]] = {} THEN "reply" ELSE "index")
  /\ store' = [store EXCEPT ![key[r]] = [value |-> shown[r], stamp |-> stamp[r]]]
  /\ todo'  = [todo EXCEPT ![r] = TagsOf[key[r]]]
  /\ UNCHANGED <<data, settled, gen, recorded, key, stamp, got, shown, since, writer, restarts>>

Has(list, k) == \E i \in 1 .. Len(list) : list[i] = k

\* A key that is recorded already keeps its place.
With(list, k) == IF Has(list, k) THEN list ELSE Append(list, k)

\* An instance keeps the latest MaxRecorded keys; a store with shared tags keeps
\* them all (addTagKey).
Bounded(s, list) ==
  IF s # Shared /\ Len(list) > MaxRecorded
  THEN SubSeq(list, Len(list) - MaxRecorded + 1, Len(list))
  ELSE list

\* indexTags
Index(r, t) ==
  LET s    == Side(Home[r])
      next == With(index[s][t], key[r])
  IN
  /\ Turn(r, t, "index", "reply")
  /\ index' = [index EXCEPT ![s][t] = Bounded(s, next)]
  /\ dropped' = (dropped \ {<<key[r], t>>})
                  \cup {<<k, t>> : k \in {k \in Keys : Has(next, k) /\ ~Has(Bounded(s, next), k)}}
  /\ UNCHANGED <<data, settled, gen, store, key, stamp, got, shown, since, writer, restarts>>

Forget(R) ==
  /\ pc'    = [r \in Readers |-> IF r \in R THEN "idle" ELSE pc[r]]
  /\ todo'  = [r \in Readers |-> IF r \in R THEN {} ELSE todo[r]]
  /\ stamp' = [r \in Readers |-> IF r \in R THEN Zero ELSE stamp[r]]
  /\ got'   = [r \in Readers |-> IF r \in R THEN NoEntry ELSE got[r]]
  /\ shown' = [r \in Readers |-> IF r \in R THEN Zero ELSE shown[r]]
  /\ since' = [r \in Readers |-> IF r \in R THEN Zero ELSE since[r]]

Reply(r) ==
  /\ pc[r] = "reply"
  /\ Forget({r})
  /\ UNCHANGED <<data, settled, gen, recorded, store, key, writer, restarts>>

-----------------------------------------------------------------------------
(* cacheInvalidate, after the data has been written.                       *)

Later(a, b) == IF a > b THEN a ELSE b

Write(w, t) ==
  /\ wpc[w] = "idle" /\ data[t] < MaxVersion
  /\ data'  = [data EXCEPT ![t] = @ + 1]
  /\ tag'   = [tag EXCEPT ![w] = t]
  /\ wrote' = [wrote EXCEPT ![w] = data[t] + 1]
  /\ wpc'   = [wpc EXCEPT ![w] = "bump"]
  /\ UNCHANGED <<settled, gen, recorded, store, reader, doomed, restarts>>

Recorded(w) == index[Side(Home[w])][tag[w]]

\* Bug: nothing recorded under the tag, nothing to do.
BumpedIfRecorded(w) ==
  IF Recorded(w) = <<>> THEN gen
  ELSE [gen EXCEPT ![Side(Home[w])][tag[w]] = @ + 1]

Bumped(w) == [gen EXCEPT ![Side(Home[w])][tag[w]] = @ + 1]

Settle(w) == settled' = [settled EXCEPT ![tag[w]] = Later(@, wrote[w])]

Finish(w) ==
  /\ wpc'   = [wpc EXCEPT ![w] = "idle"]
  /\ wrote' = [wrote EXCEPT ![w] = 0]

\* tagIndex.incr
Bump(w) ==
  /\ ~SharedTags
  /\ wpc[w] = "bump" /\ wpc' = [wpc EXCEPT ![w] = "look"]
  /\ gen' = Bumped(w)
  /\ Settle(w)
  /\ UNCHANGED <<data, recorded, store, reader, tag, wrote, doomed, restarts>>

\* store.bumpTag: one script advances the generation and deletes the entries.
BumpShared(w) ==
  /\ SharedTags
  /\ wpc[w] = "bump"
  /\ gen' = Bumped(w)
  /\ store' = [k \in Keys |-> IF Has(Recorded(w), k) THEN NoEntry ELSE store[k]]
  /\ index' = [index EXCEPT ![Shared][tag[w]] = <<>>]
  /\ Settle(w)
  /\ Finish(w)
  /\ UNCHANGED <<data, reader, tag, doomed, restarts, dropped>>

Look(w) ==
  /\ wpc[w] = "look"
  /\ doomed' = [doomed EXCEPT ![w] = Recorded(w)]
  /\ IF Recorded(w) = <<>>
     THEN Finish(w)
     ELSE wpc' = [wpc EXCEPT ![w] = "swap"] /\ UNCHANGED wrote
  /\ UNCHANGED <<data, settled, gen, recorded, store, reader, tag, restarts>>

\* Bug: the index is emptied whatever it has become.
UnchangedIndexIgnored(w) == TRUE

UnchangedIndex(w) == Recorded(w) = doomed[w]

\* tagIndex.compareAndSet, or another turn of the loop.
Swap(w) ==
  /\ wpc[w] = "swap"
  /\ IF UnchangedIndex(w)
     THEN /\ index' = [index EXCEPT ![Side(Home[w])][tag[w]] = <<>>]
          /\ wpc' = [wpc EXCEPT ![w] = "delete"]
     ELSE wpc' = [wpc EXCEPT ![w] = "look"] /\ UNCHANGED index
  /\ UNCHANGED <<data, settled, gen, store, reader, tag, wrote, doomed, restarts, dropped>>

Delete(w) ==
  /\ wpc[w] = "delete"
  /\ store' = [store EXCEPT ![Head(doomed[w])] = NoEntry]
  /\ doomed' = [doomed EXCEPT ![w] = Tail(@)]
  /\ IF Len(doomed[w]) = 1 THEN Finish(w) ELSE UNCHANGED <<wpc, wrote>>
  /\ UNCHANGED <<data, settled, gen, recorded, reader, tag, restarts>>

-----------------------------------------------------------------------------
\* The entry expires, or the store drops it.
Evict(k) ==
  /\ store[k] # NoEntry
  /\ store' = [store EXCEPT ![k] = NoEntry]
  /\ UNCHANGED <<data, settled, gen, recorded, reader, writer, restarts>>

\* An instance restarts: its requests, its index and its generations are gone.
Restart(p) ==
  /\ restarts < MaxRestarts
  /\ restarts' = restarts + 1
  /\ gen'   = [gen EXCEPT ![p] = Zero]
  /\ index' = [index EXCEPT ![p] = [t \in Tags |-> <<>>]]
  /\ store' = IF Persistent THEN store ELSE [k \in Keys |-> NoEntry]
  /\ Forget({r \in Readers : Home[r] = p})
  /\ wpc'   = [w \in Writers |-> IF Home[w] = p THEN "idle" ELSE wpc[w]]
  /\ wrote' = [w \in Writers |-> IF Home[w] = p THEN 0 ELSE wrote[w]]
  /\ doomed' = [w \in Writers |-> IF Home[w] = p THEN <<>> ELSE doomed[w]]
  /\ UNCHANGED <<data, settled, key, tag, dropped>>

Read(r) ==
  \/ \E k \in Keys : Arrive(r, k)
  \/ \E t \in Tags : Capture(r, t) \/ Check(r, t) \/ Reject(r, t) \/ Index(r, t)
  \/ Get(r) \/ Hit(r) \/ Compute(r) \/ Store(r) \/ Reply(r)

Invalidate(w) ==
  \/ \E t \in Tags : Write(w, t)
  \/ Bump(w) \/ BumpShared(w) \/ Look(w) \/ Swap(w) \/ Delete(w)

Next ==
  \/ \E r \in Readers : Read(r)
  \/ \E w \in Writers : Invalidate(w)
  \/ \E k \in Keys : Evict(k)
  \/ \E p \in Procs : Restart(p)

Spec == Init /\ [][Next]_vars

-----------------------------------------------------------------------------
(* Properties.                                                             *)

Versions == [Tags -> Nat]
Entry == [value : Versions, stamp : Versions]
PC == {"idle", "capture", "get", "check", "hit", "compute", "store", "index", "reply"}
WPC == {"idle", "bump", "look", "swap", "delete"}

\* The type of the state; an instance never keeps more keys under a tag than the
\* cap (the test tagIndexBoundedWhenLarge).
TypeOK ==
  /\ data \in Versions /\ settled \in Versions
  /\ gen \in [Sides -> Versions]
  /\ index \in [Sides -> [Tags -> Seq(Keys)]]
  /\ \A p \in Procs, t \in Tags : Len(index[p][t]) <= MaxRecorded
  /\ store \in [Keys -> Entry \cup {NoEntry}]
  /\ pc \in [Readers -> PC] /\ key \in [Readers -> Keys]
  /\ todo \in [Readers -> SUBSET Tags]
  /\ stamp \in [Readers -> Versions]
  /\ got \in [Readers -> Entry \cup {NoEntry}]
  /\ shown \in [Readers -> Versions] /\ since \in [Readers -> Versions]
  /\ wpc \in [Writers -> WPC] /\ tag \in [Writers -> Tags]
  /\ wrote \in [Writers -> Nat]
  /\ doomed \in [Writers -> Seq(Keys)]
  /\ restarts \in 0 .. MaxRestarts
  /\ dropped \subseteq Keys \X Tags

\* A response is never older than an invalidation that had taken effect when
\* the request arrived, on whichever instance: whether it comes from the
\* handler or from the store.
NeverStale ==
  \A r \in Readers :
    pc[r] = "reply" => \A t \in TagsOf[key[r]] : shown[r][t] >= since[r][t]

\* More keys carry the tag than an instance keeps.
Crowded(t) == Cardinality({k \in Keys : t \in TagsOf[k]}) > MaxRecorded

\* An entry in the store is recorded under each of its tags, about to be
\* recorded, or about to be deleted: cache.gb, "never orphaning an entry in the
\* store".  The one exception is a key that the cap has cut off the list of a tag
\* that more keys carry than an instance keeps: no invalidation of that tag
\* deletes its entry any more, and only the generation keeps it from being served.
NoOrphan ==
  \A k \in Keys : store[k] # NoEntry =>
    \A t \in TagsOf[k] :
      \/ \E s \in Sides : Has(index[s][t], k)
      \/ \E r \in Readers : pc[r] = "index" /\ key[r] = k /\ t \in todo[r]
      \/ \E w \in Writers : wpc[w] = "delete" /\ tag[w] = t /\ Has(doomed[w], k)
      \/ <<k, t>> \in dropped /\ Crowded(t)
=============================================================================
