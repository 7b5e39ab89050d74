-------------------------- MODULE TagCache_proofs --------------------------
(***************************************************************************)
(* Proof that a tagged response is never stale, for any number of tags,    *)
(* keys and requests, where the state of the tags is in one place: in the  *)
(* store, or in the only instance, with a store that does not outlive it.  *)
(***************************************************************************)
EXTENDS TagCache, FiniteSetTheorems, SequenceTheorems, TLAPS

Coherent == SharedTags \/ (~Persistent /\ \E p \in Procs : Procs = {p})

\* Where the generations are.
Place == IF SharedTags THEN Shared ELSE CHOOSE p \in Procs : TRUE

Now(t) == gen[Place][t]

\* The stamp of a response is no later than the current generation; if it is
\* current, every settled invalidation of the tag is in the response.
Good(st, val, t) == st[t] <= Now(t) /\ (st[t] = Now(t) => val[t] >= settled[t])

Settled == \A t \in Tags : settled[t] <= data[t]

Wrote == \A w \in Writers : wpc[w] = "bump" => wrote[w] <= data[tag[w]]

Stored ==
  \A k \in Keys : store[k] # NoEntry =>
    \A t \in TagsOf[k] : Good(store[k].stamp, store[k].value, t)

Fetched(r) ==
  pc[r] \in {"check", "hit"} =>
    \A t \in TagsOf[key[r]] : Good(got[r].stamp, got[r].value, t)

Stamped(r) ==
  /\ pc[r] # "idle" =>
       \A t \in TagsOf[key[r]] :
         (pc[r] = "capture" /\ t \in todo[r]) \/ stamp[r][t] <= Now(t)
  /\ pc[r] = "store" =>
       \A t \in TagsOf[key[r]] : Good(stamp[r], shown[r], t)

Waited(r) ==
  /\ \A t \in Tags : since[r][t] <= settled[t]
  /\ pc[r] \in {"check", "hit"} =>
       \A t \in TagsOf[key[r]] :
         (pc[r] = "check" /\ t \in todo[r]) \/ got[r].value[t] >= since[r][t]
  /\ pc[r] \in {"store", "index", "reply"} =>
       \A t \in TagsOf[key[r]] : shown[r][t] >= since[r][t]

Requested(r) == Fetched(r) /\ Stamped(r) /\ Waited(r)

\* A request only judges an entry that it has fetched, and a sweep that has
\* emptied an index has something to delete.
Held ==
  /\ \A r \in Readers : pc[r] \in {"check", "hit"} => got[r] # NoEntry
  /\ \A w \in Writers : wpc[w] \in {"swap", "delete"} => doomed[w] # <<>>

Typed == TypeOK /\ Held

Inv == Typed /\ Settled /\ Wrote /\ Stored /\ \A r \in Readers : Requested(r)

LEMMA OnePlace ==
  ASSUME Coherent
  PROVE  /\ \A p \in Procs : Side(p) = Place
         /\ Place \in Procs => Procs = {Place} /\ ~Persistent
         /\ Procs # {} => Place \in Sides
  BY TagCacheAssumption DEF Coherent, Place, Side, Sides

LEMMA TagsOfType == \A k \in Keys : TagsOf[k] \subseteq Tags
  BY TagCacheAssumption

LEMMA HomeType ==
  /\ \A r \in Readers : Home[r] \in Procs
  /\ \A w \in Writers : Home[w] \in Procs
  BY TagCacheAssumption

-----------------------------------------------------------------------------
(* Type correctness.                                                       *)

USE DEF PC, WPC, reader, writer, recorded

\* The list of a tag after a key has been recorded.
Distinct(list) == \A i, j \in 1 .. Len(list) : list[i] = list[j] => i = j

LEMMA WithFacts ==
  ASSUME NEW list \in Seq(Keys), NEW k \in Keys
  PROVE  /\ With(list, k) \in Seq(Keys)
         /\ Has(With(list, k), k)
         /\ \A j : Has(list, j) => Has(With(list, k), j)
         /\ \A j : Has(With(list, k), j) => Has(list, j) \/ j = k
         /\ Distinct(list) => Distinct(With(list, k))
  <1>1. CASE Has(list, k)
    BY <1>1 DEF With
  <1>2. CASE ~Has(list, k)
    <2> DEFINE new == Append(list, k)
               n   == Len(list)
    <2>1. /\ n \in Nat /\ new \in Seq(Keys) /\ Len(new) = n + 1 /\ new[n + 1] = k
          /\ \A i \in 1 .. n : new[i] = list[i]
      OBVIOUS
    <2>2. With(list, k) = new
      BY <1>2 DEF With
    <2> HIDE DEF new
    <2>3. \A i \in 1 .. n + 1 : i \in 1 .. n \/ i = n + 1
      BY <2>1
    <2>4. Has(new, k) /\ \A j : Has(list, j) => Has(new, j)
      BY <2>1 DEF Has
    <2>5. \A j : Has(new, j) => Has(list, j) \/ j = k
      BY <2>1, <2>3 DEF Has
    <2>6. Distinct(list) => Distinct(new)
      <3> SUFFICES ASSUME Distinct(list), NEW i \in 1 .. n + 1, NEW j \in 1 .. n + 1,
                          new[i] = new[j]
                   PROVE  i = j
        BY <2>1 DEF Distinct
      <3>1. \A h \in 1 .. n : new[h] # k
        BY <1>2, <2>1 DEF Has
      <3>2. CASE i \in 1 .. n /\ j \in 1 .. n
        BY <2>1, <3>2 DEF Distinct
      <3>3. CASE i = n + 1 \/ j = n + 1
        BY <2>1, <2>3, <3>1, <3>3
      <3> QED
        BY <2>3, <3>2, <3>3
    <2> QED
      BY <2>1, <2>2, <2>4, <2>5, <2>6
  <1> QED
    BY <1>1, <1>2

LEMMA BoundedFacts ==
  ASSUME NEW s, NEW list \in Seq(Keys)
  PROVE  /\ Bounded(s, list) \in Seq(Keys)
         /\ \A j : Has(Bounded(s, list), j) => Has(list, j)
         /\ Distinct(list) => Distinct(Bounded(s, list))
         /\ s # Shared => Len(Bounded(s, list)) <= MaxRecorded
         /\ Len(list) <= MaxRecorded => Bounded(s, list) = list
  <1>1. MaxRecorded \in Nat \ {0} /\ Len(list) \in Nat
    BY TagCacheAssumption
  <1>2. CASE s # Shared /\ Len(list) > MaxRecorded
    <2> DEFINE d == Len(list) - MaxRecorded
               new == SubSeq(list, d + 1, Len(list))
    <2>1. Bounded(s, list) = new
      BY <1>2 DEF Bounded
    <2>2. /\ new \in Seq(Keys) /\ Len(new) = MaxRecorded
          /\ \A i \in 1 .. MaxRecorded : new[i] = list[d + i] /\ d + i \in 1 .. Len(list)
      BY <1>1, <1>2
    <2>3. \A j : Has(new, j) => Has(list, j)
      BY <2>2 DEF Has
    <2>4. Distinct(list) => Distinct(new)
      <3> SUFFICES ASSUME Distinct(list), NEW i \in 1 .. MaxRecorded,
                          NEW j \in 1 .. MaxRecorded, new[i] = new[j]
                   PROVE  i = j
        BY <2>2 DEF Distinct
      <3>1. d + i = d + j
        BY <2>2 DEF Distinct
      <3> QED
        BY <1>1, <3>1
    <2> QED
      BY <1>1, <1>2, <2>1, <2>2, <2>3, <2>4
  <1>3. CASE ~(s # Shared /\ Len(list) > MaxRecorded)
    <2>1. Bounded(s, list) = list
      BY <1>3 DEF Bounded
    <2> QED
      BY <1>1, <1>3, <2>1
  <1> QED
    BY <1>2, <1>3

LEMMA ZeroType == Zero \in Versions
  BY DEF Zero, Versions

LEMMA SideType == \A a \in Readers \cup Writers : Side(Home[a]) \in Sides
  BY TagCacheAssumption DEF Side, Sides

LEMMA GenType ==
  ASSUME TypeOK, NEW r \in Readers, NEW t \in Tags
  PROVE  CurrentTagGen(r, t) \in Nat
  BY SideType DEF TypeOK, CurrentTagGen, Versions

LEMMA BumpedType ==
  ASSUME TypeOK, NEW w \in Writers
  PROVE  Bumped(w) \in [Sides -> Versions]
  <1> DEFINE s == Side(Home[w])
  <1>1. s \in Sides /\ tag[w] \in Tags
    BY SideType DEF TypeOK
  <1>2. [gen[s] EXCEPT ![tag[w]] = @ + 1] \in Versions
    BY <1>1 DEF TypeOK, Versions
  <1> QED
    BY <1>1, <1>2 DEF Bumped, TypeOK

LEMMA SettleType ==
  ASSUME TypeOK, NEW w \in Writers, Settle(w)
  PROVE  /\ settled' \in Versions
         /\ settled'[tag[w]] \in {settled[tag[w]], wrote[w]}
         /\ settled'[tag[w]] >= settled[tag[w]]
         /\ \A t \in Tags : t # tag[w] => settled'[t] = settled[t]
  BY DEF TypeOK, Settle, Later, Versions

LEMMA FinishType ==
  ASSUME TypeOK, NEW w \in Writers, Finish(w)
  PROVE  wpc' \in [Writers -> WPC] /\ wrote' \in [Writers -> Nat]
  BY DEF TypeOK, Finish

LEMMA ForgetType ==
  ASSUME TypeOK, NEW R, Forget(R)
  PROVE  /\ pc' \in [Readers -> PC] /\ todo' \in [Readers -> SUBSET Tags]
         /\ stamp' \in [Readers -> Versions]
         /\ got' \in [Readers -> Entry \cup {NoEntry}]
         /\ shown' \in [Readers -> Versions] /\ since' \in [Readers -> Versions]
  BY ZeroType DEF TypeOK, Forget

LEMMA EmptyType == <<>> \in Seq(Keys) /\ Len(<<>>) <= MaxRecorded
  <1>1. Len(<<>>) = 0 /\ MaxRecorded \in Nat
    BY TagCacheAssumption
  <1> QED
    BY <1>1

\* An invalidation empties a list, or leaves it alone.
LEMMA EmptiedType ==
  ASSUME TypeOK, NEW s \in Sides, NEW t \in Tags,
         index' \in {index, [index EXCEPT ![s][t] = <<>>]}
  PROVE  /\ index' \in [Sides -> [Tags -> Seq(Keys)]]
         /\ \A p \in Procs, u \in Tags : Len(index'[p][u]) <= MaxRecorded
         /\ \A p \in Sides, u \in Tags : index'[p][u] \in {index[p][u], <<>>}
  <1>1. /\ index \in [Sides -> [Tags -> Seq(Keys)]]
        /\ \A p \in Procs, u \in Tags : Len(index[p][u]) <= MaxRecorded
    BY DEF TypeOK
  <1>2. CASE index' = index
    BY <1>1, <1>2
  <1>3. CASE index' = [index EXCEPT ![s][t] = <<>>]
    <2>1. [index[s] EXCEPT ![t] = <<>>] \in [Tags -> Seq(Keys)]
      BY <1>1, EmptyType
    <2>2. index' \in [Sides -> [Tags -> Seq(Keys)]]
      BY <1>1, <1>3, <2>1
    <2>3. \A p \in Sides, u \in Tags : index'[p][u] \in {index[p][u], <<>>}
      BY <1>1, <1>3
    <2>4. \A p \in Procs, u \in Tags : Len(index'[p][u]) <= MaxRecorded
      BY <1>1, <2>3, EmptyType DEF Sides
    <2> QED
      BY <2>2, <2>3, <2>4
  <1> QED
    BY <1>2, <1>3

LEMMA TypedInit == Init => Typed
  <1> SUFFICES ASSUME Init PROVE Typed
    OBVIOUS
  <1>1. /\ index \in [Sides -> [Tags -> Seq(Keys)]]
        /\ \A p \in Procs, t \in Tags : Len(index[p][t]) <= MaxRecorded
    BY EmptyType DEF Init, Sides
  <1>2. doomed \in [Writers -> Seq(Keys)] /\ restarts \in 0 .. MaxRestarts
    BY EmptyType, TagCacheAssumption DEF Init
  <1>3. Held
    BY DEF Init, Held
  <1> QED
    BY <1>1, <1>2, <1>3, ZeroType DEF Init, Typed, TypeOK

LEMMA TypedRead ==
  ASSUME Typed, NEW r \in Readers, Read(r)
  PROVE  Typed'
  <1>1. ASSUME NEW k \in Keys, Arrive(r, k) PROVE Typed'
    BY <1>1, TagsOfType DEF Arrive, Goto, Typed, TypeOK, Held
  <1>2. ASSUME NEW t \in Tags, Capture(r, t) PROVE Typed'
    <2>1. [stamp[r] EXCEPT ![t] = CurrentTagGen(r, t)] \in Versions
      BY GenType DEF Typed, TypeOK, Versions
    <2>2. stamp' \in [Readers -> Versions]
      BY <1>2, <2>1 DEF Capture, Typed, TypeOK
    <2> QED
      BY <1>2, <2>2 DEF Capture, Turn, Goto, Typed, TypeOK, Held
  <1>3. ASSUME NEW t \in Tags, Check(r, t) PROVE Typed'
    BY <1>3 DEF Check, Turn, Goto, Typed, TypeOK, Held
  <1>4. ASSUME NEW t \in Tags, Reject(r, t) PROVE Typed'
    BY <1>4 DEF Reject, Goto, Typed, TypeOK, Held
  <1>5. ASSUME NEW t \in Tags, Index(r, t) PROVE Typed'
    <2> DEFINE s    == Side(Home[r])
               next == With(index[s][t], key[r])
    <2>1. s \in Sides /\ key[r] \in Keys /\ index[s][t] \in Seq(Keys)
      BY SideType DEF Typed, TypeOK
    <2>2. next \in Seq(Keys)
      BY <2>1, WithFacts
    <2>3. Bounded(s, next) \in Seq(Keys) /\ (s # Shared => Len(Bounded(s, next)) <= MaxRecorded)
      BY <2>2, BoundedFacts
    <2>4. index' = [index EXCEPT ![s][t] = Bounded(s, next)]
      BY <1>5 DEF Index
    <2>5. index' \in [Sides -> [Tags -> Seq(Keys)]]
      BY <2>1, <2>3, <2>4 DEF Typed, TypeOK
    <2>6. \A p \in Procs, u \in Tags : Len(index'[p][u]) <= MaxRecorded
      BY <2>1, <2>3, <2>4, TagCacheAssumption DEF Typed, TypeOK, Sides
    <2>7. dropped' \subseteq Keys \X Tags
      BY <1>5 DEF Index, Typed, TypeOK
    <2>8. pc' \in [Readers -> PC] /\ todo' \in [Readers -> SUBSET Tags] /\ Held'
      BY <1>5 DEF Index, Turn, Goto, Typed, TypeOK, Held
    <2> QED
      BY <1>5, <2>5, <2>6, <2>7, <2>8 DEF Index, Typed, TypeOK
  <1>6. ASSUME Get(r) PROVE Typed'
    <2>1. key[r] \in Keys /\ TagsOf[key[r]] \subseteq Tags
      BY TagsOfType DEF Typed, TypeOK
    <2> QED
      BY <1>6, <2>1 DEF Get, Goto, Typed, TypeOK, Held
  <1>7. ASSUME Hit(r) PROVE Typed'
    <2>1. got[r].value \in Versions
      BY <1>7 DEF Hit, Goto, Typed, TypeOK, Held, Entry
    <2> QED
      BY <1>7, <2>1 DEF Hit, Goto, Typed, TypeOK, Held
  <1>8. ASSUME Compute(r) PROVE Typed'
    BY <1>8 DEF Compute, Goto, Typed, TypeOK, Held
  <1>9. ASSUME Store(r) PROVE Typed'
    <2>1. key[r] \in Keys /\ TagsOf[key[r]] \subseteq Tags
      BY TagsOfType DEF Typed, TypeOK
    <2>2. [value |-> shown[r], stamp |-> stamp[r]] \in Entry
      BY DEF Typed, TypeOK, Entry
    <2>3. store' \in [Keys -> Entry \cup {NoEntry}]
      BY <1>9, <2>2 DEF Store, Typed, TypeOK
    <2>4. pc' \in [Readers -> PC] /\ todo' \in [Readers -> SUBSET Tags] /\ Held'
      BY <1>9, <2>1 DEF Store, Goto, Typed, TypeOK, Held
    <2> QED
      BY <1>9, <2>3, <2>4 DEF Store, Typed, TypeOK
  <1>10. ASSUME Reply(r) PROVE Typed'
    BY <1>10, ForgetType DEF Reply, Typed, TypeOK, Held, Forget
  <1> QED
    BY <1>1, <1>2, <1>3, <1>4, <1>5, <1>6, <1>7, <1>8, <1>9, <1>10 DEF Read

LEMMA TypedInvalidate ==
  ASSUME Typed, NEW w \in Writers, Invalidate(w)
  PROVE  Typed'
  <1>1. ASSUME NEW t \in Tags, Write(w, t) PROVE Typed'
    BY <1>1 DEF Write, Typed, TypeOK, Held, Versions
  <1>2. ASSUME Bump(w) PROVE Typed'
    BY <1>2, BumpedType, SettleType DEF Bump, Typed, TypeOK, Held
  <1>3. ASSUME BumpShared(w) PROVE Typed'
    <2>1. /\ index' \in [Sides -> [Tags -> Seq(Keys)]]
          /\ \A p \in Procs, u \in Tags : Len(index'[p][u]) <= MaxRecorded
      <3>1. Shared \in Sides /\ tag[w] \in Tags
        BY DEF Typed, TypeOK, Sides
      <3> QED
        BY <1>3, <3>1, EmptiedType DEF BumpShared, Typed
    <2>2. store' \in [Keys -> Entry \cup {NoEntry}]
      BY <1>3 DEF BumpShared, Typed, TypeOK
    <2>3. gen' \in [Sides -> Versions] /\ settled' \in Versions
      BY <1>3, BumpedType, SettleType DEF BumpShared, Typed
    <2>4. wpc' \in [Writers -> WPC] /\ wrote' \in [Writers -> Nat]
      BY <1>3, FinishType DEF BumpShared, Typed
    <2>5. Held'
      BY <1>3 DEF BumpShared, Finish, Typed, TypeOK, Held
    <2> QED
      BY <1>3, <2>1, <2>2, <2>3, <2>4, <2>5 DEF BumpShared, Typed, TypeOK
  <1>4. ASSUME Look(w) PROVE Typed'
    <2>1. Recorded(w) \in Seq(Keys)
      BY SideType DEF Recorded, Typed, TypeOK
    <2>2. wpc' \in [Writers -> WPC] /\ wrote' \in [Writers -> Nat]
      BY <1>4, FinishType DEF Look, Typed, TypeOK
    <2>3. Held'
      BY <1>4, <2>1 DEF Look, Finish, Typed, TypeOK, Held
    <2> QED
      BY <1>4, <2>1, <2>2, <2>3 DEF Look, Typed, TypeOK
  <1>5. ASSUME Swap(w) PROVE Typed'
    <2>0. index' \in {index, [index EXCEPT ![Side(Home[w])][tag[w]] = <<>>]}
      BY <1>5, Zenon DEF Swap
    <2>1. /\ index' \in [Sides -> [Tags -> Seq(Keys)]]
          /\ \A p \in Procs, u \in Tags : Len(index'[p][u]) <= MaxRecorded
      <3>1. Side(Home[w]) \in Sides /\ tag[w] \in Tags
        BY SideType DEF Typed, TypeOK
      <3> QED
        BY <2>0, <3>1, EmptiedType DEF Typed
    <2>2. wpc' \in [Writers -> WPC]
      BY <1>5 DEF Swap, Typed, TypeOK
    <2> QED
      BY <1>5, <2>1, <2>2 DEF Swap, Typed, TypeOK, Held
  <1>6. ASSUME Delete(w) PROVE Typed'
    <2>1. doomed[w] \in Seq(Keys) /\ doomed[w] # <<>>
      BY <1>6 DEF Delete, Typed, TypeOK, Held
    <2>2. /\ Tail(doomed[w]) \in Seq(Keys)
          /\ Len(doomed[w]) # 1 => Tail(doomed[w]) # <<>>
      <3> DEFINE d == doomed[w]
      <3>1. Len(d) \in Nat /\ Len(d) # 0
        BY <2>1, EmptySeq
      <3>2. Tail(d) \in Seq(Keys) /\ Len(Tail(d)) = Len(d) - 1
        BY <2>1, HeadTailProperties
      <3>3. Tail(d) = <<>> => Len(Tail(d)) = 0
        BY EmptySeq
      <3> QED
        BY <3>1, <3>2, <3>3
    <2>3. wpc' \in [Writers -> WPC] /\ wrote' \in [Writers -> Nat]
      BY <1>6, FinishType DEF Delete, Typed, TypeOK
    <2>4. Held'
      BY <1>6, <2>2 DEF Delete, Finish, Typed, TypeOK, Held
    <2> QED
      BY <1>6, <2>2, <2>3, <2>4 DEF Delete, Typed, TypeOK
  <1> QED
    BY <1>1, <1>2, <1>3, <1>4, <1>5, <1>6 DEF Invalidate

LEMMA TypedStep == Typed /\ [Next]_vars => Typed'
  <1> SUFFICES ASSUME Typed, [Next]_vars PROVE Typed'
    OBVIOUS
  <1>1. ASSUME NEW k \in Keys, Evict(k) PROVE Typed'
    BY <1>1 DEF Evict, Typed, TypeOK, Held
  <1>2. ASSUME NEW p \in Procs, Restart(p) PROVE Typed'
    <2>1. /\ gen' \in [Sides -> Versions] /\ index' \in [Sides -> [Tags -> Seq(Keys)]]
          /\ \A q \in Procs, u \in Tags : Len(index'[q][u]) <= MaxRecorded
      BY <1>2, ZeroType, TagCacheAssumption DEF Restart, Typed, TypeOK, Sides
    <2>2. /\ wpc' \in [Writers -> WPC] /\ wrote' \in [Writers -> Nat]
          /\ doomed' \in [Writers -> Seq(Keys)] /\ restarts' \in 0 .. MaxRestarts
          /\ store' \in [Keys -> Entry \cup {NoEntry}]
      BY <1>2, TagCacheAssumption DEF Restart, Typed, TypeOK
    <2>3. TypeOK'
      BY <1>2, <2>1, <2>2, ForgetType DEF Restart, Typed, TypeOK
    <2>4. Held'
      BY <1>2 DEF Restart, Forget, Typed, TypeOK, Held
    <2> QED
      BY <2>3, <2>4 DEF Typed
  <1>3. CASE UNCHANGED vars
    BY <1>3 DEF vars, Typed, TypeOK, Held
  <1> QED
    BY <1>1, <1>2, <1>3, TypedRead, TypedInvalidate DEF Next

\* Every variable keeps its type.
THEOREM TypeCorrect == Spec => []TypeOK
  <1>1. Init => Typed
    BY TypedInit
  <1>2. Typed /\ [Next]_vars => Typed'
    BY TypedStep
  <1>3. Typed => TypeOK
    BY DEF Typed
  <1> QED
    BY <1>1, <1>2, <1>3, PTL DEF Spec

-----------------------------------------------------------------------------
(* No response is stale.                                                   *)

LEMMA InvInit == Init => Inv
  <1>1. ASSUME Init PROVE Settled /\ Wrote /\ Stored
    BY <1>1 DEF Init, Settled, Wrote, Stored, Zero
  <1>2. ASSUME Init PROVE \A r \in Readers : Requested(r)
    BY <1>2 DEF Init, Requested, Fetched, Stamped, Waited, Zero
  <1> QED
    BY <1>1, <1>2, TypedInit DEF Inv

\* A step of one request that leaves the data, the invalidations and the
\* generations alone.
LEMMA ReaderStep ==
  ASSUME Inv, Typed', NEW r \in Readers,
         UNCHANGED <<data, settled, gen, writer>>,
         \A q \in Readers \ {r} :
           /\ pc'[q] = pc[q] /\ key'[q] = key[q] /\ todo'[q] = todo[q]
           /\ stamp'[q] = stamp[q] /\ got'[q] = got[q]
           /\ shown'[q] = shown[q] /\ since'[q] = since[q],
         Requested(r)', Stored'
  PROVE  Inv'
  <1>1. Settled' /\ Wrote'
    BY DEF Inv, Settled, Wrote
  <1>2. ASSUME NEW q \in Readers \ {r} PROVE Requested(q)'
    <2>1. Requested(q)
      BY DEF Inv
    <2> QED
      BY <2>1 DEF Requested, Fetched, Stamped, Waited, Good, Now
  <1> QED
    BY <1>1, <1>2 DEF Inv

LEMMA StoredKept ==
  ASSUME Stored, UNCHANGED <<settled, gen>>,
         \A k \in Keys : store'[k] \in {store[k], NoEntry}
  PROVE  Stored'
  BY DEF Stored, Good, Now

LEMMA HomeIsPlace ==
  ASSUME Coherent, NEW r \in Readers, NEW t
  PROVE  CurrentTagGen(r, t) = Now(t)
  BY OnePlace, HomeType DEF CurrentTagGen, Now

LEMMA InvRead ==
  ASSUME Coherent, Inv, NEW r \in Readers, Read(r)
  PROVE  Inv'
  <1> USE DEF Goto
  <1>0. Typed /\ Typed' /\ Requested(r) /\ Stored /\ Settled
    BY TypedRead DEF Inv
  <1>1. ASSUME NEW k \in Keys, Arrive(r, k) PROVE Inv'
    <2>1. Requested(r)'
      BY <1>0, <1>1 DEF Arrive, Requested, Fetched, Stamped, Waited, Typed, TypeOK, Versions
    <2> QED
      BY <1>0, <1>1, <2>1, ReaderStep, StoredKept DEF Arrive, Typed, TypeOK
  <1>2. ASSUME NEW t \in Tags, Capture(r, t) PROVE Inv'
    <2>1. CurrentTagGen(r, t) = Now(t) /\ Now(t) \in Nat
      BY <1>0, HomeIsPlace, GenType DEF Typed
    <2>2. \A u \in Tags : stamp'[r][u] = IF u = t THEN Now(t) ELSE stamp[r][u]
      BY <1>0, <1>2, <2>1 DEF Capture, Typed, TypeOK, Versions
    <2>3. Stamped(r)'
      BY <1>0, <1>2, <2>1, <2>2, TagsOfType
         DEF Capture, Turn, Requested, Stamped, Now, Typed, TypeOK
    <2>4. Fetched(r)' /\ Waited(r)'
      BY <1>0, <1>2 DEF Capture, Turn, Requested, Fetched, Waited, Typed, TypeOK
    <2> QED
      BY <1>0, <1>2, <2>3, <2>4, ReaderStep, StoredKept DEF Capture, Turn, Requested, Typed, TypeOK
  <1>3. ASSUME NEW t \in Tags, Check(r, t) PROVE Inv'
    <2>1. t \in TagsOf[key[r]] => got[r].value[t] >= settled[t]
      BY <1>0, <1>3, HomeIsPlace DEF Check, Turn, UpToDate, Requested, Fetched, Good
    <2>2. got[r].value \in Versions
      BY <1>0, <1>3 DEF Check, Turn, Typed, TypeOK, Held, Entry
    <2>3. t \in TagsOf[key[r]] => got[r].value[t] >= since[r][t]
      BY <1>0, <2>1, <2>2 DEF Requested, Waited, Typed, TypeOK, Versions
    <2>4. Requested(r)'
      BY <1>0, <1>3, <2>3
         DEF Check, Turn, Requested, Fetched, Stamped, Waited, Good, Now, Typed, TypeOK
    <2> QED
      BY <1>0, <1>3, <2>4, ReaderStep, StoredKept DEF Check, Turn, Typed, TypeOK
  <1>4. ASSUME NEW t \in Tags, Reject(r, t) PROVE Inv'
    <2>1. Requested(r)'
      BY <1>0, <1>4
         DEF Reject, Requested, Fetched, Stamped, Waited, Good, Now, Typed, TypeOK
    <2> QED
      BY <1>0, <1>4, <2>1, ReaderStep, StoredKept DEF Reject, Typed, TypeOK
  <1>5. ASSUME NEW t \in Tags, Index(r, t) PROVE Inv'
    <2>1. Requested(r)'
      BY <1>0, <1>5
         DEF Index, Turn, Requested, Fetched, Stamped, Waited, Good, Now, Typed, TypeOK
    <2> QED
      BY <1>0, <1>5, <2>1, ReaderStep, StoredKept DEF Index, Turn, Typed, TypeOK
  <1>6. ASSUME Get(r) PROVE Inv'
    <2>1. Fetched(r)'
      BY <1>0, <1>6 DEF Get, Fetched, Stored, Good, Now, Typed, TypeOK
    <2>2. Stamped(r)' /\ Waited(r)'
      BY <1>0, <1>6 DEF Get, Requested, Stamped, Waited, Good, Now, Typed, TypeOK
    <2> QED
      BY <1>0, <1>6, <2>1, <2>2, ReaderStep, StoredKept DEF Get, Requested, Typed, TypeOK
  <1>7. ASSUME Hit(r) PROVE Inv'
    <2>1. Requested(r)'
      BY <1>0, <1>7
         DEF Hit, Requested, Fetched, Stamped, Waited, Good, Now, Typed, TypeOK
    <2> QED
      BY <1>0, <1>7, <2>1, ReaderStep, StoredKept DEF Hit, Typed, TypeOK
  <1>8. ASSUME Compute(r) PROVE Inv'
    <2>1. \A t \in TagsOf[key[r]] : t \in Tags /\ data[t] >= settled[t] /\ data[t] >= since[r][t]
      BY <1>0, TagsOfType DEF Settled, Requested, Waited, Typed, TypeOK, Versions
    <2>2. Requested(r)'
      BY <1>0, <1>8, <2>1
         DEF Compute, Requested, Fetched, Stamped, Waited, Good, Now, Typed, TypeOK
    <2> QED
      BY <1>0, <1>8, <2>2, ReaderStep, StoredKept DEF Compute, Typed, TypeOK
  <1>9. ASSUME Store(r) PROVE Inv'
    <2>1. Stored'
      BY <1>0, <1>9 DEF Store, Stored, Requested, Stamped, Good, Now, Typed, TypeOK
    <2>2. Requested(r)'
      BY <1>0, <1>9
         DEF Store, Requested, Fetched, Stamped, Waited, Good, Now, Typed, TypeOK
    <2> QED
      BY <1>0, <1>9, <2>1, <2>2, ReaderStep DEF Store, Typed, TypeOK
  <1>10. ASSUME Reply(r) PROVE Inv'
    <2>1. Requested(r)'
      BY <1>0, <1>10
         DEF Reply, Forget, Requested, Fetched, Stamped, Waited, Zero, Typed, TypeOK, Versions
    <2> QED
      BY <1>0, <1>10, <2>1, ReaderStep, StoredKept DEF Reply, Forget, Typed, TypeOK
  <1> QED
    BY <1>1, <1>2, <1>3, <1>4, <1>5, <1>6, <1>7, <1>8, <1>9, <1>10 DEF Read

\* The generation of the tag of w moves on: every stamp that carries the tag is
\* out of date.
LEMMA Advance ==
  ASSUME Coherent, Inv, Typed', NEW w \in Writers, wpc[w] = "bump",
         gen' = Bumped(w), Settle(w), UNCHANGED <<data, reader, tag>>,
         wpc' \in [Writers -> WPC],
         \A v \in Writers : wpc'[v] = "bump" => wpc[v] = "bump" /\ wrote'[v] = wrote[v],
         \A k \in Keys : store'[k] \in {store[k], NoEntry}
  PROVE  Inv'
  <1>1. Typed
    BY DEF Inv
  <1>2. /\ \A t \in Tags : Now(t)' = IF t = tag[w] THEN Now(t) + 1 ELSE Now(t)
        /\ \A t \in Tags : Now(t) \in Nat
    <2>1. Side(Home[w]) = Place /\ Place \in Sides
      BY OnePlace, HomeType DEF Coherent
    <2> QED
      BY <1>1, <2>1 DEF Bumped, Now, Typed, TypeOK, Versions
  <1>3. /\ \A t \in Tags : settled'[t] >= settled[t] /\ settled'[t] \in Nat
        /\ \A t \in Tags : t # tag[w] => settled'[t] = settled[t]
    <2>1. settled \in Versions /\ settled' \in Versions /\ TypeOK
      BY <1>1, SettleType DEF Typed, TypeOK
    <2>2. /\ settled'[tag[w]] >= settled[tag[w]]
          /\ \A t \in Tags : t # tag[w] => settled'[t] = settled[t]
      BY <2>1, SettleType
    <2> QED
      BY <2>1, <2>2 DEF Versions
  <1>4. ASSUME NEW st \in Versions, NEW val \in Versions, NEW t \in Tags,
               Good(st, val, t)
        PROVE  st[t] <= Now(t)' /\ (st[t] = Now(t)' => val[t] >= settled'[t])
    BY <1>2, <1>3, <1>4 DEF Good, Versions
  <1>5. Settled' /\ Wrote'
    <2>1. settled'[tag[w]] \in {settled[tag[w]], wrote[w]} /\ wrote[w] <= data[tag[w]]
      BY <1>1, SettleType DEF Typed, Inv, Wrote
    <2> QED
      BY <1>3, <2>1 DEF Inv, Settled, Wrote
  <1>6. Stored'
    <2> SUFFICES ASSUME NEW k \in Keys, store'[k] # NoEntry, NEW t \in TagsOf[k]
                 PROVE  Good(store[k].stamp, store[k].value, t)'
      BY DEF Stored
    <2>1. store'[k] = store[k] /\ t \in Tags
      BY TagsOfType
    <2>2. store[k].stamp \in Versions /\ store[k].value \in Versions
      BY <1>1, <2>1 DEF Typed, TypeOK, Entry
    <2>3. Good(store[k].stamp, store[k].value, t)
      BY <2>1 DEF Inv, Stored
    <2> QED
      BY <1>4, <2>1, <2>2, <2>3 DEF Good
  <1>7. ASSUME NEW r \in Readers PROVE Requested(r)'
    <2>1. Requested(r) /\ TagsOf[key[r]] \subseteq Tags
      BY <1>1, TagsOfType DEF Inv, Typed, TypeOK
    <2>2. Fetched(r)'
      <3> SUFFICES ASSUME pc[r] \in {"check", "hit"}, NEW t \in TagsOf[key[r]]
                   PROVE  Good(got[r].stamp, got[r].value, t)'
        BY DEF Fetched
      <3>1. got[r].stamp \in Versions /\ got[r].value \in Versions
        BY <1>1 DEF Typed, TypeOK, Held, Entry
      <3> QED
        BY <1>4, <2>1, <3>1 DEF Requested, Fetched, Good
    <2>3. Stamped(r)'
      <3>1. stamp[r] \in Versions /\ shown[r] \in Versions
        BY <1>1 DEF Typed, TypeOK
      <3>2. \A t \in TagsOf[key[r]] : stamp[r][t] <= Now(t) => stamp[r][t] <= Now(t)'
        BY <1>2, <2>1, <3>1 DEF Versions
      <3> QED
        BY <1>4, <2>1, <3>1, <3>2 DEF Requested, Stamped, Good
    <2>4. Waited(r)'
      <3>1. since[r] \in Versions /\ settled \in Versions
        BY <1>1 DEF Typed, TypeOK
      <3> QED
        BY <1>3, <2>1, <3>1 DEF Requested, Waited, Versions
    <2> QED
      BY <2>2, <2>3, <2>4 DEF Requested
  <1> QED
    BY <1>5, <1>6, <1>7 DEF Inv

\* A step of a request that invalidates and changes no version.
LEMMA WriterStep ==
  ASSUME Inv, Typed', UNCHANGED <<data, settled, gen, reader, tag>>,
         \A v \in Writers : wpc'[v] = "bump" => wpc[v] = "bump" /\ wrote'[v] = wrote[v],
         \A k \in Keys : store'[k] \in {store[k], NoEntry}
  PROVE  Inv'
  <1>1. Settled' /\ Wrote' /\ Stored'
    BY StoredKept DEF Inv, Settled, Wrote
  <1>2. \A r \in Readers : Requested(r)'
    BY DEF Inv, Requested, Fetched, Stamped, Waited, Good, Now
  <1> QED
    BY <1>1, <1>2 DEF Inv

LEMMA InvInvalidate ==
  ASSUME Coherent, Inv, NEW w \in Writers, Invalidate(w)
  PROVE  Inv'
  <1>0. Typed /\ Typed'
    BY TypedInvalidate DEF Inv
  <1>1. ASSUME NEW t \in Tags, Write(w, t) PROVE Inv'
    <2>1. \A u \in Tags : data'[u] >= data[u] /\ data[u] \in Nat
      BY <1>0, <1>1 DEF Write, Typed, TypeOK, Versions
    <2>2. Settled'
      BY <1>0, <1>1, <2>1 DEF Write, Inv, Settled, Typed, TypeOK, Versions
    <2>3. Wrote'
      <3> SUFFICES ASSUME NEW v \in Writers, wpc'[v] = "bump"
                   PROVE  wrote'[v] <= data'[tag'[v]]
        BY DEF Wrote
      <3>1. CASE v = w
        BY <1>0, <1>1, <3>1 DEF Write, Typed, TypeOK, Versions
      <3>2. CASE v # w
        <4>1. wpc[v] = "bump" /\ wrote'[v] = wrote[v] /\ tag'[v] = tag[v] /\ tag[v] \in Tags
          BY <1>0, <1>1, <3>2 DEF Write, Typed, TypeOK
        <4>2. wrote[v] <= data[tag[v]] /\ wrote[v] \in Nat
          BY <1>0, <4>1 DEF Inv, Wrote, Typed, TypeOK
        <4>3. data'[tag[v]] >= data[tag[v]] /\ data[tag[v]] \in Nat
          BY <2>1, <4>1
        <4>4. data'[tag[v]] \in Nat
          BY <1>0, <4>1 DEF Typed, TypeOK, Versions
        <4> QED
          BY <4>1, <4>2, <4>3, <4>4
      <3> QED
        BY <3>1, <3>2
    <2>4. Stored'
      BY <1>1, StoredKept DEF Write, Inv
    <2>5. \A r \in Readers : Requested(r)'
      BY <1>1 DEF Write, Inv, Requested, Fetched, Stamped, Waited, Good, Now
    <2> QED
      BY <1>0, <2>2, <2>3, <2>4, <2>5 DEF Inv
  <1>2. ASSUME Bump(w) PROVE Inv'
    <2>1. /\ wpc' \in [Writers -> WPC]
          /\ \A v \in Writers : wpc'[v] = "bump" => wpc[v] = "bump" /\ wrote'[v] = wrote[v]
      BY <1>0, <1>2 DEF Bump, Typed, TypeOK
    <2> QED
      BY <1>0, <1>2, <2>1, Advance DEF Bump
  <1>3. ASSUME BumpShared(w) PROVE Inv'
    <2>1. wpc' = [wpc EXCEPT ![w] = "idle"] /\ wrote' = [wrote EXCEPT ![w] = 0]
      BY <1>3 DEF BumpShared, Finish
    <2>2. \A k \in Keys : store'[k] \in {store[k], NoEntry}
      BY <1>3 DEF BumpShared
    <2>3. /\ wpc' \in [Writers -> WPC]
          /\ \A v \in Writers : wpc'[v] = "bump" => wpc[v] = "bump" /\ wrote'[v] = wrote[v]
      BY <1>0, <2>1 DEF Typed, TypeOK
    <2> QED
      BY <1>0, <1>3, <2>2, <2>3, Advance DEF BumpShared
  <1>4. ASSUME Look(w) PROVE Inv'
    BY <1>0, <1>4, WriterStep DEF Look, Finish, Typed, TypeOK
  <1>5. ASSUME Swap(w) PROVE Inv'
    BY <1>0, <1>5, WriterStep DEF Swap, Typed, TypeOK
  <1>6. ASSUME Delete(w) PROVE Inv'
    BY <1>0, <1>6, WriterStep DEF Delete, Finish, Typed, TypeOK
  <1> QED
    BY <1>1, <1>2, <1>3, <1>4, <1>5, <1>6 DEF Invalidate

LEMMA InvRestart ==
  ASSUME Coherent, Inv, Typed', NEW p \in Procs, Restart(p)
  PROVE  Inv'
  <1>0. Typed
    BY DEF Inv
  <1>1. Settled' /\ Wrote'
    BY <1>0 DEF Restart, Inv, Settled, Wrote, Typed, TypeOK
  <1>2. CASE SharedTags
    <2>1. \A t \in Tags : Now(t)' = Now(t)
      BY <1>0, <1>2, TagCacheAssumption DEF Restart, Now, Place, Typed, TypeOK, Sides
    <2>2. \A k \in Keys : store'[k] \in {store[k], NoEntry}
      BY <1>0 DEF Restart, Typed, TypeOK
    <2>3. Stored'
      BY <2>1, <2>2, TagsOfType DEF Restart, Inv, Stored, Good
    <2>4. ASSUME NEW r \in Readers PROVE Requested(r)'
      <3>1. CASE Home[r] = p
        BY <1>0, <3>1
           DEF Restart, Forget, Requested, Fetched, Stamped, Waited, Zero, Typed, TypeOK, Versions
      <3>2. CASE Home[r] # p
        <4>1. Requested(r) /\ TagsOf[key[r]] \subseteq Tags
          BY <1>0, TagsOfType DEF Inv, Typed, TypeOK
        <4> QED
          BY <2>1, <3>2, <4>1 DEF Restart, Forget, Requested, Fetched, Stamped, Waited, Good
      <3> QED
        BY <3>1, <3>2
    <2> QED
      BY <1>1, <2>3, <2>4 DEF Inv
  <1>3. CASE ~SharedTags
    <2>1. \A r \in Readers : Home[r] = p
      BY <1>3, HomeType DEF Coherent
    <2>2. Stored'
      BY <1>3 DEF Restart, Coherent, Stored
    <2>3. \A r \in Readers : Requested(r)'
      BY <1>0, <2>1
         DEF Restart, Forget, Requested, Fetched, Stamped, Waited, Zero, Typed, TypeOK, Versions
    <2> QED
      BY <1>1, <2>2, <2>3 DEF Inv
  <1> QED
    BY <1>2, <1>3

LEMMA InvStep ==
  ASSUME Coherent
  PROVE  Inv /\ [Next]_vars => Inv'
  <1> SUFFICES ASSUME Inv, [Next]_vars PROVE Inv'
    OBVIOUS
  <1>0. Typed /\ Typed'
    BY TypedStep DEF Inv
  <1>1. ASSUME NEW k \in Keys, Evict(k) PROVE Inv'
    BY <1>0, <1>1, WriterStep DEF Evict, Typed, TypeOK
  <1>2. CASE UNCHANGED vars
    BY <1>0, <1>2, WriterStep DEF vars
  <1> QED
    BY <1>0, <1>1, <1>2, InvRead, InvInvalidate, InvRestart DEF Next

\* Where the state of the tags is in one place, a response is never older than
\* an invalidation that had taken effect when its request arrived.
THEOREM Fresh ==
  ASSUME Coherent
  PROVE  Spec => []NeverStale
  <1>1. Init => Inv
    BY InvInit
  <1>2. Inv /\ [Next]_vars => Inv'
    BY InvStep
  <1>3. Inv => NeverStale
    BY DEF Inv, Requested, Waited, NeverStale
  <1> QED
    BY <1>1, <1>2, <1>3, PTL DEF Spec

-----------------------------------------------------------------------------
(* Every entry can be reached by an invalidation, but for those of keys    *)
(* that the cap has cut off the list of a tag; and that happens only to    *)
(* tags that more keys carry than an instance keeps, because the list of   *)
(* a tag names no key twice and only keys that carry the tag.              *)

Accounted(k, t) ==
  \/ \E s \in Sides : Has(index[s][t], k)
  \/ \E r \in Readers : pc[r] = "index" /\ key[r] = k /\ t \in todo[r]
  \/ \E w \in Writers : wpc[w] = "delete" /\ tag[w] = t /\ Has(doomed[w], k)
  \/ <<k, t>> \in dropped

Reached == \A k \in Keys : store[k] # NoEntry => \A t \in TagsOf[k] : Accounted(k, t)

Proper(list, t) == Distinct(list) /\ \A k \in Keys : Has(list, k) => t \in TagsOf[k]

Listed ==
  /\ \A s \in Sides, t \in Tags : Proper(index[s][t], t)
  /\ \A r \in Readers : pc[r] = "index" => todo[r] \subseteq TagsOf[key[r]]
  /\ \A k \in Keys, t \in Tags : <<k, t>> \in dropped => Crowded(t)

LEMMA EmptyProper == \A t : Proper(<<>>, t)
  BY DEF Proper, Distinct, Has

\* As many keys carry a tag as its list names.
LEMMA Many ==
  ASSUME NEW t \in Tags, NEW list \in Seq(Keys), Proper(list, t), Len(list) > MaxRecorded
  PROVE  Crowded(t)
  <1> DEFINE T == {k \in Keys : t \in TagsOf[k]}
             n == Len(list)
             f == [i \in 1 .. n |-> list[i]]
  <1>1. n \in Nat /\ MaxRecorded \in Nat /\ IsFiniteSet(Keys) /\ n > MaxRecorded
    BY TagCacheAssumption
  <1>2. IsFiniteSet(T) /\ Cardinality(T) \in Nat
    <2>1. T \in SUBSET Keys
      OBVIOUS
    <2>2. IsFiniteSet(T)
      BY <1>1, <2>1, FS_Subset
    <2> QED
      BY <2>2, FS_CardinalityType
  <1>3. \A i \in 1 .. n : list[i] \in T
    BY DEF Proper, Has
  <1>4. f \in [1 .. n -> T]
    BY <1>3
  <1>5. \A i, j \in 1 .. n : f[i] = f[j] => i = j
    BY DEF Proper, Distinct
  <1>6. f \in Injection(1 .. n, T)
    BY <1>4, <1>5, Zenon DEF Injection, IsInjective
  <1>7. Cardinality(1 .. n) <= Cardinality(T)
    BY <1>2, <1>6, FS_Injection
  <1>8. Cardinality(1 .. n) = n
    BY <1>1, FS_Interval, SMTT(30)
  <1> QED
    BY <1>1, <1>2, <1>7, <1>8 DEF Crowded

\* What Index does to the list of its tag, and to dropped.
LEMMA IndexFacts ==
  ASSUME Typed, Listed, NEW r \in Readers, NEW t \in Tags, Index(r, t)
  PROVE  /\ \A s \in Sides, u \in Tags :
              index'[s][u] = index[s][u] \/ (s = Side(Home[r]) /\ u = t)
         /\ Proper(index'[Side(Home[r])][t], t)
         /\ \A k \in Keys : Has(index[Side(Home[r])][t], k) \/ k = key[r] =>
              Has(index'[Side(Home[r])][t], k) \/ <<k, t>> \in dropped'
         /\ \A k \in Keys, u \in Tags : <<k, u>> \in dropped =>
              <<k, u>> \in dropped' \/ (k = key[r] /\ u = t)
         /\ \A k \in Keys, u \in Tags : <<k, u>> \in dropped' => Crowded(u)
  <1> DEFINE s    == Side(Home[r])
             next == With(index[s][t], key[r])
             new  == Bounded(s, next)
             cut  == {k \in Keys : Has(next, k) /\ ~Has(new, k)}
  <1>1. s \in Sides /\ key[r] \in Keys /\ index[s][t] \in Seq(Keys) /\ index \in [Sides -> [Tags -> Seq(Keys)]]
    BY SideType DEF Typed, TypeOK
  <1>2. /\ index' = [index EXCEPT ![s][t] = new]
        /\ dropped' = (dropped \ {<<key[r], t>>}) \cup {<<k, t>> : k \in cut}
        /\ pc[r] = "index" /\ t \in todo[r]
    BY DEF Index, Turn, Goto
  <1>3. /\ next \in Seq(Keys) /\ Has(next, key[r])
        /\ \A k : Has(index[s][t], k) => Has(next, k)
        /\ \A k : Has(next, k) => Has(index[s][t], k) \/ k = key[r]
        /\ Distinct(index[s][t]) => Distinct(next)
    BY <1>1, WithFacts
  <1>4. Proper(next, t)
    BY <1>1, <1>2, <1>3 DEF Listed, Proper
  <1>5. /\ \A k : Has(new, k) => Has(next, k)
        /\ Distinct(next) => Distinct(new)
        /\ Len(next) <= MaxRecorded => new = next
    BY <1>3, BoundedFacts
  <1>6. index'[s][t] = new /\ \A p \in Sides, u \in Tags :
          index'[p][u] = index[p][u] \/ (p = s /\ u = t)
    BY <1>1, <1>2
  <1>7. Proper(new, t)
    BY <1>4, <1>5 DEF Proper
  <1>8. cut # {} => Crowded(t)
    <2>1. Len(next) \in Nat /\ MaxRecorded \in Nat
      BY <1>3, TagCacheAssumption
    <2>2. cut # {} => Len(next) > MaxRecorded
      BY <1>5, <2>1
    <2> QED
      BY <1>3, <1>4, <2>2, Many
  <1>9. \A k \in Keys, u \in Tags : <<k, u>> \in dropped' =>
          <<k, u>> \in dropped \/ (u = t /\ cut # {})
    BY <1>2
  <1>10. \A k \in Keys : Has(next, k) => Has(new, k) \/ <<k, t>> \in dropped'
    BY <1>2
  <1>11. \A k \in Keys, u \in Tags : <<k, u>> \in dropped' => Crowded(u)
    BY <1>8, <1>9 DEF Listed
  <1>12. \A k \in Keys, u \in Tags : <<k, u>> \in dropped =>
           <<k, u>> \in dropped' \/ (k = key[r] /\ u = t)
    BY <1>2
  <1> QED
    BY <1>3, <1>6, <1>7, <1>10, <1>11, <1>12

LEMMA ListedStep == Typed /\ Listed /\ [Next]_vars => Listed'
  <1> SUFFICES ASSUME Typed, Listed, [Next]_vars PROVE Listed'
    OBVIOUS
  <1>1. ASSUME NEW r \in Readers, NEW t \in Tags, Index(r, t) PROVE Listed'
    <2>1. \A s \in Sides, u \in Tags : Proper(index'[s][u], u)
      BY <1>1, IndexFacts DEF Listed
    <2>2. \A k \in Keys, u \in Tags : <<k, u>> \in dropped' => Crowded(u)
      BY <1>1, IndexFacts
    <2>3. \A q \in Readers : pc'[q] = "index" => todo'[q] \subseteq TagsOf[key'[q]]
      BY <1>1 DEF Index, Turn, Goto, Listed, Typed, TypeOK
    <2> QED
      BY <2>1, <2>2, <2>3 DEF Listed, Proper
  <1>2. ASSUME UNCHANGED recorded,
               \A r \in Readers : pc'[r] = "index" => todo'[r] \subseteq TagsOf[key'[r]]
        PROVE  Listed'
    BY <1>2 DEF Listed, Proper
  <1>3. ASSUME NEW r \in Readers, NEW k \in Keys, Arrive(r, k) PROVE Listed'
    BY <1>2, <1>3 DEF Arrive, Goto, Listed, Typed, TypeOK
  <1>4. ASSUME NEW r \in Readers, NEW t \in Tags, Capture(r, t) PROVE Listed'
    BY <1>2, <1>4 DEF Capture, Turn, Goto, Listed, Typed, TypeOK
  <1>5. ASSUME NEW r \in Readers, NEW t \in Tags, Check(r, t) PROVE Listed'
    BY <1>2, <1>5 DEF Check, Turn, Goto, Listed, Typed, TypeOK
  <1>6. ASSUME NEW r \in Readers, NEW t \in Tags, Reject(r, t) PROVE Listed'
    BY <1>2, <1>6 DEF Reject, Goto, Listed, Typed, TypeOK
  <1>7. ASSUME NEW r \in Readers, Get(r) PROVE Listed'
    BY <1>2, <1>7 DEF Get, Goto, Listed, Typed, TypeOK
  <1>8. ASSUME NEW r \in Readers, Hit(r) \/ Compute(r) PROVE Listed'
    BY <1>2, <1>8 DEF Hit, Compute, Goto, Listed, Typed, TypeOK
  <1>9. ASSUME NEW r \in Readers, Store(r) PROVE Listed'
    BY <1>2, <1>9 DEF Store, Goto, Listed, Typed, TypeOK
  <1>10. ASSUME NEW r \in Readers, Reply(r) PROVE Listed'
    BY <1>2, <1>10 DEF Reply, Forget, Listed, Typed, TypeOK
  <1>11. ASSUME NEW w \in Writers, BumpShared(w) PROVE Listed'
    BY <1>11, EmptyProper DEF BumpShared, Listed, Proper, Typed, TypeOK
  <1>12. ASSUME NEW w \in Writers, Swap(w) PROVE Listed'
    <2>1. index' \in {index, [index EXCEPT ![Side(Home[w])][tag[w]] = <<>>]}
      BY <1>12, Zenon DEF Swap
    <2>2. \A s \in Sides, t \in Tags : index'[s][t] \in {index[s][t], <<>>}
      <3>1. Side(Home[w]) \in Sides /\ tag[w] \in Tags
        BY SideType DEF Typed, TypeOK
      <3> QED
        BY <2>1, <3>1, EmptiedType DEF Typed
    <2>3. \A s \in Sides, t \in Tags : Proper(index'[s][t], t)
      BY <2>2, EmptyProper DEF Listed
    <2> QED
      BY <1>12, <2>3 DEF Swap, Listed, Proper
  <1>13. ASSUME NEW w \in Writers,
                (\E t \in Tags : Write(w, t)) \/ Bump(w) \/ Look(w) \/ Delete(w)
         PROVE  Listed'
    BY <1>2, <1>13 DEF Write, Bump, Look, Delete, Listed
  <1>14. ASSUME NEW k \in Keys, Evict(k) PROVE Listed'
    BY <1>2, <1>14 DEF Evict, Listed
  <1>15. ASSUME NEW p \in Procs, Restart(p) PROVE Listed'
    <2>1. \A s \in Sides, t \in Tags : index'[s][t] \in {index[s][t], <<>>}
      BY <1>15 DEF Restart, Typed, TypeOK
    <2>2. \A s \in Sides, t \in Tags : Proper(index'[s][t], t)
      BY <2>1, EmptyProper DEF Listed
    <2> QED
      BY <1>15, <2>2 DEF Restart, Forget, Listed, Proper
  <1>16. CASE UNCHANGED vars
    BY <1>2, <1>16 DEF vars, Listed
  <1> QED
    BY <1>1, <1>3, <1>4, <1>5, <1>6, <1>7, <1>8, <1>9, <1>10, <1>11, <1>12, <1>13,
       <1>14, <1>15, <1>16 DEF Next, Read, Invalidate

LEMMA AccountedRead ==
  ASSUME Typed, Listed, Reached, NEW r \in Readers, Read(r)
  PROVE  Reached'
  <1>1. ASSUME Store(r) PROVE Reached'
    <2>1. UNCHANGED <<recorded, key, wpc, tag, doomed>>
      BY <1>1 DEF Store
    <2>2. \A k \in Keys : k # key[r] => store'[k] = store[k]
      BY <1>1 DEF Store, Typed, TypeOK
    <2>3. \A q \in Readers : q # r => pc'[q] = pc[q] /\ todo'[q] = todo[q]
      BY <1>1 DEF Store, Goto, Typed, TypeOK
    <2>4. pc[r] = "store"
      BY <1>1 DEF Store, Goto
    <2>5. \A t \in TagsOf[key[r]] : pc'[r] = "index" /\ key'[r] = key[r] /\ t \in todo'[r]
      BY <1>1 DEF Store, Goto, Typed, TypeOK
    <2>6. \A k \in Keys, t \in Tags : k # key[r] /\ Accounted(k, t) => Accounted(k, t)'
      BY <2>1, <2>3, <2>4 DEF Accounted
    <2>7. \A k \in Keys : \A t \in TagsOf[k] : t \in Tags
      BY TagsOfType
    <2>8. ASSUME NEW k \in Keys, store'[k] # NoEntry, NEW t \in TagsOf[k]
          PROVE  Accounted(k, t)'
      <3>1. CASE k = key[r]
        BY <2>5, <3>1 DEF Accounted
      <3>2. CASE k # key[r]
        BY <2>2, <2>6, <2>7, <2>8, <3>2 DEF Reached
      <3> QED
        BY <3>1, <3>2
    <2> QED
      BY <2>8 DEF Reached
  <1>2. ASSUME NEW t \in Tags, Index(r, t) PROVE Reached'
    <2> DEFINE s == Side(Home[r])
    <2>1. UNCHANGED <<store, key, wpc, tag, doomed>> /\ s \in Sides /\ key[r] \in Keys
      BY <1>2, SideType DEF Index, Typed, TypeOK
    <2>2. \A q \in Readers : q # r => pc'[q] = pc[q] /\ todo'[q] = todo[q]
      BY <1>2 DEF Index, Turn, Goto, Typed, TypeOK
    <2>3. todo'[r] = todo[r] \ {t} /\ (todo[r] # {t} => pc'[r] = pc[r]) /\ pc[r] = "index"
      BY <1>2 DEF Index, Turn, Goto, Typed, TypeOK
    <2>4. \A p \in Sides, u \in Tags : index'[p][u] = index[p][u] \/ (p = s /\ u = t)
      BY <1>2, IndexFacts
    <2>5. \A k \in Keys : Has(index[s][t], k) \/ k = key[r] => Accounted(k, t)'
      BY <1>2, <2>1, IndexFacts DEF Accounted
    <2>6. \A k \in Keys, u \in Tags : <<k, u>> \in dropped =>
            <<k, u>> \in dropped' \/ (k = key[r] /\ u = t)
      BY <1>2, IndexFacts
    <2>7. ASSUME NEW k \in Keys, NEW u \in TagsOf[k], Accounted(k, u)
          PROVE  Accounted(k, u)'
      <3>1. u \in Tags
        BY TagsOfType
      <3>2. CASE \E p \in Sides : Has(index[p][u], k)
        <4>1. PICK p \in Sides : Has(index[p][u], k)
          BY <3>2
        <4>2. CASE p = s /\ u = t
          BY <2>5, <4>1, <4>2
        <4>3. CASE ~(p = s /\ u = t)
          <5>1. index'[p][u] = index[p][u]
            BY <2>4, <3>1, <4>3
          <5>2. Has(index'[p][u], k)
            BY <4>1, <5>1
          <5> QED
            BY <5>2 DEF Accounted
        <4> QED
          BY <4>2, <4>3
      <3>3. CASE \E q \in Readers : pc[q] = "index" /\ key[q] = k /\ u \in todo[q]
        <4>1. PICK q \in Readers : pc[q] = "index" /\ key[q] = k /\ u \in todo[q]
          BY <3>3
        <4>2. CASE q # r
          BY <2>1, <2>2, <4>1, <4>2 DEF Accounted
        <4>3. CASE q = r /\ u = t
          BY <2>5, <4>1, <4>3
        <4>4. CASE q = r /\ u # t
          BY <2>1, <2>3, <4>1, <4>4 DEF Accounted
        <4> QED
          BY <4>2, <4>3, <4>4
      <3>4. CASE \E w \in Writers : wpc[w] = "delete" /\ tag[w] = u /\ Has(doomed[w], k)
        BY <2>1, <3>4 DEF Accounted, Has
      <3>5. CASE <<k, u>> \in dropped
        BY <2>5, <2>6, <3>1, <3>5 DEF Accounted
      <3> QED
        BY <2>7, <3>2, <3>3, <3>4, <3>5 DEF Accounted
    <2> QED
      BY <2>1, <2>7 DEF Reached
  <1>3. ASSUME pc[r] # "index", pc'[r] # "index" \/ UNCHANGED <<pc, todo, key>>,
               \A q \in Readers : q # r => pc'[q] = pc[q] /\ todo'[q] = todo[q] /\ key'[q] = key[q],
               UNCHANGED <<store, recorded, wpc, tag, doomed>>
        PROVE  Reached'
    BY <1>3 DEF Reached, Accounted
  <1>4. ASSUME NEW k \in Keys, Arrive(r, k) PROVE Reached'
    BY <1>3, <1>4 DEF Arrive, Goto, Typed, TypeOK
  <1>5. ASSUME NEW t \in Tags, Capture(r, t) PROVE Reached'
    BY <1>3, <1>5 DEF Capture, Turn, Goto, Typed, TypeOK
  <1>6. ASSUME Get(r) PROVE Reached'
    BY <1>3, <1>6 DEF Get, Goto, Typed, TypeOK
  <1>7. ASSUME NEW t \in Tags, Check(r, t) PROVE Reached'
    BY <1>3, <1>7 DEF Check, Turn, Goto, Typed, TypeOK
  <1>8. ASSUME NEW t \in Tags, Reject(r, t) PROVE Reached'
    BY <1>3, <1>8 DEF Reject, Goto, Typed, TypeOK
  <1>9. ASSUME Hit(r) PROVE Reached'
    BY <1>3, <1>9 DEF Hit, Goto, Typed, TypeOK
  <1>10. ASSUME Compute(r) PROVE Reached'
    BY <1>3, <1>10 DEF Compute, Goto, Typed, TypeOK
  <1>11. ASSUME Reply(r) PROVE Reached'
    BY <1>3, <1>11 DEF Reply, Forget, Typed, TypeOK
  <1> QED
    BY <1>1, <1>2, <1>4, <1>5, <1>6, <1>7, <1>8, <1>9, <1>10, <1>11 DEF Read

LEMMA AccountedInvalidate ==
  ASSUME Typed, Reached, NEW w \in Writers, Invalidate(w)
  PROVE  Reached'
  <1>0. \A k \in Keys : \A t \in TagsOf[k] : t \in Tags
    BY TagsOfType
  <1>1. ASSUME Swap(w) PROVE Reached'
    <2> DEFINE s == Side(Home[w])
    <2>1. /\ UNCHANGED <<store, pc, key, todo, tag, doomed, dropped>> /\ s \in Sides
          /\ wpc[w] = "swap"
      BY <1>1, SideType DEF Swap
    <2>2. \A v \in Writers : v # w => wpc'[v] = wpc[v]
      BY <1>1 DEF Swap, Typed, TypeOK
    <2>3. CASE ~UnchangedIndex(w)
      <3>1. UNCHANGED index
        BY <1>1, <2>3 DEF Swap
      <3> QED
        BY <2>1, <2>2, <3>1 DEF Reached, Accounted
    <2>4. CASE UnchangedIndex(w)
      <3>1. doomed[w] = index[s][tag[w]] /\ wpc'[w] = "delete"
        BY <1>1, <2>4 DEF Swap, UnchangedIndex, Recorded, Typed, TypeOK
      <3>2. \A p \in Sides, t \in Tags : p # s \/ t # tag[w] => index'[p][t] = index[p][t]
        BY <1>1, <2>1, <2>4 DEF Swap, Typed, TypeOK
      <3>3. ASSUME NEW k \in Keys, NEW t \in Tags, Accounted(k, t) PROVE Accounted(k, t)'
        <4>1. ASSUME NEW p \in Sides, Has(index[p][t], k) PROVE Accounted(k, t)'
          <5>1. CASE p = s /\ t = tag[w]
            BY <2>1, <3>1, <4>1, <5>1 DEF Accounted
          <5>2. CASE ~(p = s /\ t = tag[w])
            <6>1. Has(index'[p][t], k)
              BY <3>2, <4>1, <5>2
            <6> QED
              BY <6>1 DEF Accounted
          <5> QED
            BY <5>1, <5>2
        <4> QED
          BY <2>1, <2>2, <3>3, <4>1 DEF Accounted
      <3> QED
        BY <1>0, <2>1, <3>3 DEF Reached
    <2> QED
      BY <2>3, <2>4
  <1>2. ASSUME Delete(w) PROVE Reached'
    <2> DEFINE j == Head(doomed[w])
    <2>1. UNCHANGED <<recorded, pc, key, todo, tag>> /\ store' = [store EXCEPT ![j] = NoEntry]
      BY <1>2 DEF Delete
    <2>2. \A v \in Writers : v # w => wpc'[v] = wpc[v] /\ doomed'[v] = doomed[v]
      BY <1>2 DEF Delete, Finish, Typed, TypeOK
    <2>3. doomed[w] \in Seq(Keys) /\ doomed[w] # <<>>
      BY <1>2 DEF Delete, Typed, TypeOK, Held
    <2>4. /\ doomed'[w] = Tail(doomed[w])
          /\ Len(doomed[w]) # 1 => wpc'[w] = wpc[w]
      BY <1>2 DEF Delete, Finish, Typed, TypeOK
    <2>5. \A k \in Keys : store'[k] # NoEntry => k # j /\ store[k] # NoEntry
      BY <2>1 DEF Typed, TypeOK
    <2>6. ASSUME NEW k, k # j, Has(doomed[w], k)
          PROVE  Len(doomed[w]) # 1 /\ Has(doomed'[w], k)
      <3>1. PICK i \in 1 .. Len(doomed[w]) : doomed[w][i] = k
        BY <2>6 DEF Has
      <3>2. i # 1 /\ Len(doomed[w]) \in Nat
        BY <2>3, <2>6, <3>1
      <3>3. /\ i - 1 \in 1 .. Len(Tail(doomed[w])) /\ Tail(doomed[w])[i - 1] = k
            /\ Len(doomed[w]) # 1
        BY <2>3, <3>1, <3>2
      <3> QED
        BY <2>4, <3>3 DEF Has
    <2>7. ASSUME NEW k \in Keys, NEW t \in Tags, k # j, Accounted(k, t)
          PROVE  Accounted(k, t)'
      <3>1. ASSUME NEW v \in Writers, wpc[v] = "delete", tag[v] = t, Has(doomed[v], k)
            PROVE  Accounted(k, t)'
        <4>1. wpc'[v] = "delete" /\ tag'[v] = t /\ Has(doomed'[v], k)
          <5>1. CASE v = w
            BY <2>1, <2>4, <2>6, <2>7, <3>1, <5>1
          <5>2. CASE v # w
            BY <2>1, <2>2, <3>1, <5>2 DEF Has
          <5> QED
            BY <5>1, <5>2
        <4> QED
          BY <4>1 DEF Accounted
      <3> QED
        BY <2>1, <2>7, <3>1 DEF Accounted
    <2> QED
      BY <1>0, <2>5, <2>7 DEF Reached
  <1>3. ASSUME BumpShared(w) PROVE Reached'
    <2>1. /\ UNCHANGED <<pc, key, todo, tag, doomed, dropped>> /\ wpc[w] = "bump"
          /\ Side(Home[w]) = Shared
      BY <1>3 DEF BumpShared, Side
    <2>2. \A v \in Writers : v # w => wpc'[v] = wpc[v]
      BY <1>3 DEF BumpShared, Finish, Typed, TypeOK
    <2>3. \A k \in Keys : store'[k] # NoEntry =>
            store[k] # NoEntry /\ ~Has(index[Shared][tag[w]], k)
      BY <1>3, <2>1 DEF BumpShared, Recorded, Typed, TypeOK
    <2>4. \A p \in Sides, t \in Tags :
            p # Shared \/ t # tag[w] => index'[p][t] = index[p][t]
      BY <1>3 DEF BumpShared, Typed, TypeOK
    <2>5. ASSUME NEW k \in Keys, NEW t \in Tags, ~Has(index[Shared][tag[w]], k),
                 Accounted(k, t)
          PROVE  Accounted(k, t)'
      <3>1. ASSUME NEW p \in Sides, Has(index[p][t], k) PROVE Accounted(k, t)'
        <4>1. index'[p][t] = index[p][t]
          BY <2>4, <2>5, <3>1
        <4>2. Has(index'[p][t], k)
          BY <3>1, <4>1
        <4> QED
          BY <4>2 DEF Accounted
      <3>2. CASE \E r \in Readers : pc[r] = "index" /\ key[r] = k /\ t \in todo[r]
        BY <2>1, <3>2 DEF Accounted
      <3>3. CASE \E v \in Writers : wpc[v] = "delete" /\ tag[v] = t /\ Has(doomed[v], k)
        BY <2>1, <2>2, <3>3 DEF Accounted
      <3>4. CASE <<k, t>> \in dropped
        BY <2>1, <3>4 DEF Accounted
      <3> QED
        BY <2>5, <3>1, <3>2, <3>3, <3>4 DEF Accounted
    <2> QED
      BY <1>0, <2>3, <2>5 DEF Reached
  <1>4. ASSUME wpc[w] # "delete", UNCHANGED <<store, recorded, pc, key, todo>>,
               \A v \in Writers : v # w => wpc'[v] = wpc[v] /\ tag'[v] = tag[v] /\ doomed'[v] = doomed[v]
        PROVE  Reached'
    BY <1>4 DEF Reached, Accounted
  <1>5. ASSUME NEW t \in Tags, Write(w, t) PROVE Reached'
    BY <1>4, <1>5 DEF Write, Typed, TypeOK
  <1>6. ASSUME Bump(w) PROVE Reached'
    BY <1>4, <1>6 DEF Bump, Typed, TypeOK
  <1>7. ASSUME Look(w) PROVE Reached'
    BY <1>4, <1>7 DEF Look, Finish, Typed, TypeOK
  <1> QED
    BY <1>1, <1>2, <1>3, <1>5, <1>6, <1>7 DEF Invalidate

\* With a store that dies with its process, or where no process restarts,
\* every entry is recorded under each of its tags, about to be recorded or
\* about to be deleted, however fills, sweeps and evictions interleave, but for
\* a key that the cap has cut off the list of a tag that more keys carry.
THEOREM Reachable ==
  ASSUME ~Persistent \/ MaxRestarts = 0
  PROVE  Spec => []NoOrphan
  <1>1. Init => Typed /\ Listed /\ Reached
    <2>1. Init => Listed
      BY EmptyProper DEF Init, Listed
    <2> QED
      BY <2>1, TypedInit DEF Init, Reached
  <1>2. Typed /\ Listed /\ Reached /\ [Next]_vars => Typed' /\ Listed' /\ Reached'
    <2> SUFFICES ASSUME Typed, Listed, Reached, [Next]_vars PROVE Reached'
      BY TypedStep, ListedStep
    <2>1. ASSUME NEW k \in Keys, Evict(k) PROVE Reached'
      <3>1. \A j \in Keys : store'[j] # NoEntry => store[j] # NoEntry
        BY <2>1 DEF Evict, Typed, TypeOK
      <3>2. UNCHANGED <<recorded, pc, key, todo, wpc, tag, doomed>>
        BY <2>1 DEF Evict
      <3> QED
        BY <3>1, <3>2 DEF Reached, Accounted
    <2>2. ASSUME NEW p \in Procs, Restart(p) PROVE Reached'
      <3>1. ~Persistent
        BY <2>2 DEF Restart, Typed, TypeOK
      <3> QED
        BY <2>2, <3>1 DEF Restart, Reached
    <2>3. CASE UNCHANGED vars
      BY <2>3 DEF vars, Reached, Accounted
    <2> QED
      BY <2>1, <2>2, <2>3, AccountedRead, AccountedInvalidate DEF Next
  <1>3. Listed /\ Reached => NoOrphan
    <2> SUFFICES ASSUME Listed, Reached, NEW k \in Keys, store[k] # NoEntry, NEW t \in TagsOf[k]
                 PROVE  Accounted(k, t) /\ (<<k, t>> \in dropped => Crowded(t))
      BY DEF NoOrphan, Accounted
    <2>1. t \in Tags
      BY TagsOfType
    <2> QED
      BY <2>1 DEF Reached, Listed
  <1> QED
    BY <1>1, <1>2, <1>3, PTL DEF Spec
=============================================================================
