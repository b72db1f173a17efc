---------------------------- MODULE CacheProofs ----------------------------
(* Theorems about Cache, for every number of users, keys and addresses.    *)
EXTENDS Cache, FiniteSetTheorems, TLAPS

USE CacheAssumption

----------------------------------------------------------------------------
(* Type correctness.                                                       *)

\* Growing a buffer yields a natural number of blocks.
LEMMA GrownType ==
    ASSUME NEW c \in Nat, NEW need \in Nat
    PROVE  Grown(c, need) \in Nat
BY DEF Grown

LEMMA FreshType ==
    /\ Blank \in EntryFields
    /\ \A k \in Keys : Fresh(k) \in EntryFields
BY DEF Blank, Fresh, EntryFields

LEMMA FreedType ==
    ASSUME TypeOK, NEW S
    PROVE  Freed(S) \in [Entries -> EntryFields]
BY FreshType DEF Freed, TypeOK

LEMMA MoveType ==
    ASSUME TypeOK, NEW u, NEW e, NEW p \in Points
    PROVE  MoveAndBroadcast(u, p, e) \in [Users -> Points]
BY DEF MoveAndBroadcast, TypeOK, Points, Holding, Reading

\* A user that holds an entry of the table is counted in its refcnt.
LEMMA HolderCounted ==
    ASSUME TypeOK, RefsLinked, RefcntExact, NEW u \in Users, at[u] \in Holding
    PROVE  /\ ref[u] \in linked
           /\ entry[ref[u]].refcnt \in Nat \ {0}
<1>1. ref[u] \in linked
  BY DEF RefsLinked
<1>2. u \in Holders(ref[u]) /\ Holders(ref[u]) \in SUBSET Users
  BY DEF Holders
<1>3. IsFiniteSet(Holders(ref[u]))
  BY <1>2, FS_Subset
<1>4. Cardinality(Holders(ref[u])) \in Nat \ {0}
  BY <1>2, <1>3, FS_CardinalityType, FS_EmptySet
<1>5. QED
  BY <1>1, <1>4 DEF RefcntExact

\* Changing one entry to a well typed record keeps the type of the table.
LEMMA UpdateType ==
    ASSUME TypeOK, NEW e, NEW r \in EntryFields
    PROVE  [entry EXCEPT ![e] = r] \in [Entries -> EntryFields]
BY DEF TypeOK

\* A lookup that finds only droppable entries finds none: idle entries are
\* sealed, so the branch of cache_start_or_join that drops a failed entry is
\* never taken.
LEMMA NothingToDrop ==
    ASSUME IInv, NEW k \in Keys, \A d \in Lookup(k) : Droppable(d)
    PROVE  Lookup(k) = {}
BY DEF IInv, Consistent, IdleEntriesSealed, Lookup, Droppable

\* The user whose release brings refcnt down to zero is the only holder.
LEMMA LastHolder ==
    ASSUME IInv, NEW u \in Users, at[u] = "release", Left(ref[u]) <= 0
    PROVE  Holders(ref[u]) = {u}
<1>1. ref[u] \in linked /\ entry[ref[u]].refcnt = 1
  BY HolderCounted DEF IInv, Consistent, Left, Holding
<1>2. Cardinality(Holders(ref[u])) = 1
  BY <1>1 DEF IInv, RefcntExact
<1>3. u \in Holders(ref[u]) /\ IsFiniteSet(Holders(ref[u]))
  BY FS_Subset DEF Holders, Holding
<1>4. QED
  BY <1>2, <1>3, FS_Singleton

----------------------------------------------------------------------------
(* Every step preserves TypeOK.                                            *)

\* Every operation leaves well typed fields, a natural refcnt among them: no
\* user releases an entry whose count is down to zero.
LEMMA TypeStep ==
    ASSUME IInv, Next
    PROVE  TypeOK'
<1> USE DEF IInv, TypeOK, Points, Holding, Writing, Reading, Leaving
<1>1. ASSUME NEW u \in Users, NEW k \in Keys, Hit(u, k)
      PROVE  TypeOK'
  BY <1>1 DEF Hit, Lookup, CountRef, EntryFields
<1>2. ASSUME NEW u \in Users, NEW k \in Keys, Miss(u, k)
      PROVE  TypeOK'
  BY <1>2, FreedType, FreshType DEF Miss, Lookup
<1>3. ASSUME NEW u \in Users, NEW k \in Keys, MissNoMemory(u, k)
      PROVE  TypeOK'
  BY <1>3, FreedType DEF MissNoMemory
<1>4. ASSUME NEW u \in Users, NEW n \in 1..MaxAppend, Append(u, n)
      PROVE  TypeOK'
  <2> DEFINE need == entry[ref[u]].size + n
  <2>1. entry[ref[u]] \in EntryFields
    BY <1>4 DEF Append, Consistent, RefsLinked
  <2>2. need \in Nat /\ entry[ref[u]].capacity \in Nat
    BY <1>4, <2>1 DEF EntryFields
  <2>3. Grown(entry[ref[u]].capacity, need) \in Nat
    BY <2>2, GrownType
  <2>4. [entry[ref[u]] EXCEPT !.size = need, !.capacity = Grown(entry[ref[u]].capacity, need)]
           \in EntryFields
    BY <2>1, <2>2, <2>3 DEF EntryFields
  <2>5. entry' = [entry EXCEPT ![ref[u]] =
           [entry[ref[u]] EXCEPT !.size = need, !.capacity = Grown(entry[ref[u]].capacity, need)]]
    BY <1>4 DEF Append
  <2>6. entry' \in [Entries -> EntryFields]
    BY <2>4, <2>5
  <2>7. QED
    BY <1>4, <2>6, MoveType DEF Append
<1>5. ASSUME NEW u \in Users, NEW n \in 1..MaxAppend, AppendFails(u, n)
      PROVE  TypeOK'
  <2>1. entry' \in [Entries -> EntryFields]
    BY <1>5 DEF AppendFails, EntryFields
  <2>2. QED
    BY <1>5, <2>1, MoveType DEF AppendFails
<1>6. ASSUME NEW u \in Users, MarkComplete(u)
      PROVE  TypeOK'
  <2>1. entry' \in [Entries -> EntryFields]
    BY <1>6 DEF MarkComplete, EntryFields
  <2>2. QED
    BY <1>6, <2>1, MoveType DEF MarkComplete
<1>7. ASSUME NEW u \in Users, MarkFailed(u)
      PROVE  TypeOK'
  <2>1. entry' \in [Entries -> EntryFields]
    BY <1>7 DEF MarkFailed, EntryFields
  <2>2. QED
    BY <1>7, <2>1, MoveType DEF MarkFailed
<1>8. ASSUME NEW u \in Users, StreamWait(u)
      PROVE  TypeOK'
  BY <1>8 DEF StreamWait
<1>9. ASSUME NEW u \in Users, SpuriousWakeup(u)
      PROVE  TypeOK'
  BY <1>9 DEF SpuriousWakeup
<1>10. ASSUME NEW u \in Users, StreamEnd(u)
      PROVE  TypeOK'
  BY <1>10 DEF StreamEnd
<1>11. ASSUME NEW u \in Users, StreamChunk(u)
      PROVE  TypeOK'
  <2>1. offset[u] <= entry[ref[u]].size /\ ref[u] \in linked
    BY <1>11 DEF StreamChunk, Consistent, CopiesInBounds, RefsLinked
  <2>2. Chunk(u) \in Nat
    BY <2>1 DEF Chunk, Unread, EntryFields
  <2>3. QED
    BY <1>11, <2>2 DEF StreamChunk
<1>12. ASSUME NEW u \in Users, SendChunk(u)
      PROVE  TypeOK'
  BY <1>12 DEF SendChunk
<1>13. ASSUME NEW u \in Users, SendFails(u)
      PROVE  TypeOK'
  BY <1>13 DEF SendFails
<1>14. ASSUME NEW u \in Users, ReleaseShared(u)
      PROVE  TypeOK'
  <2>1. Left(ref[u]) \in Nat
    BY <1>14, HolderCounted DEF ReleaseShared, Consistent, Left
  <2>2. entry' \in [Entries -> EntryFields]
    BY <1>14, <2>1 DEF ReleaseShared, EntryFields
  <2>3. QED
    BY <1>14, <2>2 DEF ReleaseShared
<1>15. ASSUME NEW u \in Users, ReleaseKeep(u)
      PROVE  TypeOK'
  <2>1. Left(ref[u]) \in Nat
    BY <1>15, HolderCounted DEF ReleaseKeep, Consistent, Left
  <2>2. entry' \in [Entries -> EntryFields]
    BY <1>15, <2>1 DEF ReleaseKeep, EntryFields
  <2>3. QED
    BY <1>15, <2>2 DEF ReleaseKeep
<1>16. ASSUME NEW u \in Users, ReleaseUnlink(u)
      PROVE  TypeOK'
  <2>1. Left(ref[u]) \in Nat
    BY <1>16, HolderCounted DEF ReleaseUnlink, Consistent, Left
  <2>2. entry' \in [Entries -> EntryFields]
    BY <1>16, <2>1 DEF ReleaseUnlink, EntryFields
  <2>3. QED
    BY <1>16, <2>2 DEF ReleaseUnlink
<1>17. ASSUME NEW u \in Users, ReleaseLogged(u)
      PROVE  TypeOK'
  BY <1>17 DEF ReleaseLogged, Forget
<1>18. ASSUME NEW u \in Users, ReleaseDestroy(u)
      PROVE  TypeOK'
  BY <1>18, FreedType DEF ReleaseDestroy, Forget
<1>19. CASE TableDestroy
  BY <1>19, FreedType DEF TableDestroy, Forget
<1>20. QED
  BY <1>1, <1>2, <1>3, <1>4, <1>5, <1>6, <1>7, <1>8, <1>9, <1>10, <1>11, <1>12, <1>13, <1>14, <1>15, <1>16, <1>17, <1>18, <1>19
  DEF Next, Join, WriterStep, ReaderStep, ReleaseStep, Closed, vars

----------------------------------------------------------------------------
(* The four operations of a writer have one shape: they change the entry   *)
(* their user fills, then wake its readers.                                *)

\* A writer may extend its entry, fail it or complete it, if it knows
\* afterwards which of the three it did.
LEMMA WriterKeepsConsistent ==
    ASSUME IInv, TypeOK',
           NEW u \in Users, at[u] \in Writing,
           NEW r \in EntryFields, entry' = [entry EXCEPT ![ref[u]] = r],
           r.key = entry[ref[u]].key, r.refcnt = entry[ref[u]].refcnt,
           r.size >= entry[ref[u]].size, r.size <= r.capacity,
           NEW p, at' = MoveAndBroadcast(u, p, ref[u]),
           \/ p = "write" /\ ~r.complete /\ ~r.failed
           \/ p = "abort" /\ ~r.complete /\ r.failed
           \/ p = "release" /\ (r.complete <=> ~r.failed),
           UNCHANGED <<open, live, linked, ref, offset>>
    PROVE  Consistent'
<1> DEFINE e == ref[u]
<1>1. e \in linked /\ ~entry[e].complete
  BY DEF IInv, Consistent, RefsLinked, FillingHasWriter, Holding
<1>2. /\ entry'[e] = r
      /\ \A d \in Entries \ {e} : entry'[d] = entry[d]
  BY <1>1 DEF IInv, TypeOK
<1>3. /\ at'[u] = p
      /\ \A v \in Users \ {u} :
            \/ at'[v] = at[v] /\ ~(at[v] = "wait" /\ ref[v] = e)
            \/ at'[v] = "stream" /\ at[v] = "wait" /\ ref[v] = e
  BY DEF MoveAndBroadcast
<1>4. \A v \in Users \ {u} : at[v] \in Writing => ref[v] # e
  BY DEF IInv, Consistent, FillingHasWriter
<1> HIDE DEF e
<1>5. RefsLinked'
  BY <1>1, <1>3 DEF IInv, Consistent, RefsLinked, Holding, Writing, Reading
<1>6. FillingHasWriter'
  <2>1. ASSUME NEW d \in linked, ~entry'[d].complete, ~entry'[d].failed
        PROVE  \E v \in Users : v \in Writers(d)'
    <3>1. CASE d = e
      BY <1>2, <1>3, <2>1, <3>1 DEF Writers, Holders, Holding, Writing, e, IInv, TypeOK
    <3>2. CASE d # e
      <4>1. PICK v \in Users : v \in Writers(d)
        BY <1>2, <2>1, <3>2 DEF IInv, TypeOK, Consistent, FillingHasWriter
      <4>2. v # u /\ at'[v] = at[v]
        BY <1>3, <3>2, <4>1 DEF Writers, Holders, Writing, e
      <4>3. QED
        BY <4>1, <4>2 DEF Writers, Holders
    <3>3. QED
      BY <3>1, <3>2
  <2>2. \A v \in Users : at'[v] \in Writing =>
            /\ ~entry'[ref[v]].complete
            /\ entry'[ref[v]].failed <=> at'[v] = "abort"
    BY <1>1, <1>2, <1>3, <1>4 DEF e, IInv, TypeOK, Consistent,
       FillingHasWriter, RefsLinked, Holding, Writing
  <2>3. \A v, w \in Users :
            at'[v] \in Writing /\ at'[w] \in Writing /\ ref[v] = ref[w] => v = w
    BY <1>3, <1>4 DEF e, IInv, Consistent, FillingHasWriter, Writing
  <2>4. QED
    BY <2>1, <2>2, <2>3 DEF FillingHasWriter
<1>7. SleepersUpToDate'
  BY <1>1, <1>2, <1>3
  DEF IInv, Consistent, SleepersUpToDate, RefsLinked, Holding, Reading, TypeOK
<1>8. ReleasersKnow'
  BY <1>1, <1>2, <1>3 DEF IInv, Consistent, ReleasersKnow, TypeOK
<1>9. OneVerdict' /\ UniqueKeys' /\ IdleEntriesSealed' /\ AllOutWhenClosed'
  <2>1. OneVerdict' /\ UniqueKeys'
    BY <1>1, <1>2 DEF e, IInv, Consistent, OneVerdict, UniqueKeys, TypeOK
  <2>2. entry[e].refcnt # 0
    BY <1>1, HolderCounted DEF e, IInv, Consistent, Holding
  <2>3. IdleEntriesSealed'
    BY <1>1, <1>2, <2>2 DEF e, IInv, Consistent, IdleEntriesSealed, TypeOK
  <2>4. AllOutWhenClosed'
    BY <1>3 DEF IInv, Consistent, AllOutWhenClosed, Writing
  <2>5. QED
    BY <2>1, <2>3, <2>4
<1>10. NoLeak'
  <2>1. {v \in Users : at'[v] = "destroy"} = {v \in Users : at[v] = "destroy"}
    BY <1>3 DEF Writing
  <2>2. QED
    BY <2>1 DEF IInv, Consistent, NoLeak
<1>11. CopiesInBounds'
  BY <1>1, <1>2, <1>3
  DEF e, IInv, Consistent, CopiesInBounds, RefsLinked, TypeOK, Holding, Reading, EntryFields
<1>12. QED
  BY <1>5, <1>6, <1>7, <1>8, <1>9, <1>10, <1>11 DEF Consistent

\* cache_append_data, cache_mark_complete and cache_mark_failed do so.
LEMMA WriterStepConsistent ==
    ASSUME IInv, TypeOK', NEW u \in Users, WriterStep(u)
    PROVE  Consistent'
<1> DEFINE e == ref[u]
<1>1. ASSUME at[u] \in Writing
      PROVE  e \in linked /\ entry[e] \in EntryFields /\ ~entry[e].complete
             /\ (entry[e].failed <=> at[u] = "abort") /\ entry[e].size <= entry[e].capacity
  <2>1. e \in linked
    BY <1>1 DEF IInv, Consistent, RefsLinked, Holding
  <2>2. e \in live
    BY <2>1 DEF IInv, Consistent, NoLeak
  <2>3. QED
    BY <1>1, <2>1, <2>2 DEF IInv, TypeOK, Consistent, FillingHasWriter, CopiesInBounds
<1>2. ASSUME NEW n \in 1..MaxAppend, Append(u, n)
      PROVE  Consistent'
  <2> DEFINE need == entry[e].size + n
             r == [entry[e] EXCEPT !.size = need, !.capacity = Grown(entry[e].capacity, need)]
  <2>1. at[u] \in Writing /\ at[u] = "write"
    BY <1>2 DEF Append, Writing
  <2>2. need \in Nat /\ entry[e].capacity \in Nat
    BY <1>1, <2>1 DEF EntryFields
  <2>3. Grown(entry[e].capacity, need) \in Nat /\ need <= Grown(entry[e].capacity, need)
    BY <2>2, GrownType DEF Grown
  <2>4. r \in EntryFields
    BY <1>1, <2>1, <2>2, <2>3 DEF EntryFields
  <2>5. entry' = [entry EXCEPT ![e] = r]
    BY <1>2 DEF Append
  <2>6. r.key = entry[e].key /\ r.refcnt = entry[e].refcnt /\ r.size = need
        /\ r.capacity = Grown(entry[e].capacity, need) /\ r.failed = entry[e].failed /\ r.complete = entry[e].complete
    BY <1>1, <2>1 DEF EntryFields
  <2>7. r.size >= entry[e].size
    BY <1>1, <2>1, <2>6 DEF EntryFields
  <2> HIDE DEF r, need
  <2>8. QED
    BY <1>1, <1>2, <2>1, <2>3, <2>4, <2>5, <2>6, <2>7, WriterKeepsConsistent DEF Append
<1>3. ASSUME at[u] \in Writing, NEW p, at' = MoveAndBroadcast(u, p, e),
             entry' = [entry EXCEPT ![e].failed = TRUE], p \in {"abort", "release"},
             UNCHANGED <<open, live, linked, ref, offset>>
      PROVE  Consistent'
  <2> DEFINE r == [entry[e] EXCEPT !.failed = TRUE]
  <2>1. r \in EntryFields /\ entry' = [entry EXCEPT ![e] = r]
    BY <1>1, <1>3 DEF EntryFields
  <2>2. /\ r.key = entry[e].key /\ r.refcnt = entry[e].refcnt /\ r.size = entry[e].size
        /\ r.capacity = entry[e].capacity /\ r.failed /\ ~r.complete
        /\ entry[e].size \in Nat
    BY <1>1, <1>3 DEF EntryFields
  <2>3. r.size >= entry[e].size /\ r.size <= r.capacity
    BY <1>1, <1>3, <2>2
  <2> HIDE DEF r
  <2>4. QED
    BY <1>3, <2>1, <2>2, <2>3, WriterKeepsConsistent
<1>4. ASSUME MarkComplete(u)
      PROVE  Consistent'
  <2> DEFINE r == [entry[e] EXCEPT !.complete = TRUE]
  <2>1. at[u] \in Writing
    BY <1>4 DEF MarkComplete, Writing
  <2>2. r \in EntryFields /\ entry' = [entry EXCEPT ![e] = r]
    BY <1>1, <1>4, <2>1 DEF MarkComplete, EntryFields
  <2>3. /\ r.key = entry[e].key /\ r.refcnt = entry[e].refcnt /\ r.size = entry[e].size
        /\ r.capacity = entry[e].capacity /\ r.complete /\ ~r.failed
        /\ entry[e].size \in Nat
    BY <1>1, <1>4, <2>1 DEF EntryFields, MarkComplete
  <2>4. r.size >= entry[e].size /\ r.size <= r.capacity
    BY <1>1, <2>1, <2>3
  <2> HIDE DEF r
  <2>5. QED
    BY <1>4, <2>1, <2>2, <2>3, <2>4, WriterKeepsConsistent DEF MarkComplete
<1>5. ASSUME NEW n \in 1..MaxAppend, AppendFails(u, n)
      PROVE  Consistent'
  BY <1>3, <1>5 DEF AppendFails, Writing
<1>6. ASSUME MarkFailed(u)
      PROVE  Consistent'
  BY <1>3, <1>6 DEF MarkFailed
<1>7. QED
  BY <1>2, <1>4, <1>5, <1>6 DEF WriterStep


----------------------------------------------------------------------------
(* Every step preserves Consistent.                                        *)

\* Users, table and entries stay consistent with each other.
LEMMA ConsistentStep ==
    ASSUME IInv, TypeOK', Next
    PROVE  Consistent'
<1>1. ASSUME NEW u \in Users, WriterStep(u)
      PROVE  Consistent'
  BY <1>1, WriterStepConsistent
<1>2. ASSUME NEW u \in Users, ReleaseUnlink(u)
      PROVE  Holders(ref[u]) = {u}
  BY <1>2, LastHolder DEF ReleaseUnlink
<1> USE DEF IInv, TypeOK, Consistent, RefsLinked, FillingHasWriter,
            SleepersUpToDate, ReleasersKnow, OneVerdict, UniqueKeys, IdleEntriesSealed,
            NoLeak, AllOutWhenClosed, CopiesInBounds, Holders, Writers,
            Points, Holding, Writing, Reading, Leaving, EntryFields
<1>3. ASSUME NEW u \in Users, NEW k \in Keys, Hit(u, k)
      PROVE  Consistent'
  BY <1>3, SMTT(60) DEF Hit, Lookup, Droppable, CountRef
<1>4. ASSUME NEW u \in Users, NEW k \in Keys, Miss(u, k)
      PROVE  Consistent'
  BY <1>4, SMTT(60) DEF Miss, Lookup, Droppable, Freed, Fresh, Blank
<1>5. ASSUME NEW u \in Users, NEW k \in Keys, MissNoMemory(u, k)
      PROVE  Consistent'
  BY <1>5, SMTT(60) DEF MissNoMemory, Lookup, Droppable, Freed, Blank
<1>6. ASSUME NEW u \in Users, StreamWait(u)
      PROVE  Consistent'
  BY <1>6, SMTT(60) DEF StreamWait
<1>7. ASSUME NEW u \in Users, SpuriousWakeup(u)
      PROVE  Consistent'
  BY <1>7, SMTT(60) DEF SpuriousWakeup
<1>8. ASSUME NEW u \in Users, StreamEnd(u)
      PROVE  Consistent'
  BY <1>8, SMTT(60) DEF StreamEnd
<1>9. ASSUME NEW u \in Users, StreamChunk(u)
      PROVE  Consistent'
  BY <1>9, SMTT(60) DEF StreamChunk, Chunk, Unread
<1>10. ASSUME NEW u \in Users, SendChunk(u)
      PROVE  Consistent'
  BY <1>10, SMTT(60) DEF SendChunk
<1>11. ASSUME NEW u \in Users, SendFails(u)
      PROVE  Consistent'
  BY <1>11, SMTT(60) DEF SendFails
<1>12. ASSUME NEW u \in Users, ReleaseShared(u)
      PROVE  Consistent'
  BY <1>12, SMTT(60) DEF ReleaseShared, Left
<1>13. ASSUME NEW u \in Users, ReleaseKeep(u)
      PROVE  Consistent'
  BY <1>13, SMTT(60) DEF ReleaseKeep, Left, Keeps
<1>14. ASSUME NEW u \in Users, ReleaseUnlink(u)
      PROVE  Consistent'
  <2>1. Holders(ref[u]) = {u}
    BY <1>14, <1>2
  <2>2. RefsLinked'
    BY <1>14, <2>1, SMTT(60) DEF ReleaseUnlink, Left, Keeps
  <2>3. /\ FillingHasWriter' /\ SleepersUpToDate' /\ ReleasersKnow'
        /\ OneVerdict' /\ UniqueKeys' /\ IdleEntriesSealed' /\ AllOutWhenClosed' /\ CopiesInBounds'
    BY <1>14, <2>1, SMTT(60) DEF ReleaseUnlink, Left, Keeps
  <2>4. NoLeak'
    BY <1>14, SMTT(60) DEF ReleaseUnlink, Left, Keeps
  <2>5. QED
    BY <2>2, <2>3, <2>4
<1>15. ASSUME NEW u \in Users, ReleaseLogged(u)
      PROVE  Consistent'
  BY <1>15, SMTT(60) DEF ReleaseLogged, Forget
<1>16. ASSUME NEW u \in Users, ReleaseDestroy(u)
      PROVE  Consistent'
  BY <1>16, SMTT(60) DEF ReleaseDestroy, Forget, Freed, Blank
<1>17. CASE TableDestroy
  BY <1>17, SMTT(60) DEF TableDestroy, Freed, Blank
<1>18. QED
  BY <1>1, <1>2, <1>3, <1>4, <1>5, <1>6, <1>7, <1>8, <1>9, <1>10, <1>11, <1>12, <1>13, <1>14, <1>15, <1>16, <1>17
  DEF Next, Join, ReaderStep, ReleaseStep, Closed, vars

----------------------------------------------------------------------------
(* Every step preserves RefcntExact.                                       *)

\* A step in which nobody joins or releases an entry leaves the counts exact.
LEMMA SameHolders ==
    ASSUME IInv, linked' \subseteq linked,
           \A e \in linked' : entry'[e].refcnt = entry[e].refcnt,
           \A u \in Users : at'[u] \in Holding <=> at[u] \in Holding,
           \A u \in Users : at[u] \in Holding => ref'[u] = ref[u]
    PROVE  RefcntExact'
<1>1. \A e \in linked' : Holders(e)' = Holders(e)
  BY DEF Holders
<1>2. QED
  BY <1>1 DEF IInv, RefcntExact

\* A writer keeps its reference whatever it does to its entry.
LEMMA WriterStepCounts ==
    ASSUME IInv, NEW u \in Users, WriterStep(u)
    PROVE  RefcntExact'
<1>1. \A e \in linked : entry'[e].refcnt = entry[e].refcnt
  <2> USE DEF IInv, TypeOK, EntryFields
  <2>1. ASSUME NEW n \in 1..MaxAppend, Append(u, n)
        PROVE  \A e \in linked : entry'[e].refcnt = entry[e].refcnt
    BY <2>1 DEF Append
  <2>2. ASSUME NEW n \in 1..MaxAppend, AppendFails(u, n)
        PROVE  \A e \in linked : entry'[e].refcnt = entry[e].refcnt
    BY <2>2 DEF AppendFails
  <2>3. CASE MarkComplete(u) \/ MarkFailed(u)
    BY <2>3 DEF MarkComplete, MarkFailed
  <2>4. QED
    BY <2>1, <2>2, <2>3 DEF WriterStep
<1>2. /\ at[u] \in Writing /\ linked' = linked /\ ref' = ref
      /\ \E p \in {"write", "abort", "release"} : at' = MoveAndBroadcast(u, p, ref[u])
  BY DEF WriterStep, Append, AppendFails, MarkComplete, MarkFailed, Writing
<1>3. \A v \in Users : at'[v] \in Holding <=> at[v] \in Holding
  BY <1>2 DEF MoveAndBroadcast, Holding, Reading, Writing
<1>4. QED
  BY <1>1, <1>2, <1>3, SameHolders

\* A user that was out and now holds e is one more holder of e, and counted.
LEMMA HitCounts ==
    ASSUME IInv, NEW u \in Users, NEW k \in Keys, Hit(u, k)
    PROVE  RefcntExact'
<1>1. PICK e \in Lookup(k) :
        /\ entry' = [entry EXCEPT ![e].refcnt = CountRef(e)]
        /\ ref' = [ref EXCEPT ![u] = e]
  BY DEF Hit
<1>2. /\ e \in linked /\ linked' = linked
      /\ at[u] = "out" /\ at' = [at EXCEPT ![u] = "stream"]
  BY DEF Hit, Lookup
<1>3. u \notin Holders(e) /\ IsFiniteSet(Holders(e))
  BY <1>2, FS_Subset DEF Holders, Holding, Writing, Reading
<1>4. Holders(e)' = Holders(e) \cup {u}
  BY <1>1, <1>2 DEF IInv, TypeOK, Holders, Holding, Reading
<1>5. entry'[e].refcnt = Cardinality(Holders(e)')
  <2>1. entry'[e].refcnt = entry[e].refcnt + 1
    BY <1>1, <1>2 DEF IInv, TypeOK, EntryFields, CountRef
  <2>2. Cardinality(Holders(e)') = Cardinality(Holders(e)) + 1
    BY <1>3, <1>4, FS_AddElement
  <2>3. QED
    BY <1>2, <2>1, <2>2 DEF IInv, RefcntExact
<1>6. ASSUME NEW d \in linked, d # e
      PROVE  entry'[d].refcnt = Cardinality(Holders(d)')
  <2>1. Holders(d)' = Holders(d)
    BY <1>1, <1>2, <1>6 DEF IInv, TypeOK, Holders, Holding, Writing, Reading
  <2>2. QED
    BY <1>1, <1>2, <1>6, <2>1 DEF IInv, TypeOK, RefcntExact
<1>7. QED
  BY <1>2, <1>5, <1>6 DEF RefcntExact

\* A new entry is held by the user it was created for and by nobody else.
LEMMA MissCounts ==
    ASSUME IInv, NEW u \in Users, NEW k \in Keys, Miss(u, k)
    PROVE  RefcntExact'
<1>1. Lookup(k) = {}
  BY NothingToDrop DEF Miss
<1>2. PICK e \in Entries \ live :
        /\ linked' = linked \cup {e}
        /\ entry' = [entry EXCEPT ![e] = Fresh(k)]
        /\ ref' = [ref EXCEPT ![u] = e]
        /\ at[u] = "out" /\ at' = [at EXCEPT ![u] = "write"]
  <2>1. Freed(Lookup(k)) = entry
    BY <1>1 DEF Freed, IInv, TypeOK
  <2>2. live \ Lookup(k) = live /\ linked \ Lookup(k) = linked
    BY <1>1
  <2>3. QED
    BY <2>1, <2>2 DEF Miss
<1>3. \A v \in Users : at[v] \in Holding => ref[v] # e
  BY <1>2 DEF IInv, Consistent, RefsLinked, NoLeak
<1>4. Holders(e)' = {u}
  BY <1>2, <1>3 DEF IInv, TypeOK, Holders, Holding, Writing
<1>5. entry'[e].refcnt = Cardinality(Holders(e)')
  BY <1>2, <1>4, FS_Singleton DEF IInv, TypeOK, Fresh, Blank
<1>6. ASSUME NEW d \in linked, d # e
      PROVE  entry'[d].refcnt = Cardinality(Holders(d)')
  <2>1. Holders(d)' = Holders(d)
    BY <1>2, <1>6 DEF IInv, TypeOK, Holders, Holding, Writing, Reading
  <2>2. QED
    BY <1>2, <1>6, <2>1 DEF IInv, TypeOK, RefcntExact
<1>7. QED
  BY <1>2, <1>5, <1>6 DEF RefcntExact

\* Giving a reference back takes one holder and one count away.
LEMMA ReleaseCounts ==
    ASSUME IInv, NEW u \in Users, at[u] = "release",
           entry' = [entry EXCEPT ![ref[u]].refcnt = Left(ref[u])],
           NEW p \in Leaving, at' = [at EXCEPT ![u] = p],
           linked' \subseteq linked, ref' = ref
    PROVE  RefcntExact'
<1>1. ref[u] \in linked
  BY HolderCounted DEF IInv, Consistent, Holding
<1>2. u \in Holders(ref[u]) /\ IsFiniteSet(Holders(ref[u]))
  BY FS_Subset DEF Holders, Holding
<1>3. Holders(ref[u])' = Holders(ref[u]) \ {u}
  BY DEF IInv, TypeOK, Holders, Holding, Writing, Reading, Leaving
<1>4. entry'[ref[u]].refcnt = Cardinality(Holders(ref[u])')
  <2>1. entry'[ref[u]].refcnt = entry[ref[u]].refcnt - 1
    BY <1>1 DEF IInv, TypeOK, EntryFields, Left
  <2>2. Cardinality(Holders(ref[u])') = Cardinality(Holders(ref[u])) - 1
    BY <1>2, <1>3, FS_RemoveElement
  <2>3. QED
    BY <1>1, <2>1, <2>2 DEF IInv, RefcntExact
<1>5. ASSUME NEW d \in linked, d # ref[u]
      PROVE  entry'[d].refcnt = Cardinality(Holders(d)')
  <2>1. Holders(d)' = Holders(d)
    BY <1>5 DEF IInv, TypeOK, Holders
  <2>2. QED
    BY <1>1, <1>5, <2>1 DEF IInv, TypeOK, RefcntExact
<1>6. QED
  BY <1>4, <1>5 DEF RefcntExact, Holders

\* Every step keeps the reference counts exact.
LEMMA RefcntStep ==
    ASSUME IInv, Next
    PROVE  RefcntExact'
<1>1. ASSUME NEW u \in Users, Join(u)
      PROVE  RefcntExact'
  <2>1. ASSUME NEW k \in Keys, MissNoMemory(u, k)
        PROVE  RefcntExact'
    <3>1. Lookup(k) = {}
      BY <2>1, NothingToDrop DEF MissNoMemory
    <3>2. entry' = entry /\ linked' = linked
      BY <2>1, <3>1 DEF MissNoMemory, Freed, IInv, TypeOK
    <3>3. QED
      BY <2>1, <3>2, SameHolders DEF MissNoMemory
  <2>2. QED
    BY <1>1, <2>1, HitCounts, MissCounts DEF Join
<1>2. ASSUME NEW u \in Users, WriterStep(u)
      PROVE  RefcntExact'
  BY <1>2, WriterStepCounts
<1>3. ASSUME NEW u \in Users, ReaderStep(u) \/ SpuriousWakeup(u)
      PROVE  RefcntExact'
  BY <1>3, SameHolders
  DEF IInv, TypeOK, ReaderStep, StreamWait, StreamEnd, StreamChunk, SendChunk,
      SendFails, SpuriousWakeup, Holding, Reading
<1>4. ASSUME NEW u \in Users, ReleaseStep(u)
      PROVE  RefcntExact'
  <2>1. CASE ReleaseShared(u) \/ ReleaseKeep(u) \/ ReleaseUnlink(u)
    BY <2>1, ReleaseCounts DEF ReleaseShared, ReleaseKeep, ReleaseUnlink, Leaving
  <2>2. CASE ReleaseLogged(u)
    BY <2>2, SameHolders DEF IInv, TypeOK, ReleaseLogged, Forget, Holding, Writing, Reading
  <2>3. CASE ReleaseDestroy(u)
    <3>1. ref[u] \notin linked
      BY <2>3 DEF ReleaseDestroy, IInv, Consistent, ReleasersKnow
    <3>2. \A e \in linked : entry'[e] = entry[e]
      BY <2>3, <3>1 DEF ReleaseDestroy, Freed, IInv, TypeOK
    <3>3. QED
      BY <2>3, <3>2, SameHolders
      DEF ReleaseDestroy, Forget, IInv, TypeOK, Holding, Writing, Reading
  <2>4. QED
    BY <1>4, <2>1, <2>2, <2>3 DEF ReleaseStep
<1>5. CASE TableDestroy
  BY <1>5 DEF TableDestroy, RefcntExact
<1>6. CASE Closed
  BY <1>6, SameHolders DEF Closed, vars
<1>7. QED
  BY <1>1, <1>2, <1>3, <1>4, <1>5, <1>6 DEF Next

----------------------------------------------------------------------------
(* The theorems.                                                           *)

\* IInv holds throughout every execution of the cache.
THEOREM Invariance == Spec => []IInv
<1>1. Init => IInv
  <2> SUFFICES ASSUME Init PROVE IInv
    OBVIOUS
  <2>1. TypeOK
    BY FreshType DEF Init, TypeOK, Points
  <2>2. Consistent
    BY DEF Init, Consistent, RefsLinked, FillingHasWriter, SleepersUpToDate,
       ReleasersKnow, OneVerdict, UniqueKeys, IdleEntriesSealed, NoLeak, AllOutWhenClosed,
       CopiesInBounds, Holding, Writing, Reading
  <2>3. QED
    BY <2>1, <2>2 DEF Init, IInv, RefcntExact
<1>2. IInv /\ [Next]_vars => IInv'
  <2> SUFFICES ASSUME IInv, [Next]_vars PROVE IInv'
    OBVIOUS
  <2>1. CASE Next
    BY <2>1, TypeStep, ConsistentStep, RefcntStep DEF IInv
  <2>2. CASE UNCHANGED vars
    BY <2>2 DEF vars, IInv, TypeOK, Consistent, RefsLinked, FillingHasWriter,
       SleepersUpToDate, ReleasersKnow, OneVerdict, UniqueKeys, IdleEntriesSealed, NoLeak,
       AllOutWhenClosed, CopiesInBounds, RefcntExact, Holders, Writers
  <2>3. QED
    BY <2>1, <2>2
<1>3. QED
  BY <1>1, <1>2, PTL DEF Spec

\* Every operation of the cache keeps its state well typed; in particular a
\* refcnt never gets below zero.
THEOREM TypeCorrect == Spec => []TypeOK
BY Invariance, PTL DEF IInv

\* e->refcnt counts exactly the users that joined e and did not release it.
THEOREM RefcntCorrect == Spec => []RefcntExact
BY Invariance, PTL DEF IInv

\* Requests for one key share one entry, and one user fills it.
THEOREM FetchOnce == Spec => []OneFetchPerKey
<1>1. IInv => OneFetchPerKey
  BY DEF IInv, Consistent, RefsLinked, FillingHasWriter, UniqueKeys,
     OneFetchPerKey, Holding
<1>2. QED
  BY <1>1, Invariance, PTL

\* No user of the cache dereferences an entry that was freed, the log line of
\* a non-last release excepted.
THEOREM MemorySafe == Spec => []NoUseAfterFree
<1>1. ASSUME IInv
      PROVE  NoUseAfterFree
  <2>1. linked \subseteq live
    BY <1>1 DEF IInv, Consistent, NoLeak
  <2>2. ASSUME NEW u \in Users, at[u] \in Holding \cup {"kept"}
        PROVE  ref[u] \in live \cap linked
    BY <1>1, <2>1, <2>2 DEF IInv, Consistent, RefsLinked, ReleasersKnow
  <2>3. ASSUME NEW u \in Users, at[u] = "destroy"
        PROVE  ref[u] \in live \ linked
    BY <1>1, <2>3 DEF IInv, Consistent, ReleasersKnow
  <2>4. ASSUME NEW u \in Users, at[u] = "destroy",
               NEW v \in Users, ref[v] = ref[u], v # u
        PROVE  at[v] = "log"
    <3>1. at[v] \notin Holding \cup {"kept"}
      BY <2>2, <2>3, <2>4
    <3>2. at[v] # "out" /\ at[v] # "destroy"
      BY <1>1, <2>3, <2>4, CacheAssumption
      DEF IInv, TypeOK, Consistent, RefsLinked, ReleasersKnow
    <3>3. QED
      BY <1>1, <3>1, <3>2 DEF IInv, TypeOK, Points, Leaving
  <2>5. QED
    BY <2>2, <2>3, <2>4 DEF NoUseAfterFree
<1>2. QED
  BY <1>1, Invariance, PTL

\* An entry nobody holds is complete and not failed, so a later request never
\* finds a failed entry to drop.
THEOREM IdleSealed == Spec => []IdleEntriesSealed
BY Invariance, PTL DEF IInv, Consistent

\* A sleeping reader has a writer that is still to wake it up.
THEOREM NoLostWakeup == Spec => []NoOrphanedWaiter
<1>1. ASSUME IInv
      PROVE  NoOrphanedWaiter
  <2> SUFFICES ASSUME NEW u \in Users, at[u] = "wait"
               PROVE  /\ offset[u] = entry[ref[u]].size
                      /\ ~entry[ref[u]].complete
                      /\ Writers(ref[u]) # {}
    BY DEF NoOrphanedWaiter
  <2>1. ref[u] \in linked
    BY <1>1 DEF IInv, Consistent, RefsLinked, Holding, Reading
  <2>2. QED
    BY <1>1, <2>1 DEF IInv, Consistent, SleepersUpToDate, FillingHasWriter
<1>2. QED
  BY <1>1, Invariance, PTL

\* Every allocated entry is reachable or about to be destroyed.
THEOREM LeakFree == Spec => []NoLeak
BY Invariance, PTL DEF IInv, Consistent

\* No copy into or out of e->data leaves the buffer.
THEOREM CopiesSafe == Spec => []CopiesInBounds
BY Invariance, PTL DEF IInv, Consistent

\* A complete entry never changes and stays in the table while it is open.
THEOREM Sealed == Spec => SealedContent
<1>1. ASSUME IInv, Next
      PROVE  SealedStep
  <2> SUFFICES ASSUME NEW e \in linked, entry[e].complete, open'
               PROVE  /\ e \in linked'
                      /\ entry'[e] = [entry[e] EXCEPT !.refcnt = entry'[e].refcnt]
    BY DEF SealedStep
  <2>1. e \in live /\ entry[e] \in EntryFields
    BY <1>1 DEF IInv, TypeOK, Consistent, NoLeak
  <2>2. ASSUME entry'[e] = entry[e], linked' = linked
        PROVE  /\ e \in linked'
               /\ entry'[e] = [entry[e] EXCEPT !.refcnt = entry'[e].refcnt]
    BY <2>1, <2>2 DEF EntryFields
  <2>3. ASSUME NEW n \in Nat, entry'[e] = [entry[e] EXCEPT !.refcnt = n]
        PROVE  entry'[e] = [entry[e] EXCEPT !.refcnt = entry'[e].refcnt]
    BY <2>1, <2>3 DEF EntryFields
  <2> DEFINE Goal == /\ e \in linked'
                     /\ entry'[e] = [entry[e] EXCEPT !.refcnt = entry'[e].refcnt]
  <2>4. ASSUME NEW u \in Users, WriterStep(u)
        PROVE  Goal
    <3>1. ref[u] # e
      BY <1>1, <2>4 DEF IInv, Consistent, FillingHasWriter, WriterStep, Append,
         AppendFails, MarkComplete, MarkFailed, Writing
    <3>2. entry'[e] = entry[e] /\ linked' = linked
      BY <1>1, <2>1, <2>4, <3>1 DEF WriterStep, Append, AppendFails, MarkComplete,
         MarkFailed, IInv, TypeOK
    <3>3. QED
      BY <2>2, <3>2
  <2>5. ASSUME NEW u \in Users, Join(u)
        PROVE  Goal
    <3>1. ASSUME NEW k \in Keys, Hit(u, k)
          PROVE  Goal
      <4>1. CASE entry'[e] = entry[e]
        BY <2>2, <3>1, <4>1 DEF Hit
      <4>2. CASE entry'[e] # entry[e]
        <5>1. entry' = [entry EXCEPT ![e].refcnt = CountRef(e)] /\ e \in linked'
          BY <1>1, <3>1, <4>2 DEF Hit, Lookup, IInv, TypeOK
        <5>2. CountRef(e) \in Nat /\ entry'[e] = [entry[e] EXCEPT !.refcnt = CountRef(e)]
          BY <1>1, <2>1, <5>1 DEF CountRef, EntryFields, IInv, TypeOK
        <5>3. QED
          BY <2>3, <5>1, <5>2
      <4>3. QED
        BY <4>1, <4>2
    <3>2. ASSUME NEW k \in Keys, Miss(u, k) \/ MissNoMemory(u, k)
          PROVE  Goal
      <4>1. Lookup(k) = {}
        BY <1>1, <3>2, NothingToDrop DEF Miss, MissNoMemory
      <4>2. entry'[e] = entry[e] /\ e \in linked'
        BY <1>1, <2>1, <3>2, <4>1 DEF Miss, MissNoMemory, Freed, IInv, TypeOK
      <4>3. QED
        BY <2>1, <4>2 DEF EntryFields
    <3>3. QED
      BY <2>5, <3>1, <3>2 DEF Join
  <2>6. ASSUME NEW u \in Users, ReleaseShared(u) \/ ReleaseKeep(u) \/ ReleaseUnlink(u)
        PROVE  Goal
    <3>1. at[u] \in Holding
      BY <2>6 DEF ReleaseShared, ReleaseKeep, ReleaseUnlink, Holding
    <3>2. Left(ref[u]) \in Nat /\ ref[u] \in linked
      BY <1>1, <3>1, HolderCounted DEF IInv, Consistent, Left
    <3>3. e \in linked'
      BY <1>1, <2>6
      DEF ReleaseShared, ReleaseKeep, ReleaseUnlink, Keeps, IInv, Consistent, OneVerdict
    <3>4. QED
      BY <1>1, <2>1, <2>3, <2>6, <3>2, <3>3
      DEF ReleaseShared, ReleaseKeep, ReleaseUnlink, IInv, TypeOK, EntryFields
  <2>7. ASSUME NEW u \in Users, ReleaseLogged(u) \/ ReleaseDestroy(u)
        PROVE  Goal
    <3>1. at[u] = "destroy" => ref[u] # e
      BY <1>1 DEF IInv, Consistent, ReleasersKnow
    <3>2. entry'[e] = entry[e] /\ linked' = linked
      BY <1>1, <2>7, <3>1 DEF ReleaseLogged, ReleaseDestroy, Freed, IInv, TypeOK
    <3>3. QED
      BY <2>2, <3>2
  <2>8. ASSUME NEW u \in Users, ReaderStep(u) \/ SpuriousWakeup(u)
        PROVE  Goal
    BY <2>2, <2>8 DEF ReaderStep, StreamWait, StreamEnd, StreamChunk, SendChunk,
       SendFails, SpuriousWakeup
  <2>9. ~TableDestroy
    BY DEF TableDestroy
  <2>10. CASE Closed
    BY <2>2, <2>10 DEF Closed, vars
  <2>11. QED
    BY <1>1, <2>4, <2>5, <2>6, <2>7, <2>8, <2>9, <2>10 DEF Next, ReleaseStep
<1>2. QED
  BY <1>1, Invariance, PTL DEF Spec, SealedContent

----------------------------------------------------------------------------
(* What a user of the cache may rely on while others are at work.          *)

UserStep(u) ==
    Join(u) \/ WriterStep(u) \/ ReaderStep(u) \/ SpuriousWakeup(u) \/ ReleaseStep(u)

\* The others do no more to a user than wake it up.
LEMMA OthersWakeAtMost ==
    ASSUME TypeOK, NEW w \in Users, NEW v \in Users, v # w, UserStep(v)
    PROVE  /\ at'[w] = at[w] \/ (at[w] = "wait" /\ at'[w] = "stream")
           /\ ref'[w] = ref[w]
           /\ offset'[w] = offset[w]
<1> DEFINE Goal == /\ at'[w] = at[w] \/ (at[w] = "wait" /\ at'[w] = "stream")
                   /\ ref'[w] = ref[w]
                   /\ offset'[w] = offset[w]
<1>1. Join(v) => Goal
  BY DEF TypeOK, Join, Hit, Miss, MissNoMemory
<1>2. WriterStep(v) => Goal
  BY DEF TypeOK, WriterStep, Append, AppendFails, MarkComplete, MarkFailed,
     MoveAndBroadcast
<1>3. ReaderStep(v) \/ SpuriousWakeup(v) => Goal
  BY DEF TypeOK, ReaderStep, StreamWait, StreamEnd, StreamChunk, SendChunk, SendFails,
     SpuriousWakeup
<1>4. ReleaseStep(v) => Goal
  BY DEF TypeOK, ReleaseStep, ReleaseShared, ReleaseKeep, ReleaseUnlink, ReleaseLogged,
     ReleaseDestroy, Forget
<1>5. QED
  BY <1>1, <1>2, <1>3, <1>4 DEF UserStep

\* The entry a user holds keeps its key and its verdict, and its size once it is
\* complete; who fills it is alone in that.
LEMMA OthersKeepEntry ==
    ASSUME IInv, NEW w \in Users, at[w] \in Holding, NEW v \in Users, v # w, UserStep(v)
    PROVE  /\ entry'[ref[w]].key = entry[ref[w]].key
           /\ entry[ref[w]].failed => entry'[ref[w]].failed
           /\ entry[ref[w]].complete
                => entry'[ref[w]].complete /\ entry'[ref[w]].size = entry[ref[w]].size
           /\ at[w] \in Writing => entry'[ref[w]].size = entry[ref[w]].size
<1> DEFINE e == ref[w]
           Kept == /\ entry'[e].key = entry[e].key
                   /\ entry'[e].size = entry[e].size
                   /\ entry'[e].complete = entry[e].complete
                   /\ entry'[e].failed = entry[e].failed
           Goal == /\ entry'[e].key = entry[e].key
                   /\ entry[e].failed => entry'[e].failed
                   /\ entry[e].complete
                        => entry'[e].complete /\ entry'[e].size = entry[e].size
                   /\ at[w] \in Writing => entry'[e].size = entry[e].size
<1>1. e \in linked /\ e \in live /\ e \in Entries /\ entry[e] \in EntryFields
  BY HolderCounted DEF IInv, TypeOK, Consistent, NoLeak
<1>2. Kept => Goal
  OBVIOUS
<1>3. ASSUME Join(v)
      PROVE  Kept
  <2>1. ASSUME NEW k \in Keys, Hit(v, k)
        PROVE  Kept
    <3>1. PICK d \in linked : entry' = [entry EXCEPT ![d].refcnt = CountRef(d)]
      BY <2>1 DEF Hit, Lookup
    <3>2. QED
      BY <1>1, <3>1 DEF IInv, TypeOK, EntryFields
  <2>2. ASSUME NEW k \in Keys, Miss(v, k) \/ MissNoMemory(v, k)
        PROVE  Kept
    <3>1. Lookup(k) = {}
      BY <2>2, NothingToDrop DEF Miss, MissNoMemory
    <3>2. entry'[e] = entry[e]
      BY <1>1, <2>2, <3>1 DEF Miss, MissNoMemory, Freed, IInv, TypeOK
    <3>3. QED
      BY <3>2
  <2>3. QED
    BY <1>3, <2>1, <2>2 DEF Join
<1>4. ASSUME WriterStep(v)
      PROVE  Goal
  <2>1. at[v] \in Writing
    BY <1>4 DEF WriterStep, Append, AppendFails, MarkComplete, MarkFailed, Writing
  <2>2. CASE ref[v] # e
    <3>1. entry'[e] = entry[e]
      BY <1>1, <1>4, <2>2 DEF WriterStep, Append, AppendFails, MarkComplete, MarkFailed,
         IInv, TypeOK
    <3>2. QED
      BY <3>1
  <2>3. CASE ref[v] = e
    <3>1. at[w] \notin Writing /\ ~entry[e].complete
      BY <2>1, <2>3 DEF IInv, Consistent, FillingHasWriter
    <3> DEFINE Verdict == entry'[e].key = entry[e].key
                          /\ (entry[e].failed => entry'[e].failed)
    <3>2. ASSUME NEW n \in 1..MaxAppend, Append(v, n)
          PROVE  Verdict
      BY <1>1, <2>3, <3>2 DEF Append, IInv, TypeOK, EntryFields
    <3>3. ASSUME NEW n \in 1..MaxAppend, AppendFails(v, n)
          PROVE  Verdict
      BY <1>1, <2>3, <3>3 DEF AppendFails, IInv, TypeOK, EntryFields
    <3>4. ASSUME MarkComplete(v) \/ MarkFailed(v)
          PROVE  Verdict
      BY <1>1, <2>3, <3>4 DEF MarkComplete, MarkFailed, IInv, TypeOK, EntryFields
    <3>5. QED
      BY <1>4, <3>1, <3>2, <3>3, <3>4 DEF WriterStep
  <2>4. QED
    BY <2>2, <2>3
<1>5. ASSUME ReaderStep(v) \/ SpuriousWakeup(v)
      PROVE  Kept
  BY <1>5 DEF ReaderStep, StreamWait, StreamEnd, StreamChunk, SendChunk, SendFails,
     SpuriousWakeup
<1>6. ASSUME ReleaseShared(v) \/ ReleaseKeep(v) \/ ReleaseUnlink(v)
      PROVE  Kept
  BY <1>1, <1>6 DEF ReleaseShared, ReleaseKeep, ReleaseUnlink, IInv, TypeOK, EntryFields
<1>7. ASSUME ReleaseLogged(v) \/ ReleaseDestroy(v)
      PROVE  Kept
  <2>1. at[v] = "destroy" => ref[v] # e
    BY <1>1 DEF IInv, Consistent, ReleasersKnow
  <2>2. entry'[e] = entry[e]
    BY <1>1, <1>7, <2>1 DEF ReleaseLogged, ReleaseDestroy, Freed, IInv, TypeOK
  <2>3. QED
    BY <2>2
<1>8. QED
  BY <1>2, <1>3, <1>4, <1>5, <1>6, <1>7 DEF UserStep, ReleaseStep

----------------------------------------------------------------------------
(* Cache implements ResponseStore: the responses, as the entries of the    *)
(* table show them.                                                        *)

\* Fields a response is seen by.
SameResponse(e) == /\ entry'[e].key = entry[e].key
                   /\ entry'[e].size = entry[e].size
                   /\ entry'[e].complete = entry[e].complete
                   /\ entry'[e].failed = entry[e].failed

Verdict(e) == IF entry[e].complete THEN "complete"
              ELSE IF entry[e].failed THEN "failed" ELSE "filling"

\* A key in the table has one entry, and its users are the holders of that.
LEMMA EntryOfKey ==
    ASSUME IInv, NEW e \in linked, NEW k, entry[e].key = k
    PROVE  /\ Lookup(k) = {e}
           /\ StateOf(k) = Verdict(e)
           /\ SizeOf(k) = entry[e].size
           /\ UsersOf(k) = Holders(e)
<1>1. Lookup(k) = {e}
    BY DEF IInv, Consistent, UniqueKeys, Lookup
<1>2. StateOf(k) = Verdict(e)
    BY <1>1 DEF StateOf, Verdict
<1>3. (CHOOSE d \in Lookup(k) : TRUE) = e
    BY <1>1
<1>4. SizeOf(k) = entry[e].size
    BY <1>1, <1>3 DEF SizeOf
<1>5. UsersOf(k) = Holders(e)
    BY DEF IInv, Consistent, RefsLinked, UniqueKeys, UsersOf, Holders
<1> QED
    BY <1>1, <1>2, <1>4, <1>5

\* Nobody but its writer fills an entry, and the writer holds it.
LEMMA WriterOfKey ==
    ASSUME IInv, NEW u \in Users, at[u] \in Writing
    PROVE  /\ ref[u] \in linked /\ ref[u] \in Entries
           /\ entry[ref[u]] \in EntryFields
           /\ u \in UsersOf(entry[ref[u]].key)
           /\ at[u] = "write" => WritersOf(entry[ref[u]].key) = {u}
<1>1. ref[u] \in linked /\ ref[u] \in Entries /\ entry[ref[u]] \in EntryFields
    BY DEF IInv, TypeOK, Consistent, RefsLinked, Holding
<1>2. UsersOf(entry[ref[u]].key) = Holders(ref[u])
    BY <1>1, EntryOfKey
<1>3. \A v \in Users : at[v] \in Writing /\ ref[v] = ref[u] => u = v
    BY DEF IInv, Consistent, FillingHasWriter
<1> QED
    BY <1>1, <1>2, <1>3 DEF WritersOf, Holders, Holding, Writing

\* Responses stay as they are while the table and the fields seen do.
LEMMA ResponsesStay ==
    ASSUME linked' = linked, \A e \in linked : SameResponse(e), NEW k
    PROVE  StateOf(k)' = StateOf(k) /\ SizeOf(k)' = SizeOf(k)
<1>1. Lookup(k)' = Lookup(k) /\ Lookup(k) \subseteq linked
    BY DEF Lookup, SameResponse
<1>2. StateOf(k)' = StateOf(k)
    BY <1>1 DEF StateOf, SameResponse
<1>3. SizeOf(k)' = SizeOf(k)
    <2>1. CASE Lookup(k) = {}
        BY <1>1, <2>1 DEF SizeOf
    <2>2. CASE Lookup(k) # {}
        <3>1. (CHOOSE e \in Lookup(k) : TRUE) \in Lookup(k)
            BY <2>2
        <3>2. (CHOOSE e \in Lookup(k) : TRUE)' = (CHOOSE e \in Lookup(k) : TRUE)
            BY <1>1
        <3> QED
            BY <1>1, <2>2, <3>1, <3>2 DEF SizeOf, SameResponse
    <2> QED
        BY <2>1, <2>2
<1> QED
    BY <1>2, <1>3

\* The users of a key stay while those that move hold what they held before.
LEMMA UsersStay ==
    ASSUME IInv, \A e \in linked : entry'[e].key = entry[e].key,
           NEW k,
           \A u \in Users : /\ at'[u] \in Holding <=> at[u] \in Holding
                            /\ at[u] \in Holding => ref'[u] = ref[u]
    PROVE  /\ UsersOf(k)' = UsersOf(k)
           /\ (\A u \in Users : at'[u] = "write" <=> at[u] = "write")
                => WritersOf(k)' = WritersOf(k)
<1>1. \A u \in Users : at[u] \in Holding => ref[u] \in linked
    BY DEF IInv, Consistent, RefsLinked
<1>2. UsersOf(k)' = UsersOf(k)
    BY <1>1 DEF UsersOf
<1> QED
    BY <1>2 DEF WritersOf, UsersOf

----------------------------------------------------------------------------
(* Steps of the store, from what happens to the responses one by one.      *)

StoreStays == \A k \in Keys : StateOf(k)' = StateOf(k) /\ SizeOf(k)' = SizeOf(k)
UsersStayAll == \A k \in Keys : UsersOf(k)' = UsersOf(k)
WritersStayAll == \A k \in Keys : WritersOf(k)' = WritersOf(k)

LEMMA Stutter ==
    ASSUME StoreStays, UsersStayAll, WritersStayAll
    PROVE  UNCHANGED Store!vars
BY DEF StoreStays, UsersStayAll, WritersStayAll, Store!vars

\* Who is out of the cache uses no response.
LEMMA OutUsesNothing ==
    ASSUME NEW u \in Users, at[u] = "out"
    PROVE  ~Store!Elsewhere(u)
BY DEF Store!Elsewhere, UsersOf, Holding, Writing, Reading

LEMMA JoinStores ==
    ASSUME IInv, NEW u \in Users, NEW k \in Keys, Hit(u, k)
    PROVE  Store!Join(u, k)
<1>1. PICK e \in Lookup(k) : /\ entry' = [entry EXCEPT ![e].refcnt = CountRef(e)]
                             /\ ref' = [ref EXCEPT ![u] = e]
    BY DEF Hit
<1>2. e \in linked /\ entry[e].key = k /\ StateOf(k) # "absent"
    BY <1>1 DEF Lookup, StateOf
<1>3. linked' = linked /\ \A d \in linked : SameResponse(d)
    BY <1>1, <1>2 DEF Hit, SameResponse, IInv, TypeOK, EntryFields
<1>4. StoreStays
    BY <1>3, ResponsesStay DEF StoreStays
<1>5. /\ at[u] = "out" /\ at'[u] = "stream" /\ ref'[u] = e
      /\ \A v \in Users : v # u => at'[v] = at[v] /\ ref'[v] = ref[v]
    BY <1>1 DEF Hit, IInv, TypeOK
<1>6. \A v \in Users : at[v] \in Holding => ref[v] \in linked /\ v # u
    BY <1>5 DEF IInv, Consistent, RefsLinked, Holding, Writing, Reading
<1>7. \A j \in Keys : UsersOf(j)' = IF j = k THEN UsersOf(j) \cup {u} ELSE UsersOf(j)
    BY <1>2, <1>3, <1>5, <1>6 DEF UsersOf, SameResponse, Holding, Reading
<1>8. WritersStayAll
    BY <1>2, <1>3, <1>5, <1>6 DEF WritersOf, UsersOf, SameResponse, WritersStayAll, Holding,
       Writing, Reading
<1>9. ~Store!Elsewhere(u)
    BY <1>5, OutUsesNothing
<1> QED
    BY <1>2, <1>4, <1>7, <1>8, <1>9 DEF Store!Join, StoreStays, WritersStayAll

LEMMA BeginStores ==
    ASSUME IInv, NEW u \in Users, NEW k \in Keys, Miss(u, k)
    PROVE  Store!Begin(u, k)
<1>1. Lookup(k) = {}
    BY NothingToDrop DEF Miss
<1>2. PICK e \in Entries \ live : /\ linked' = linked \cup {e}
                                  /\ entry' = [Freed({}) EXCEPT ![e] = Fresh(k)]
                                  /\ ref' = [ref EXCEPT ![u] = e]
    BY <1>1 DEF Miss
<1>3. e \notin linked /\ linked \subseteq Entries
    BY <1>2 DEF IInv, Consistent, NoLeak, TypeOK
<1>4. entry'[e] = Fresh(k) /\ \A d \in linked : entry'[d] = entry[d]
    BY <1>2, <1>3 DEF Freed
<1>5. /\ at[u] = "out" /\ at'[u] = "write" /\ ref'[u] = e
      /\ \A v \in Users : v # u => at'[v] = at[v] /\ ref'[v] = ref[v]
    BY <1>2 DEF Miss, IInv, TypeOK
<1>6. \A v \in Users : at[v] \in Holding => ref[v] \in linked /\ v # u
    BY <1>5 DEF IInv, Consistent, RefsLinked, Holding, Writing, Reading
<1>7. Fresh(k).key = k /\ Fresh(k).size = 0 /\ ~Fresh(k).complete /\ ~Fresh(k).failed
    BY DEF Fresh, Blank
<1>8. \A d \in linked : entry[d].key # k
    BY <1>1 DEF Lookup
<1>9. \A j \in Keys : j # k => StateOf(j)' = StateOf(j) /\ SizeOf(j)' = SizeOf(j)
    <2> SUFFICES ASSUME NEW j \in Keys, j # k
                 PROVE  StateOf(j)' = StateOf(j) /\ SizeOf(j)' = SizeOf(j)
        OBVIOUS
    <2>1. Lookup(j)' = Lookup(j) /\ Lookup(j) \subseteq linked
        BY <1>2, <1>3, <1>4, <1>7 DEF Lookup
    <2>2. StateOf(j)' = StateOf(j)
        BY <1>4, <2>1 DEF StateOf
    <2>3. SizeOf(j)' = SizeOf(j)
        <3>1. CASE Lookup(j) = {}
            BY <2>1, <3>1 DEF SizeOf
        <3>2. CASE Lookup(j) # {}
            <4>1. (CHOOSE d \in Lookup(j) : TRUE) \in Lookup(j)
                BY <3>2
            <4>2. (CHOOSE d \in Lookup(j) : TRUE)' = (CHOOSE d \in Lookup(j) : TRUE)
                BY <2>1
            <4> QED
                BY <1>4, <2>1, <3>2, <4>1, <4>2 DEF SizeOf
        <3> QED
            BY <3>1, <3>2
    <2> QED
        BY <2>2, <2>3
<1>10. /\ StateOf(k) = "absent" /\ StateOf(k)' = "filling"
       /\ SizeOf(k) = 0 /\ SizeOf(k)' = 0
    <2>1. Lookup(k)' = {e}
        BY <1>2, <1>4, <1>7, <1>8 DEF Lookup
    <2>2. (CHOOSE d \in Lookup(k) : TRUE)' = e
        BY <2>1
    <2> QED
        BY <1>1, <1>4, <1>7, <2>1, <2>2 DEF StateOf, SizeOf
<1>11. /\ \A j \in Keys : UsersOf(j)' = IF j = k THEN {u} ELSE UsersOf(j)
       /\ \A j \in Keys : WritersOf(j)' = IF j = k THEN {u} ELSE WritersOf(j)
    BY <1>4, <1>5, <1>6, <1>7, <1>8 DEF UsersOf, WritersOf, Holding, Writing, Reading
<1>12. ~Store!Elsewhere(u)
    BY <1>5, OutUsesNothing
<1> QED
    BY <1>9, <1>10, <1>11, <1>12 DEF Store!Begin

\* Writer u makes r of the entry e for k and moves to p.
Makes(u, e, k, r, p) ==
    /\ at[u] \in Writing
    /\ e = ref[u] /\ k = entry[e].key
    /\ r \in EntryFields /\ r.key = k
    /\ p \in Writing \cup {"release"}
    /\ entry' = [entry EXCEPT ![e] = r]
    /\ at' = MoveAndBroadcast(u, p, e)
    /\ linked' = linked /\ ref' = ref

\* That changes the response for k and no other, and the users of none.
Moved(u, e, k, r, p) ==
    /\ k \in Keys \cup {NoKey}
    /\ \A j \in Keys : j # k => StateOf(j)' = StateOf(j) /\ SizeOf(j)' = SizeOf(j)
    /\ StateOf(k) = Verdict(e) /\ SizeOf(k) = entry[e].size
    /\ StateOf(k)' = IF r.complete THEN "complete"
                     ELSE IF r.failed THEN "failed" ELSE "filling"
    /\ SizeOf(k)' = r.size
    /\ UsersStayAll
    /\ \A j \in Keys : j # k => WritersOf(j)' = WritersOf(j)
    /\ WritersOf(k) = (IF at[u] = "write" THEN {u} ELSE {})
    /\ WritersOf(k)' = (IF p = "write" THEN {u} ELSE {})

LEMMA WriterMoves ==
    ASSUME IInv, NEW u \in Users, NEW e, NEW k, NEW r, NEW p, Makes(u, e, k, r, p)
    PROVE  Moved(u, e, k, r, p)
<1>0. /\ at[u] \in Writing
      /\ e = ref[u] /\ k = entry[e].key
      /\ r \in EntryFields /\ r.key = k
      /\ p \in Writing \cup {"release"}
      /\ entry' = [entry EXCEPT ![e] = r]
      /\ at' = MoveAndBroadcast(u, p, e)
      /\ linked' = linked /\ ref' = ref
    BY DEF Makes
<1>1. /\ e \in linked /\ e \in Entries /\ entry[e] \in EntryFields
      /\ k \in Keys \cup {NoKey}
    BY <1>0, WriterOfKey DEF EntryFields
<1>2. entry'[e] = r /\ \A d \in linked : d # e => entry'[d] = entry[d]
    BY <1>0, <1>1 DEF IInv, TypeOK
<1>3. \A d \in linked : entry'[d].key = entry[d].key
    BY <1>0, <1>2
<1>4. Lookup(k) = {e} /\ StateOf(k) = Verdict(e) /\ SizeOf(k) = entry[e].size
      /\ UsersOf(k) = Holders(e)
    BY <1>0, <1>1, EntryOfKey
<1>5. Lookup(k)' = {e}
    BY <1>0, <1>3, <1>4 DEF Lookup
<1>6. (CHOOSE d \in Lookup(k) : TRUE)' = e
    BY <1>5
<1>7. /\ SizeOf(k)' = r.size
      /\ StateOf(k)' = IF r.complete THEN "complete"
                       ELSE IF r.failed THEN "failed" ELSE "filling"
    BY <1>2, <1>5, <1>6 DEF StateOf, SizeOf
<1>8. ASSUME NEW j \in Keys, j # k
      PROVE  StateOf(j)' = StateOf(j) /\ SizeOf(j)' = SizeOf(j)
    <2>1. /\ Lookup(j)' = Lookup(j)
          /\ \A d \in Lookup(j) : d \in linked /\ d # e
        BY <1>0, <1>3, <1>8 DEF Lookup
    <2>2. StateOf(j)' = StateOf(j)
        BY <1>2, <2>1 DEF StateOf
    <2>3. CASE Lookup(j) = {}
        BY <2>1, <2>2, <2>3 DEF SizeOf
    <2>4. CASE Lookup(j) # {}
        <3>1. (CHOOSE d \in Lookup(j) : TRUE) \in Lookup(j)
            BY <2>4
        <3>2. (CHOOSE d \in Lookup(j) : TRUE)' = (CHOOSE d \in Lookup(j) : TRUE)
            BY <2>1
        <3> QED
            BY <1>2, <2>1, <2>2, <2>4, <3>1, <3>2 DEF SizeOf
    <2> QED
        BY <2>3, <2>4
<1>9. /\ at'[u] = p
      /\ \A v \in Users : v # u => at'[v] = at[v] \/ (at[v] = "wait" /\ at'[v] = "stream")
    BY <1>0 DEF MoveAndBroadcast, IInv, TypeOK
<1>10. \A v \in Users : at'[v] \in Holding <=> at[v] \in Holding
    BY <1>0, <1>9 DEF Holding, Writing, Reading
<1>11. UsersStayAll
    BY <1>0, <1>3, <1>10, UsersStay DEF UsersStayAll
<1>12. \A v \in Users : v # u => (at'[v] = "write" <=> at[v] = "write")
    BY <1>9
<1>13. \A v \in Users : at[v] \in Holding => ref[v] \in linked
    BY DEF IInv, Consistent, RefsLinked
<1>14. \A j \in Keys : j # k => WritersOf(j)' = WritersOf(j)
    BY <1>0, <1>3, <1>10, <1>12, <1>13 DEF WritersOf, UsersOf
<1>15. \A v \in Users : at[v] \in Writing /\ ref[v] = e => v = u
    BY <1>0 DEF IInv, Consistent, FillingHasWriter
<1>16. UsersOf(k)' = Holders(e)
    BY <1>0, <1>3, <1>4, <1>10, <1>13 DEF UsersOf
<1>17. /\ WritersOf(k) = (IF at[u] = "write" THEN {u} ELSE {})
       /\ WritersOf(k)' = (IF p = "write" THEN {u} ELSE {})
    BY <1>0, <1>4, <1>9, <1>12, <1>15, <1>16 DEF WritersOf, Holders, Holding, Writing
<1> QED
    BY <1>1, <1>4, <1>7, <1>8, <1>11, <1>14, <1>17 DEF Moved

\* What the step of a writer comes to, by what is said of the response before
\* and after it.
LEMMA MovedStores ==
    ASSUME NEW u, NEW e, NEW k, NEW r, NEW p, Moved(u, e, k, r, p)
    PROVE  /\ k \notin Keys => UNCHANGED Store!vars
           /\ p = "write" /\ at[u] = "write" /\ r.size > entry[e].size
              /\ ~entry[e].complete /\ ~r.complete /\ ~entry[e].failed /\ ~r.failed
                => (k \in Keys => Store!Extend(u, k))
           /\ p # "write" /\ at[u] = "write" /\ r.size = entry[e].size
              /\ (r.complete \/ r.failed)
                => (k \in Keys => Store!Settle(u, k))
           /\ p # "write" /\ at[u] # "write" /\ r.size = entry[e].size
              /\ ~entry[e].complete /\ ~r.complete /\ entry[e].failed /\ r.failed
                => UNCHANGED Store!vars
<1>1. ASSUME k \notin Keys
      PROVE  UNCHANGED Store!vars
    <2>1. StoreStays /\ UsersStayAll /\ WritersStayAll
        BY <1>1 DEF Moved, StoreStays, WritersStayAll
    <2> QED
        BY <2>1, Stutter
<1>2. ASSUME p = "write", at[u] = "write", r.size > entry[e].size, k \in Keys,
             ~entry[e].complete, ~r.complete, ~entry[e].failed, ~r.failed
      PROVE  Store!Extend(u, k)
    <2>1. /\ \A j \in Keys : StateOf(j)' = StateOf(j)
          /\ \A j \in Keys : UsersOf(j)' = UsersOf(j) /\ WritersOf(j)' = WritersOf(j)
          /\ WritersOf(k) = {u}
        BY <1>2 DEF Moved, Verdict, UsersStayAll
    <2>2. /\ \A j \in Keys : j # k => SizeOf(j)' = SizeOf(j)
          /\ SizeOf(k)' > SizeOf(k)
        BY <1>2 DEF Moved
    <2> QED
        BY <1>2, <2>1, <2>2 DEF Store!Extend
<1>3. ASSUME p # "write", at[u] = "write", r.size = entry[e].size, k \in Keys,
             r.complete \/ r.failed
      PROVE  Store!Settle(u, k)
    <2>1. /\ \A j \in Keys : j # k => StateOf(j)' = StateOf(j)
          /\ StateOf(k)' \in {"complete", "failed"}
          /\ \A j \in Keys : SizeOf(j)' = SizeOf(j) /\ UsersOf(j)' = UsersOf(j)
        BY <1>3 DEF Moved, UsersStayAll
    <2>2. /\ \A j \in Keys : j # k => WritersOf(j)' = WritersOf(j)
          /\ WritersOf(k) = {u} /\ WritersOf(k)' = {}
        BY <1>3 DEF Moved
    <2> QED
        BY <1>3, <2>1, <2>2 DEF Store!Settle
<1>4. ASSUME p # "write", at[u] # "write", r.size = entry[e].size,
             ~entry[e].complete, ~r.complete, entry[e].failed, r.failed
      PROVE  UNCHANGED Store!vars
    <2>1. StoreStays /\ UsersStayAll /\ WritersStayAll
        BY <1>4 DEF Moved, Verdict, StoreStays, WritersStayAll
    <2> QED
        BY <2>1, Stutter
<1> QED
    BY <1>1, <1>2, <1>3, <1>4

LEMMA WriterStores ==
    ASSUME IInv, NEW u \in Users, WriterStep(u)
    PROVE  \/ \E k \in Keys : Store!Extend(u, k) \/ Store!Settle(u, k)
           \/ UNCHANGED Store!vars
<1> DEFINE Goal == \/ \E j \in Keys : Store!Extend(u, j) \/ Store!Settle(u, j)
                   \/ UNCHANGED Store!vars
<1> SUFFICES ASSUME NEW e, e = ref[u], NEW k, k = entry[e].key
             PROVE  Goal
    OBVIOUS
<1>1. at[u] \in Writing
    BY DEF WriterStep, Append, AppendFails, MarkComplete, MarkFailed, Writing
<1>2. /\ e \in Entries /\ entry[e] \in EntryFields
      /\ ~entry[e].complete /\ (entry[e].failed <=> at[u] = "abort")
    BY <1>1, WriterOfKey DEF IInv, Consistent, FillingHasWriter
<1>3. linked' = linked /\ ref' = ref
    BY DEF WriterStep, Append, AppendFails, MarkComplete, MarkFailed
<1>4. ASSUME NEW n \in 1 .. MaxAppend, Append(u, n)
      PROVE  Goal
    <2>1. entry[e].size \in Nat /\ entry[e].size + n \in Nat /\ entry[e].capacity \in Nat
        BY <1>2 DEF EntryFields
    <2>2. PICK c \in Nat : c = Grown(entry[e].capacity, entry[e].size + n)
        BY <2>1, GrownType
    <2>0. PICK r : r = [entry[e] EXCEPT !.size = entry[e].size + n, !.capacity = c]
        OBVIOUS
    <2>3. /\ r \in EntryFields /\ r.key = k /\ r.size > entry[e].size
          /\ r.complete = entry[e].complete /\ r.failed = entry[e].failed
        <3>1. entry[e].size + n > entry[e].size
            BY <2>1
        <3>2. /\ r.key = k /\ r.size = entry[e].size + n
              /\ r.complete = entry[e].complete /\ r.failed = entry[e].failed
            BY <1>2, <2>0 DEF EntryFields
        <3>3. r \in EntryFields
            BY <1>2, <2>1, <2>0 DEF EntryFields
        <3> QED
            BY <3>1, <3>2, <3>3
    <2>4. /\ at[u] = "write" /\ ~entry[e].failed
          /\ entry' = [entry EXCEPT ![e] = r]
          /\ at' = MoveAndBroadcast(u, "write", e)
        BY <1>4, <2>0, <2>2 DEF Append
    <2>5. Makes(u, e, k, r, "write")
        BY <1>1, <1>3, <2>3, <2>4 DEF Makes, Writing
    <2>6. Moved(u, e, k, r, "write")
        BY <2>5, WriterMoves
    <2> QED
        BY <1>2, <2>3, <2>4, <2>6, MovedStores
\* The writer's verdict.
<1>5. ASSUME NEW r \in EntryFields, NEW p \in {"abort", "release"},
             entry' = [entry EXCEPT ![e] = r], at' = MoveAndBroadcast(u, p, e),
             r.key = k, r.size = entry[e].size, r.complete \/ r.failed,
             at[u] = "abort" => ~r.complete
      PROVE  Goal
    <2>1. Makes(u, e, k, r, p)
        BY <1>1, <1>3, <1>5 DEF Makes, Writing
    <2>2. Moved(u, e, k, r, p)
        BY <2>1, WriterMoves
    <2>3. CASE at[u] = "write"
        BY <1>5, <2>2, <2>3, MovedStores
    <2>4. CASE at[u] = "abort"
        BY <1>2, <1>5, <2>2, <2>4, MovedStores
    <2> QED
        BY <1>1, <2>3, <2>4 DEF Writing
<1>6. ASSUME NEW n \in 1 .. MaxAppend, AppendFails(u, n)
      PROVE  Goal
    <2>1. PICK r : r = [entry[e] EXCEPT !.failed = TRUE]
        OBVIOUS
    <2>2. /\ r \in EntryFields /\ r.key = k /\ r.size = entry[e].size /\ r.failed
        BY <1>2, <2>1 DEF EntryFields
    <2>3. /\ entry' = [entry EXCEPT ![e] = r] /\ at' = MoveAndBroadcast(u, "abort", e)
          /\ at[u] = "write"
        BY <1>6, <2>1 DEF AppendFails
    <2> QED
        BY <1>5, <2>2, <2>3
<1>7. ASSUME MarkComplete(u)
      PROVE  Goal
    <2>1. PICK r : r = [entry[e] EXCEPT !.complete = TRUE]
        OBVIOUS
    <2>2. /\ r \in EntryFields /\ r.key = k /\ r.size = entry[e].size /\ r.complete
        BY <1>2, <2>1 DEF EntryFields
    <2>3. /\ entry' = [entry EXCEPT ![e] = r] /\ at' = MoveAndBroadcast(u, "release", e)
          /\ at[u] = "write"
        BY <1>7, <2>1 DEF MarkComplete
    <2> QED
        BY <1>5, <2>2, <2>3
<1>8. ASSUME MarkFailed(u)
      PROVE  Goal
    <2>1. PICK r : r = [entry[e] EXCEPT !.failed = TRUE]
        OBVIOUS
    <2>2. /\ r \in EntryFields /\ r.key = k /\ r.size = entry[e].size /\ r.failed
          /\ ~r.complete
        BY <1>2, <2>1 DEF EntryFields
    <2>3. /\ entry' = [entry EXCEPT ![e] = r] /\ at' = MoveAndBroadcast(u, "release", e)
        BY <1>8, <2>1 DEF MarkFailed
    <2> QED
        BY <1>5, <2>2, <2>3
<1> QED
    BY <1>4, <1>6, <1>7, <1>8 DEF WriterStep

----------------------------------------------------------------------------
(* Leaving, and the steps the store does not see.                          *)

\* User u gives back the entry e for k and moves to p, which leaves c users.
Departs(u, e, k, p, c) ==
    /\ at[u] = "release"
    /\ e = ref[u] /\ k = entry[e].key
    /\ entry' = [entry EXCEPT ![e].refcnt = c]
    /\ p \in Leaving /\ at' = [at EXCEPT ![u] = p]
    /\ ref' = ref

\* That changes the users of k and nothing else a response is seen by.
Departed(u, e, k) ==
    /\ e \in linked /\ k \in Keys \cup {NoKey}
    /\ StateOf(k) = Verdict(e) /\ Lookup(k) = {e} /\ UsersOf(k) = Holders(e)
    /\ \A d \in linked : SameResponse(d)
    /\ u \in UsersOf(k) \ WritersOf(k)
    /\ \A j \in Keys : UsersOf(j)' = IF j = k THEN UsersOf(j) \ {u} ELSE UsersOf(j)
    /\ WritersStayAll

LEMMA Leaves ==
    ASSUME IInv, NEW u \in Users, NEW e, NEW k, NEW p, NEW c, Departs(u, e, k, p, c)
    PROVE  Departed(u, e, k)
<1>0. /\ at[u] = "release"
      /\ e = ref[u] /\ k = entry[e].key
      /\ entry' = [entry EXCEPT ![e].refcnt = c]
      /\ p \in Leaving /\ at' = [at EXCEPT ![u] = p]
      /\ ref' = ref
    BY DEF Departs
<1>1. e \in linked /\ e \in Entries /\ entry[e] \in EntryFields
    BY <1>0 DEF IInv, TypeOK, Consistent, RefsLinked, Holding
<1>2. k \in Keys \cup {NoKey}
    BY <1>0, <1>1 DEF EntryFields
<1>3. Lookup(k) = {e} /\ StateOf(k) = Verdict(e) /\ UsersOf(k) = Holders(e)
    BY <1>0, <1>1, EntryOfKey
<1>4. \A d \in linked : SameResponse(d)
    BY <1>0, <1>1 DEF SameResponse, IInv, TypeOK, EntryFields
<1>5. at'[u] = p /\ p \notin Holding /\ \A v \in Users : v # u => at'[v] = at[v]
    BY <1>0 DEF IInv, TypeOK, Leaving, Holding, Writing, Reading
<1>6. \A v \in Users : at[v] \in Holding => ref[v] \in linked
    BY DEF IInv, Consistent, RefsLinked
<1>7. u \in UsersOf(k) \ WritersOf(k)
    BY <1>0 DEF UsersOf, WritersOf, Holding
<1>8. \A j \in Keys : UsersOf(j)' = IF j = k THEN UsersOf(j) \ {u} ELSE UsersOf(j)
    BY <1>0, <1>4, <1>5, <1>6 DEF UsersOf, SameResponse
<1>9. WritersStayAll
    BY <1>0, <1>4, <1>5, <1>6 DEF WritersStayAll, WritersOf, UsersOf, SameResponse, Holding, Writing
<1> QED
    BY <1>1, <1>2, <1>3, <1>4, <1>7, <1>8, <1>9 DEF Departed

\* The response stays, because others use it or because it is complete.
LEMMA KeptStores ==
    ASSUME IInv, NEW u \in Users, ReleaseShared(u) \/ ReleaseKeep(u)
    PROVE  \/ \E k \in Keys : Store!Leave(u, k)
           \/ UNCHANGED Store!vars
<1> SUFFICES ASSUME NEW e, e = ref[u], NEW k, k = entry[e].key
             PROVE  \/ \E j \in Keys : Store!Leave(u, j)
                    \/ UNCHANGED Store!vars
    OBVIOUS
<1>1. PICK p \in Leaving : at' = [at EXCEPT ![u] = p]
    BY DEF ReleaseShared, ReleaseKeep, Leaving
<1>2. PICK c : c = Left(e)
    OBVIOUS
<1>3. /\ at[u] = "release" /\ entry' = [entry EXCEPT ![e].refcnt = c]
      /\ ref' = ref /\ linked' = linked
    BY <1>2 DEF ReleaseShared, ReleaseKeep
<1>4. /\ e \in linked /\ k \in Keys \cup {NoKey}
      /\ StateOf(k) = Verdict(e) /\ UsersOf(k) = Holders(e)
      /\ \A d \in linked : SameResponse(d)
      /\ u \in UsersOf(k) \ WritersOf(k)
      /\ \A j \in Keys : UsersOf(j)' = IF j = k THEN UsersOf(j) \ {u} ELSE UsersOf(j)
      /\ WritersStayAll
    <2>1. Departs(u, e, k, p, c)
        BY <1>1, <1>3 DEF Departs
    <2> QED
        BY <2>1, Leaves DEF Departed
<1>5. StoreStays
    BY <1>3, <1>4, ResponsesStay DEF StoreStays
<1>6. ~(UsersOf(k) = {u} /\ StateOf(k) = "failed")
    <2>1. CASE ReleaseShared(u)
        <3>1. Left(e) > 0 /\ entry[e].refcnt \in Nat
            BY <1>4, <2>1 DEF ReleaseShared, IInv, TypeOK, EntryFields
        <3>2. Cardinality(Holders(e)) # 1
            BY <1>4, <3>1 DEF Left, IInv, RefcntExact
        <3>3. Cardinality({u}) = 1
            BY FS_Singleton
        <3> QED
            BY <1>4, <3>2, <3>3
    <2>2. CASE ReleaseKeep(u)
        BY <1>4, <2>2 DEF ReleaseKeep, Keeps, Verdict
    <2> QED
        BY <2>1, <2>2
<1>7. CASE k \in Keys
    <2>1. Store!Leave(u, k)
        BY <1>4, <1>5, <1>6, <1>7 DEF Store!Leave, StoreStays, WritersStayAll
    <2> QED
        BY <1>7, <2>1
<1>8. CASE k \notin Keys
    <2>1. UsersStayAll
        BY <1>4, <1>8 DEF UsersStayAll
    <2> QED
        BY <1>4, <1>5, <2>1, Stutter
<1> QED
    BY <1>7, <1>8

\* What its last user takes out of the table has failed.
LEMMA UnlinkStores ==
    ASSUME IInv, NEW u \in Users, ReleaseUnlink(u)
    PROVE  \/ \E k \in Keys : Store!Leave(u, k)
           \/ UNCHANGED Store!vars
<1> SUFFICES ASSUME NEW e, e = ref[u], NEW k, k = entry[e].key
             PROVE  \/ \E j \in Keys : Store!Leave(u, j)
                    \/ UNCHANGED Store!vars
    OBVIOUS
<1>1. PICK c : c = Left(e)
    OBVIOUS
<1>2. /\ at[u] = "release" /\ entry' = [entry EXCEPT ![e].refcnt = c]
      /\ ref' = ref /\ linked' = linked \ {e} /\ ~Keeps(e)
      /\ at' = [at EXCEPT ![u] = "destroy"] /\ Left(e) <= 0
    BY <1>1 DEF ReleaseUnlink
<1>3. /\ e \in linked /\ k \in Keys \cup {NoKey}
      /\ StateOf(k) = Verdict(e) /\ Lookup(k) = {e} /\ UsersOf(k) = Holders(e)
      /\ \A d \in linked : SameResponse(d)
      /\ u \in UsersOf(k) \ WritersOf(k)
      /\ \A j \in Keys : UsersOf(j)' = IF j = k THEN UsersOf(j) \ {u} ELSE UsersOf(j)
      /\ WritersStayAll
    <2>1. Departs(u, e, k, "destroy", c)
        BY <1>2 DEF Departs, Leaving
    <2> QED
        BY <2>1, Leaves DEF Departed
<1>4. Holders(e) = {u}
    BY <1>2, LastHolder
<1>5. entry[e].failed /\ ~entry[e].complete
    BY <1>2, <1>3, <1>4
    DEF Keeps, IInv, Consistent, FillingHasWriter, OneVerdict, Writers, Writing
<1>6. StateOf(k) = "failed" /\ UsersOf(k) = {u}
    BY <1>3, <1>4, <1>5 DEF Verdict
<1>7. Lookup(k)' = {}
    BY <1>2, <1>3 DEF Lookup, SameResponse
<1>8. StateOf(k)' = "absent" /\ SizeOf(k)' = 0
    BY <1>7 DEF StateOf, SizeOf
<1>9. ASSUME NEW j \in Keys, j # k
      PROVE  StateOf(j)' = StateOf(j) /\ SizeOf(j)' = SizeOf(j)
    <2>1. Lookup(j)' = Lookup(j) /\ Lookup(j) \subseteq linked
        BY <1>2, <1>3, <1>9 DEF Lookup, SameResponse
    <2>2. StateOf(j)' = StateOf(j)
        BY <1>3, <2>1 DEF StateOf, SameResponse
    <2>3. CASE Lookup(j) = {}
        BY <2>1, <2>2, <2>3 DEF SizeOf
    <2>4. CASE Lookup(j) # {}
        <3>1. (CHOOSE d \in Lookup(j) : TRUE) \in Lookup(j)
            BY <2>4
        <3>2. (CHOOSE d \in Lookup(j) : TRUE)' = (CHOOSE d \in Lookup(j) : TRUE)
            BY <2>1
        <3> QED
            BY <1>3, <2>1, <2>2, <2>4, <3>1, <3>2 DEF SizeOf, SameResponse
    <2> QED
        BY <2>3, <2>4
<1>10. CASE k \in Keys
    <2>1. /\ \A j \in Keys : StateOf(j)' = IF j = k THEN "absent" ELSE StateOf(j)
          /\ \A j \in Keys : SizeOf(j)' = IF j = k THEN 0 ELSE SizeOf(j)
        BY <1>8, <1>9
    <2>2. \A j \in Keys : WritersOf(j)' = WritersOf(j)
        BY <1>3 DEF WritersStayAll
    <2>3. /\ [j \in Keys |-> StateOf(j)']
                = [[j \in Keys |-> StateOf(j)] EXCEPT ![k] = "absent"]
          /\ [j \in Keys |-> SizeOf(j)'] = [[j \in Keys |-> SizeOf(j)] EXCEPT ![k] = 0]
        BY <1>10, <2>1
    <2>4. [j \in Keys |-> UsersOf(j)']
            = [[j \in Keys |-> UsersOf(j)] EXCEPT ![k] = UsersOf(k) \ {u}]
        BY <1>3, <1>10
    <2>5. [j \in Keys |-> WritersOf(j)'] = [j \in Keys |-> WritersOf(j)]
        BY <2>2
    <2>6. /\ [j \in Keys |-> UsersOf(j)][k] = {u}
          /\ [j \in Keys |-> StateOf(j)][k] = "failed"
          /\ u \in [j \in Keys |-> UsersOf(j)][k] \ [j \in Keys |-> WritersOf(j)][k]
        BY <1>3, <1>6, <1>10
    <2>7. Store!Leave(u, k)
        BY <1>6, <1>10, <2>3, <2>4, <2>5, <2>6 DEF Store!Leave
    <2> QED
        BY <1>10, <2>7
<1>11. CASE k \notin Keys
    <2>1. StoreStays /\ UsersStayAll
        BY <1>3, <1>9, <1>11 DEF StoreStays, UsersStayAll
    <2> QED
        BY <1>3, <2>1, Stutter
<1> QED
    BY <1>10, <1>11

\* The table and who holds what stay as they are.
Unseen == /\ linked' = linked
          /\ \A e \in linked : entry'[e] = entry[e]
          /\ \A u \in Users : /\ at'[u] \in Holding <=> at[u] \in Holding
                              /\ at'[u] = "write" <=> at[u] = "write"
                              /\ at[u] \in Holding => ref'[u] = ref[u]

LEMMA UnseenStores ==
    ASSUME IInv, Unseen
    PROVE  UNCHANGED Store!vars
<1>1. linked' = linked /\ \A e \in linked : SameResponse(e)
    BY DEF Unseen, SameResponse
<1>2. StoreStays
    BY <1>1, ResponsesStay DEF StoreStays
<1>3. UsersStayAll /\ WritersStayAll
    BY UsersStay DEF Unseen, UsersStayAll, WritersStayAll
<1> QED
    BY <1>2, <1>3, Stutter

LEMMA Silent ==
    ASSUME IInv, NEW u \in Users,
           \/ ReaderStep(u) \/ SpuriousWakeup(u)
           \/ ReleaseLogged(u) \/ ReleaseDestroy(u)
           \/ \E k \in Keys : MissNoMemory(u, k)
    PROVE  UNCHANGED Store!vars
<1> USE DEF IInv, TypeOK, Unseen, Holding, Writing, Reading
<1>1. CASE ReaderStep(u) \/ SpuriousWakeup(u)
    <2>1. Unseen
        BY <1>1 DEF ReaderStep, StreamWait, StreamEnd, StreamChunk, SendChunk, SendFails,
           SpuriousWakeup
    <2> QED
        BY <2>1, UnseenStores
<1>2. CASE ReleaseLogged(u)
    <2>1. Unseen
        BY <1>2 DEF ReleaseLogged, Forget
    <2> QED
        BY <2>1, UnseenStores
<1>3. CASE ReleaseDestroy(u)
    <2>1. ref[u] \notin linked
        BY <1>3 DEF ReleaseDestroy, Consistent, ReleasersKnow
    <2>2. Unseen
        BY <1>3, <2>1 DEF ReleaseDestroy, Forget, Freed
    <2> QED
        BY <2>2, UnseenStores
<1>4. ASSUME NEW k \in Keys, MissNoMemory(u, k)
      PROVE  UNCHANGED Store!vars
    <2>1. Lookup(k) = {}
        BY <1>4, NothingToDrop DEF MissNoMemory
    <2>2. Unseen
        BY <1>4, <2>1 DEF MissNoMemory, Freed
    <2> QED
        BY <2>2, UnseenStores
<1> QED
    BY <1>1, <1>2, <1>3, <1>4

LEMMA DestroyStores ==
    ASSUME IInv, TableDestroy
    PROVE  Store!Close
<1>1. linked' = {} /\ \A u \in Users : at[u] = "out" /\ at'[u] = "out"
    BY DEF TableDestroy
<1>2. \A k \in Keys : StateOf(k)' = "absent" /\ SizeOf(k)' = 0
    BY <1>1 DEF StateOf, SizeOf, Lookup
<1>3. \A k \in Keys : /\ UsersOf(k) = {} /\ UsersOf(k)' = {}
                       /\ WritersOf(k) = {} /\ WritersOf(k)' = {}
    BY <1>1 DEF UsersOf, WritersOf, Holding, Writing, Reading
<1> QED
    BY <1>2, <1>3 DEF Store!Close

----------------------------------------------------------------------------
\* The cache is a store of responses: for every key one is filled by the first
\* who asks, shared, settled once, and forgotten only if it failed, by whoever
\* leaves last.
THEOREM ImplementsStore == Spec => StoresResponses
<1>1. Init => Store!Init
    BY DEF Init, Store!Init, StateOf, SizeOf, Lookup, UsersOf, WritersOf, Holding, Writing,
       Reading
<1>2. ASSUME IInv, [Next]_vars
      PROVE  [Store!Next]_(Store!vars)
    <2>1. ASSUME NEW u \in Users, NEW k \in Keys, Hit(u, k) \/ Miss(u, k)
          PROVE  Store!Next
        BY <1>2, <2>1, JoinStores, BeginStores DEF Store!Next
    <2>2. ASSUME NEW u \in Users, WriterStep(u)
          PROVE  [Store!Next]_(Store!vars)
        BY <1>2, <2>2, WriterStores DEF Store!Next
    <2>3. ASSUME NEW u \in Users, ReleaseShared(u) \/ ReleaseKeep(u) \/ ReleaseUnlink(u)
          PROVE  [Store!Next]_(Store!vars)
        BY <1>2, <2>3, KeptStores, UnlinkStores DEF Store!Next
    <2>4. ASSUME NEW u \in Users,
                 \/ ReaderStep(u) \/ SpuriousWakeup(u)
                 \/ ReleaseLogged(u) \/ ReleaseDestroy(u)
                 \/ \E k \in Keys : MissNoMemory(u, k)
          PROVE  UNCHANGED Store!vars
        BY <1>2, <2>4, Silent
    <2>5. CASE TableDestroy
        BY <1>2, <2>5, DestroyStores DEF Store!Next
    <2>6. CASE UNCHANGED vars
        <3>1. Unseen
            BY <2>6 DEF vars, Unseen
        <3> QED
            BY <1>2, <3>1, UnseenStores
    <2> QED
        BY <1>2, <2>1, <2>2, <2>3, <2>4, <2>5, <2>6 DEF Next, Join, ReleaseStep, Closed
<1> QED
    BY <1>1, <1>2, Invariance, PTL DEF Spec, StoresResponses, Store!Spec
=============================================================================
