-------------------------- MODULE SharedCache_proofs --------------------------
(***************************************************************************)
(* For all processes, tasks, keys, lifetimes and bounds: how old a served  *)
(* value is, that only two processes writing one key spoil a file or lose  *)
(* a response, and what the bound of a process's memory evicts.            *)
(***************************************************************************)
EXTENDS SharedCache, FiniteSetTheorems, WellFoundedInduction, TLAPS

Writer(t) == job[t].stage \in {"writing", "replacing"}

-----------------------------------------------------------------------------
(* The invariants *)

Shapes ==
    /\ now \in Int
    /\ job \in [Tasks -> [stage : Stages, key : Keys, value : Int, age : Int,
                          file : Inodes \cup {NoFile}, from : Origins]]
    /\ memory \in [Processes -> [Keys -> [value : Int, expires : Int]]]
    /\ path \in [Keys -> Inodes \cup {NoFile}]
    /\ tmp \in [Keys -> Inodes \cup {NoFile}]
    /\ content \in [Inodes -> [whole : BOOLEAN, value : Int, expires : Int]]

\* What is in memory or in a file expires in time.
Lifetimes ==
    /\ \A p \in Processes, k \in Keys : memory[p][k].expires <= memory[p][k].value + 2 * TTL
    /\ \A i \in Inodes : content[i].expires <= content[i].value + TTL

LifeInv == Shapes /\ Lifetimes /\ ServedWithinTwoLifetimes

\* A process is in one cache call at a time.
OneCall ==
    \A t, u \in Tasks :
        t # u /\ ProcessOf[t] = ProcessOf[u] => job[t].stage \notin InCall
                                                \/ job[u].stage \notin InCall

NamesApart ==
    /\ \A k \in Keys : tmp[k] # NoFile => tmp[k] # path[k]
    /\ \A j, k \in Keys : j # k => NamesOf(j) \cap NamesOf(k) = {}

\* An open file belongs to the key it was opened for.
OpenFiles ==
    \A t \in Tasks : Writer(t) =>
        /\ job[t].file # NoFile
        /\ \A k \in Keys \ {job[t].key} : job[t].file \notin NamesOf(k)
        /\ \A u \in Tasks : Writer(u) /\ job[u].file = job[t].file => job[u].key = job[t].key

\* Where two processes have not met, the writer is alone and its file in place.
Undisturbed ==
    \A t \in Tasks : Writer(t) /\ job[t].key \notin raced =>
        /\ \A u \in Tasks : Writer(u) /\ job[u].key = job[t].key => u = t
        /\ tmp[job[t].key] = job[t].file
        /\ job[t].stage = "writing" => content[job[t].file] = Empty
        /\ job[t].stage = "replacing" => content[job[t].file].whole

FileInv ==
    /\ OneCall
    /\ NamesApart
    /\ OpenFiles
    /\ Undisturbed
    /\ FilesWhole
    /\ RaisesOnlyInRace

LEMMA InitCache ==
    Init => LifeInv /\ FileInv
<1> SUFFICES ASSUME Init PROVE LifeInv /\ FileInv
  OBVIOUS
<1>1. (CHOOSE k \in Keys : TRUE) \in Keys
  BY CacheConstants
<1>2. Shapes
  <2>1. Idle \in [stage : Stages, key : Keys, value : Int, age : Int,
                  file : Inodes \cup {NoFile}, from : Origins]
    BY <1>1 DEF Idle, Job, Stages, Origins
  <2>2. job \in [Tasks -> [stage : Stages, key : Keys, value : Int, age : Int,
                           file : Inodes \cup {NoFile}, from : Origins]]
    BY <2>1 DEF Init
  <2> QED
    BY <2>2 DEF Init, Shapes, NoEntry, Entry, Empty, Text
<1>3. Lifetimes
  BY CacheConstants DEF Init, Lifetimes, NoEntry, Entry, Empty, Text
<1>4. \A t \in Tasks : job[t].stage = "idle"
  BY DEF Init, Idle, Job
<1>5. ServedWithinTwoLifetimes /\ RaisesOnlyInRace /\ OneCall
  BY <1>4 DEF ServedWithinTwoLifetimes, RaisesOnlyInRace, OneCall, InCall
<1>6. NamesApart /\ FilesWhole
  BY DEF Init, NamesApart, NamesOf, FilesWhole
<1>7. OpenFiles /\ Undisturbed
  BY <1>4 DEF OpenFiles, Undisturbed, Writer
<1> QED
  BY <1>2, <1>3, <1>5, <1>6, <1>7 DEF LifeInv, FileInv

-----------------------------------------------------------------------------
(* How old a served value is *)

\* An entry whose expiry is at most two lifetimes after its fetch may be stored.
LEMMA StoreKeepsLifetimes ==
    ASSUME LifeInv, NEW p \in Processes, NEW k \in Keys, NEW value \in Int,
           now + TTL <= value + 2 * TTL, Store(p, k, value, TTL)
    PROVE  /\ memory' \in [Processes -> [Keys -> [value : Int, expires : Int]]]
           /\ \A q \in Processes, j \in Keys :
                 memory'[q][j].expires <= memory'[q][j].value + 2 * TTL
<1> DEFINE
      Entries == [value : Int, expires : Int]
      Kept(e) == e \in Entries /\ e.expires <= e.value + 2 * TTL
      added == [Purged(p) EXCEPT ![k] = Entry(value, now + TTL)]
      order == MoveToEnd(recency[p], k)
<1>1. TTL \in Int /\ TTL >= 0
  BY CacheConstants
<1>2. Kept(NoEntry)
  BY <1>1 DEF NoEntry, Entry
<1>3. Kept(Entry(value, now + TTL))
  BY <1>1 DEF Entry, LifeInv, Shapes
<1>4. \A q \in Processes, j \in Keys : Kept(memory[q][j])
  BY DEF LifeInv, Shapes, Lifetimes
<1>5. \A j \in Keys : Kept(Purged(p)[j])
  BY <1>2, <1>4 DEF Purged
<1>6. added \in [Keys -> Entries] /\ \A j \in Keys : Kept(added[j])
  <2>1. Purged(p) = [j \in Keys |-> Purged(p)[j]]
    BY DEF Purged
  <2>2. added = [j \in Keys |-> IF j = k THEN Entry(value, now + TTL) ELSE Purged(p)[j]]
    BY <2>1
  <2> HIDE DEF Kept
  <2>3. \A j \in Keys : Kept(added[j])
    BY <2>2, <1>3, <1>5
  <2> QED
    BY <2>2, <2>3 DEF Kept
<1>7. /\ Evict(added, order) \in [Keys -> Entries]
      /\ \A j \in Keys : Kept(Evict(added, order)[j])
  <2> HIDE DEF Kept, added, order
  <2>1. Evict(added, order) = [j \in Keys |-> IF Cardinality(Newer(added, order, j)) < MaxEntries
                                              THEN added[j] ELSE NoEntry]
    BY DEF Evict
  <2>2. \A j \in Keys : Kept(Evict(added, order)[j])
    BY <2>1, <1>2, <1>6
  <2> QED
    BY <2>1, <2>2 DEF Kept
<1>8. memory' = [memory EXCEPT ![p] = Evict(added, order)]
  BY DEF Store
<1>9. memory \in [Processes -> [Keys -> Entries]]
  BY DEF LifeInv, Shapes
<1> HIDE DEF added, order
<1> QED
  BY <1>4, <1>7, <1>8, <1>9

JobSet == [stage : Stages, key : Keys, value : Int, age : Int,
           file : Inodes \cup {NoFile}, from : Origins]

\* A served job is young enough for where its value came from.
YoungEnough(j) ==
    j.stage = "served" => /\ j.from = "disk" => j.age < TTL
                          /\ j.from = "memory" => j.age < 2 * TTL

LEMMA GotoKeepsAges ==
    ASSUME LifeInv, NEW t \in Tasks, NEW j \in JobSet, YoungEnough(j), Goto(t, j)
    PROVE  job' \in [Tasks -> JobSet] /\ ServedWithinTwoLifetimes'
<1>1. job' = [job EXCEPT ![t] = j] /\ job \in [Tasks -> JobSet]
  BY DEF Goto, LifeInv, Shapes, JobSet
<1>2. \A u \in Tasks : YoungEnough(job[u])
  BY DEF LifeInv, ServedWithinTwoLifetimes, YoungEnough
<1>3. job' \in [Tasks -> JobSet]
  BY <1>1
<1>4. \A u \in Tasks : YoungEnough(job'[u])
  <2> HIDE DEF YoungEnough
  <2> QED
    BY <1>1, <1>2
<1> QED
  BY <1>3, <1>4 DEF ServedWithinTwoLifetimes, YoungEnough

\* Jobs that are not served have no age to speak of.
LEMMA JobShape ==
    ASSUME NEW stage \in Stages \ {"served"}, NEW k \in Keys, NEW value \in Int,
           NEW file \in Inodes \cup {NoFile}
    PROVE  Job(stage, k, value, file) \in JobSet /\ YoungEnough(Job(stage, k, value, file))
BY DEF Job, JobSet, YoungEnough, Origins

LEMMA ServedShape ==
    ASSUME NEW t \in Tasks, NEW k \in Keys, NEW value \in Int, NEW from \in Origins,
           now \in Int, Served(t, k, value, from),
           from = "disk" => now - value < TTL,
           from = "memory" => now - value < 2 * TTL
    PROVE  \E j \in JobSet : YoungEnough(j) /\ Goto(t, j)
<1> DEFINE j == [stage |-> "served", key |-> k, value |-> 0, file |-> NoFile,
                 age |-> now - value, from |-> from]
<1>1. j \in JobSet
  BY DEF JobSet, Stages
<1>2. YoungEnough(j)
  BY DEF YoungEnough
<1> QED
  BY <1>1, <1>2 DEF Served

LEMMA NextLife ==
    LifeInv /\ [Next]_vars => LifeInv'
<1> SUFFICES ASSUME LifeInv, [Next]_vars PROVE LifeInv'
  OBVIOUS
<1> USE CacheConstants
<1>0. TTL \in Int /\ TTL >= 0 /\ now \in Int
  BY DEF LifeInv, Shapes
<1>1. ASSUME NEW t \in Tasks
      PROVE  ProcessOf[t] \in Processes /\ job[t].key \in Keys /\ job[t].value \in Int
             /\ job[t].file \in Inodes \cup {NoFile}
  BY DEF LifeInv, Shapes
\* What a step leaves alone keeps its share of the invariant.
<1> DEFINE
      MemoryOK == /\ memory \in [Processes -> [Keys -> [value : Int, expires : Int]]]
                  /\ \A p \in Processes, k \in Keys :
                        memory[p][k].expires <= memory[p][k].value + 2 * TTL
      FilesOK == /\ path \in [Keys -> Inodes \cup {NoFile}]
                 /\ tmp \in [Keys -> Inodes \cup {NoFile}]
                 /\ content \in [Inodes -> [whole : BOOLEAN, value : Int, expires : Int]]
                 /\ \A i \in Inodes : content[i].expires <= content[i].value + TTL
      JobsOK == job \in [Tasks -> JobSet] /\ ServedWithinTwoLifetimes
<1>2. MemoryOK /\ FilesOK /\ JobsOK
  BY DEF LifeInv, Shapes, Lifetimes, JobSet
<1>3. MemoryOK' /\ FilesOK' /\ JobsOK' /\ now' \in Int => LifeInv'
  BY DEF LifeInv, Shapes, Lifetimes, JobSet
<1>4. UNCHANGED memory => MemoryOK'
  BY <1>2
<1>5. UNCHANGED <<path, tmp, content>> => FilesOK'
  BY <1>2
<1>6. UNCHANGED now => now' \in Int
  BY <1>0
<1>7. ASSUME NEW t \in Tasks, NEW j \in JobSet, YoungEnough(j), Goto(t, j)
      PROVE  JobsOK'
  BY <1>7, GotoKeepsAges
<1>8. ASSUME NEW t \in Tasks, NEW stage \in Stages \ {"served"}, NEW k \in Keys,
             NEW value \in Int, NEW file \in Inodes \cup {NoFile},
             Goto(t, Job(stage, k, value, file))
      PROVE  JobsOK'
  BY <1>8, <1>7, JobShape
<1>9. ASSUME NEW t \in Tasks, NEW k \in Keys, NEW value \in Int, NEW from \in Origins,
             Served(t, k, value, from),
             from = "disk" => now - value < TTL,
             from = "memory" => now - value < 2 * TTL
      PROVE  JobsOK'
  BY <1>9, <1>7, <1>0, ServedShape
<1>10. ASSUME NEW t \in Tasks, NEW k \in Keys, Begin(t, k)
       PROVE  LifeInv'
  <2> DEFINE p == ProcessOf[t]
  <2>1. memory' = [memory EXCEPT ![p] = Purged(p)] /\ p \in Processes
    BY <1>10, <1>1 DEF Begin
  <2>2. \A j \in Keys : Purged(p)[j] = memory[p][j] \/ Purged(p)[j] = Entry(0, 0)
    BY DEF Purged, NoEntry
  <2>3. /\ Purged(p) \in [Keys -> [value : Int, expires : Int]]
        /\ \A j \in Keys : Purged(p)[j].expires <= Purged(p)[j].value + 2 * TTL
    <3>1. Purged(p) = [j \in Keys |-> Purged(p)[j]]
      BY DEF Purged
    <3> DEFINE Kept(e) == /\ e \in [value : Int, expires : Int]
                          /\ e.expires <= e.value + 2 * TTL
    <3>2. Kept(Entry(0, 0)) /\ \A j \in Keys : Kept(memory[p][j])
      BY <2>1, <1>2, <1>0 DEF Entry
    <3>3. \A j \in Keys : Kept(Purged(p)[j])
      <4> HIDE DEF Kept
      <4> QED
        BY <3>2, <2>2
    <3> QED
      BY <3>1, <3>3
  <2>4. MemoryOK'
    BY <2>1, <2>3, <1>2
  <2>5. FilesOK' /\ now' \in Int
    BY <1>10, <1>5, <1>6 DEF Begin
  <2>6. JobsOK'
    <3>1. CASE Live(memory[p][k])
      <4>1. Served(t, k, memory[p][k].value, "memory")
        BY <3>1, <1>10 DEF Begin
      <4>2. memory[p][k].value \in Int /\ now - memory[p][k].value < 2 * TTL
        BY <3>1, <2>1, <1>2, <1>0 DEF Live
      <4> QED
        BY <4>1, <4>2, <1>9 DEF Origins
    <3>2. CASE ~Live(memory[p][k])
      BY <3>2, <1>10, <1>8, CacheConstants DEF Begin, Stages
    <3> QED
      BY <3>1, <3>2
  <2> QED
    BY <2>4, <2>5, <2>6, <1>3
<1>11. ASSUME NEW t \in Tasks, ReadFile(t)
       PROVE  LifeInv'
  <2> DEFINE k == job[t].key
             text == content[path[k]]
  <2>1. FilesOK' /\ now' \in Int
    BY <1>11, <1>5, <1>6 DEF ReadFile
  <2>2. CASE Readable(k) /\ FileFresh(k)
    <3>1. path[k] \in Inodes
      BY <2>2, <1>1, <1>2 DEF Readable
    <3>2. text.value \in Int /\ now - text.value < TTL /\ now + TTL <= text.value + 2 * TTL
      BY <2>2, <3>1, <1>2, <1>0 DEF FileFresh
    <3>3. Served(t, k, text.value, "disk") /\ Store(ProcessOf[t], k, text.value, TTL)
      BY <2>2, <1>11 DEF ReadFile
    <3>4. MemoryOK'
      BY <3>2, <3>3, <1>1, StoreKeepsLifetimes
    <3>5. JobsOK'
      BY <3>2, <3>3, <1>1, <1>9 DEF Origins
    <3> QED
      BY <3>4, <3>5, <2>1, <1>3
  <2>3. CASE ~Readable(k)
    <3>1. JobsOK' /\ MemoryOK'
      BY <2>3, <1>11, <1>1, <1>4, <1>8, CacheConstants DEF ReadFile, Stages
    <3> QED
      BY <3>1, <2>1, <1>3
  <2>4. CASE Readable(k) /\ ~FileFresh(k)
    <3>1. JobsOK' /\ MemoryOK'
      BY <2>4, <1>11, <1>1, <1>4, <1>8, CacheConstants DEF ReadFile, Stages
    <3> QED
      BY <3>1, <2>1, <1>3
  <2> QED
    BY <2>2, <2>3, <2>4
<1>12. ASSUME NEW t \in Tasks, Unlink(t)
       PROVE  LifeInv'
  <2>1. MemoryOK' /\ now' \in Int
    BY <1>12, <1>4, <1>6 DEF Unlink
  <2>2. JobsOK'
    BY <1>12, <1>1, <1>8, CacheConstants DEF Unlink, Stages
  <2>3. FilesOK'
    BY <1>12, <1>1, <1>2 DEF Unlink
  <2> QED
    BY <2>1, <2>2, <2>3, <1>3
<1>13. ASSUME NEW t \in Tasks, Respond(t)
       PROVE  LifeInv'
  <2> DEFINE k == job[t].key
  <2>1. CASE TTL = 0
    <3>1. Served(t, k, now, "net")
      BY <2>1, <1>13 DEF Respond
    <3>2. JobsOK'
      BY <3>1, <1>0, <1>1, <1>9 DEF Origins
    <3> QED
      BY <2>1, <1>13, <3>2, <1>3, <1>4, <1>5, <1>6 DEF Respond
  <2>2. CASE TTL # 0
    <3>1. Store(ProcessOf[t], k, now, TTL)
      BY <2>2, <1>13 DEF Respond
    <3>2. PICK i \in Inodes : /\ tmp' = [tmp EXCEPT ![k] = i]
                              /\ content' = [content EXCEPT ![i] = Empty]
                              /\ Goto(t, Job("writing", k, now, i))
      BY <2>2, <1>13 DEF Respond
    <3>3. MemoryOK'
      BY <3>1, <1>0, <1>1, StoreKeepsLifetimes
    <3>4. JobsOK'
      BY <3>2, <1>0, <1>1, <1>8 DEF Stages
    <3>5. FilesOK'
      <4>1. UNCHANGED path
        BY <2>2, <1>13 DEF Respond
      <4> QED
        BY <4>1, <3>2, <1>0, <1>1, <1>2 DEF Empty, Text
    <3> QED
      BY <1>13, <3>3, <3>4, <3>5, <1>3, <1>6 DEF Respond
  <2> QED
    BY <2>1, <2>2
<1>14. ASSUME NEW t \in Tasks, GiveUp(t)
       PROVE  LifeInv'
  <2>1. JobsOK'
    BY <1>14, <1>1, <1>8, CacheConstants DEF GiveUp, Stages
  <2> QED
    BY <1>14, <2>1, <1>3, <1>4, <1>5, <1>6 DEF GiveUp
<1>15. ASSUME NEW t \in Tasks, Write(t)
       PROVE  LifeInv'
  <2> DEFINE j == job[t]
  <2>1. PICK whole \in BOOLEAN :
          content' = [content EXCEPT ![j.file] =
                        [Text(TRUE, j.value, j.value + TTL) EXCEPT !.whole = whole]]
    BY <1>15 DEF Write
  <2>2. [Text(TRUE, j.value, j.value + TTL) EXCEPT !.whole = whole]
           = [whole |-> whole, value |-> j.value, expires |-> j.value + TTL]
    BY DEF Text
  <2> DEFINE new == [whole |-> whole, value |-> j.value, expires |-> j.value + TTL]
  <2>a. /\ new \in [whole : BOOLEAN, value : Int, expires : Int]
        /\ new.expires <= new.value + TTL
    BY <1>0, <1>1
  <2>b. content' = [content EXCEPT ![j.file] = new] /\ UNCHANGED <<path, tmp>>
    BY <1>15, <2>1, <2>2 DEF Write
  <2>3. FilesOK'
    <3> HIDE DEF new, j
    <3> QED
      BY <2>a, <2>b, <1>2
  <2>4. JobsOK'
    BY <1>15, <1>1, <1>8 DEF Write, Stages
  <2> QED
    BY <1>15, <2>3, <2>4, <1>3, <1>4, <1>6 DEF Write
<1>16. ASSUME NEW t \in Tasks, Replace(t)
       PROVE  LifeInv'
  <2> DEFINE k == job[t].key
  <2>1. CASE tmp[k] = NoFile
    <3>1. JobsOK'
      BY <2>1, <1>16, <1>1, <1>8, CacheConstants DEF Replace, Stages
    <3> QED
      BY <2>1, <1>16, <3>1, <1>3, <1>4, <1>5, <1>6 DEF Replace
  <2>2. CASE tmp[k] # NoFile
    <3>1. JobsOK'
      <4>1. Served(t, k, job[t].value, "net")
        BY <2>2, <1>16 DEF Replace
      <4> QED
        BY <4>1, <1>1, <1>9 DEF Origins
    <3>2. FilesOK'
      BY <2>2, <1>16, <1>1, <1>2 DEF Replace
    <3> QED
      BY <1>16, <3>1, <3>2, <1>3, <1>4, <1>6 DEF Replace
  <2> QED
    BY <2>1, <2>2
<1>17. ASSUME NEW p \in Processes, Restart(p)
       PROVE  LifeInv'
  <2>1. MemoryOK'
    BY <1>17, <1>0, <1>2 DEF Restart, NoEntry, Entry
  <2>2. FilesOK' /\ now' \in Int
    BY <1>17, <1>5, <1>6 DEF Restart, TmpAtStart
  <2>3. JobsOK'
    <3>1. (CHOOSE k \in Keys : TRUE) \in Keys
      BY CacheConstants
    <3>2. Idle \in JobSet /\ Idle.stage = "idle"
      BY <3>1 DEF Idle, Job, JobSet, Stages, Origins
    <3>3. job' = [t \in Tasks |-> IF ProcessOf[t] = p THEN Idle ELSE job[t]]
      BY <1>17 DEF Restart
    <3> QED
      BY <3>2, <3>3, <1>2 DEF ServedWithinTwoLifetimes
  <2> QED
    BY <2>1, <2>2, <2>3, <1>3
<1>18. CASE Tick
  <2>1. JobsOK'
    BY <1>18, <1>2 DEF Tick, ServedWithinTwoLifetimes
  <2> QED
    BY <1>18, <2>1, <1>0, <1>3, <1>4, <1>5 DEF Tick
<1>19. CASE UNCHANGED vars
  <2>1. JobsOK'
    BY <1>19, <1>2 DEF vars, ServedWithinTwoLifetimes
  <2> QED
    BY <1>19, <2>1, <1>3, <1>4, <1>5, <1>6 DEF vars
<1> QED
  BY <1>10, <1>11, <1>12, <1>13, <1>14, <1>15, <1>16, <1>17, <1>18, <1>19
     DEF Next, TaskStep

\* A file serves its value for one lifetime, memory for less than two: however
\* fetch_text fills memory from the disk, and whatever expires or is evicted.
THEOREM TwoLifetimes == Spec => []ServedWithinTwoLifetimes
<1>1. Init => LifeInv
  BY InitCache
<1>2. LifeInv => ServedWithinTwoLifetimes
  BY DEF LifeInv
<1> QED
  BY <1>1, <1>2, NextLife, PTL DEF Spec

-----------------------------------------------------------------------------
(* What two writers can spoil *)

\* The tasks of a process do not meet inside a cache call.
LEMMA GotoKeepsOneCall ==
    ASSUME Shapes, OneCall, NEW t \in Tasks, NEW j, MayRun(t), Goto(t, j)
    PROVE  OneCall'
<1>1. \A u \in Tasks : u # t => job'[u] = job[u]
  BY DEF Goto, Shapes
<1>2. \A u \in Tasks : u # t /\ ProcessOf[u] = ProcessOf[t] => job[u].stage \notin InCall
  BY DEF MayRun
<1> QED
  BY <1>1, <1>2 DEF OneCall, InCall

\* A task that does not become a writer, with no file named or written anew.
LEMMA QuietStep ==
    ASSUME Shapes, FileInv, NEW t \in Tasks, NEW j, MayRun(t), Goto(t, j),
           j.stage \notin {"writing", "replacing"},
           j.stage = "raised" => j.key \in raced,
           path' = path \/ path' = [path EXCEPT ![job[t].key] = NoFile],
           UNCHANGED <<tmp, content, raced>>
    PROVE  FileInv'
<1>1. /\ job'[t] = j
      /\ \A u \in Tasks : u # t => job'[u] = job[u]
  BY DEF Goto, Shapes
<1>2. \A u \in Tasks : Writer(u)' => Writer(u) /\ job'[u] = job[u]
  BY <1>1 DEF Writer
<1>3. \A k \in Keys : path'[k] = path[k] \/ path'[k] = NoFile
  BY DEF Shapes
<1>4. \A k \in Keys : NamesOf(k)' \subseteq NamesOf(k)
  BY <1>3 DEF NamesOf
<1>5. OneCall'
  BY GotoKeepsOneCall DEF FileInv
<1>6. NamesApart'
  <2>1. NamesApart
    BY DEF FileInv
  <2>2. \A k \in Keys : tmp'[k] # NoFile => tmp'[k] # path'[k]
    BY <2>1, <1>3 DEF NamesApart
  <2>3. \A i, k \in Keys : i # k => NamesOf(i)' \cap NamesOf(k)' = {}
    BY <2>1, <1>4 DEF NamesApart
  <2> QED
    BY <2>2, <2>3 DEF NamesApart
<1>7. OpenFiles'
  <2>1. OpenFiles
    BY DEF FileInv
  <2> QED
    BY <2>1, <1>2, <1>4 DEF OpenFiles
<1>8. Undisturbed'
  BY <1>2 DEF Undisturbed, FileInv
<1>9. FilesWhole' /\ RaisesOnlyInRace'
  BY <1>1, <1>3 DEF FilesWhole, RaisesOnlyInRace, FileInv
<1> QED
  BY <1>5, <1>6, <1>7, <1>8, <1>9 DEF FileInv

\* The temporary file a writer opens is nobody's, or the one at its key's name.
LEMMA RespondKeepsFiles ==
    ASSUME Shapes, FileInv, NEW t \in Tasks, NEW k, k = job[t].key, Respond(t), TTL # 0
    PROVE  FileInv'
<1>1. PICK i \in Inodes : /\ tmp[k] = NoFile => Free(i)
                          /\ tmp[k] # NoFile => i = tmp[k]
                          /\ tmp' = [tmp EXCEPT ![k] = i]
                          /\ content' = [content EXCEPT ![i] = Empty]
                          /\ Goto(t, Job("writing", k, now, i))
  BY DEF Respond, Opened
<1>2. /\ job[t].stage = "fetching" /\ MayRun(t) /\ k \in Keys
      /\ raced' = IF Rivals(t, k) = {} THEN raced ELSE raced \cup {k}
      /\ path' = path
  BY DEF Respond, At, Shapes
<1>3. /\ \A u \in Tasks : u # t => job'[u] = job[u]
      /\ job'[t].stage = "writing" /\ job'[t].key = k /\ job'[t].file = i
  BY <1>1 DEF Goto, Shapes, Job
<1>4. /\ tmp'[k] = i /\ \A j \in Keys : j # k => tmp'[j] = tmp[j]
      /\ content'[i] = Empty
      /\ \A f \in Inodes : f # i => content'[f] = content[f]
  BY <1>1, <1>2 DEF Shapes
<1>5. i # NoFile
  BY CacheConstants
\* The file is at no other name, and open for no other key.
<1>6. /\ \A j \in Keys : path[j] # i
      /\ \A j \in Keys \ {k} : i \notin NamesOf(j)
      /\ \A u \in Tasks : Writer(u) /\ job[u].file = i => job[u].key = k
  <2>1. CASE tmp[k] = NoFile
    BY <2>1, <1>1 DEF Free, NamesOf
  <2>2. CASE tmp[k] # NoFile
    <3>1. i = tmp[k] /\ i \in NamesOf(k)
      BY <2>2, <1>1, <1>5 DEF NamesOf
    <3>2. \A j \in Keys \ {k} : i \notin NamesOf(j)
      BY <3>1, <1>2 DEF FileInv, NamesApart
    <3>3. \A j \in Keys : path[j] # i
      BY <3>1, <3>2, <1>2, <1>5 DEF FileInv, NamesApart, NamesOf
    <3>4. \A u \in Tasks : Writer(u) /\ job[u].file = i => job[u].key = k
      BY <3>1, <1>2 DEF FileInv, OpenFiles
    <3> QED
      BY <3>2, <3>3, <3>4
  <2> QED
    BY <2>1, <2>2
<1>7. \A u \in Tasks : u # t /\ Writer(u)' => Writer(u) /\ job[u].key \in Keys
  BY <1>3 DEF Writer, Shapes
<1>8. OneCall'
  BY <1>1, <1>2, GotoKeepsOneCall DEF FileInv
<1>9. \A j \in Keys : j # k => NamesOf(j)' = NamesOf(j)
  BY <1>2, <1>4 DEF NamesOf
<1>10. NamesOf(k)' \subseteq NamesOf(k) \cup {i}
  BY <1>2, <1>4 DEF NamesOf
<1>11. NamesApart'
  <2>1. \A j \in Keys : tmp'[j] # NoFile => tmp'[j] # path'[j]
    BY <1>2, <1>4, <1>6 DEF FileInv, NamesApart
  <2>2. \A j \in Keys \ {k} : NamesOf(j)' \cap NamesOf(k)' = {}
    BY <1>2, <1>6, <1>9, <1>10 DEF FileInv, NamesApart
  <2>3. \A j, l \in Keys : j # l => NamesOf(j)' \cap NamesOf(l)' = {}
    <3> SUFFICES ASSUME NEW j \in Keys, NEW l \in Keys, j # l
                 PROVE  NamesOf(j)' \cap NamesOf(l)' = {}
      OBVIOUS
    <3>1. CASE j = k
      BY <3>1, <2>2
    <3>2. CASE l = k
      BY <3>2, <2>2
    <3>3. CASE j # k /\ l # k
      BY <3>3, <1>9 DEF FileInv, NamesApart
    <3> QED
      BY <3>1, <3>2, <3>3
  <2> QED
    BY <2>1, <2>3 DEF NamesApart
<1>12. OpenFiles'
  <2> SUFFICES ASSUME NEW u \in Tasks, Writer(u)'
               PROVE  /\ job'[u].file # NoFile
                      /\ \A j \in Keys \ {job'[u].key} : job'[u].file \notin NamesOf(j)'
                      /\ \A w \in Tasks : Writer(w)' /\ job'[w].file = job'[u].file
                                             => job'[w].key = job'[u].key
    BY DEF OpenFiles
  <2>1. CASE u = t
    BY <2>1, <1>3, <1>5, <1>6, <1>7, <1>9
  <2>2. CASE u # t
    <3>1. /\ Writer(u) /\ job'[u] = job[u] /\ job[u].file # NoFile
          /\ \A j \in Keys \ {job[u].key} : job[u].file \notin NamesOf(j)
      BY <2>2, <1>3, <1>7 DEF FileInv, OpenFiles
    <3>2. job[u].file = i => job[u].key = k
      BY <3>1, <1>6
    <3>3. \A j \in Keys \ {job[u].key} : job[u].file \notin NamesOf(j)'
      BY <3>1, <3>2, <1>9, <1>10
    <3>4. \A w \in Tasks : Writer(w)' /\ job'[w].file = job[u].file => job'[w].key = job[u].key
      BY <3>1, <3>2, <1>3, <1>7 DEF FileInv, OpenFiles
    <3> QED
      BY <3>1, <3>3, <3>4
  <2> QED
    BY <2>1, <2>2
<1>13. Undisturbed'
  <2> SUFFICES ASSUME NEW u \in Tasks, Writer(u)', job'[u].key \notin raced'
               PROVE  /\ \A w \in Tasks : Writer(w)' /\ job'[w].key = job'[u].key => w = u
                      /\ tmp'[job'[u].key] = job'[u].file
                      /\ job'[u].stage = "writing" => content'[job'[u].file] = Empty
                      /\ job'[u].stage = "replacing" => content'[job'[u].file].whole
    BY DEF Undisturbed
  <2>1. k \notin raced' => \A w \in Tasks : w # t /\ Writer(w) => job[w].key # k
    <3> SUFFICES ASSUME k \notin raced', NEW w \in Tasks, w # t, Writer(w)
                 PROVE  job[w].key # k
      OBVIOUS
    <3>1. ProcessOf[w] # ProcessOf[t]
      BY <1>2 DEF MayRun, Writer, InCall
    <3>2. Rivals(t, k) = {}
      BY <1>2
    <3> QED
      BY <3>1, <3>2 DEF Rivals, Writing, Writer
  <2>2. CASE u = t
    BY <2>1, <2>2, <1>3, <1>4, <1>7
  <2>3. CASE u # t
    <3>1. Writer(u) /\ job'[u] = job[u] /\ job[u].key \in Keys
      BY <2>3, <1>3, <1>7
    <3>2. job[u].key # k
      BY <2>1, <2>3, <3>1
    <3>3. job[u].key \notin raced
      BY <3>1, <1>2
    <3>4. job[u].file # i /\ job[u].file \in Inodes
      BY <3>1, <3>2, <1>6 DEF FileInv, OpenFiles, Shapes
    <3>5. /\ \A w \in Tasks : Writer(w) /\ job[w].key = job[u].key => w = u
          /\ tmp[job[u].key] = job[u].file
          /\ job[u].stage = "writing" => content[job[u].file] = Empty
          /\ job[u].stage = "replacing" => content[job[u].file].whole
      BY <3>1, <3>3 DEF FileInv, Undisturbed
    <3>6. \A w \in Tasks : Writer(w)' /\ job'[w].key = job[u].key => w = u
      BY <3>2, <3>5, <1>3, <1>7
    <3>7. tmp'[job[u].key] = job[u].file /\ content'[job[u].file] = content[job[u].file]
      BY <3>1, <3>2, <3>4, <3>5, <1>4
    <3> QED
      BY <3>1, <3>5, <3>6, <3>7
  <2> QED
    BY <2>2, <2>3
<1>14. raced \subseteq raced'
  BY <1>2
<1>15. FilesWhole'
  <2>1. \A j \in Keys : path'[j] # NoFile => content'[path'[j]] = content[path[j]]
    BY <1>2, <1>4, <1>6 DEF Shapes
  <2> QED
    BY <2>1, <1>2, <1>14 DEF FileInv, FilesWhole
<1>16. RaisesOnlyInRace'
  BY <1>3, <1>14 DEF FileInv, RaisesOnlyInRace
<1> QED
  BY <1>8, <1>11, <1>12, <1>13, <1>15, <1>16 DEF FileInv

\* A writer alone with its key leaves whole text; no entry's own file is written.
LEMMA WriteKeepsFiles ==
    ASSUME Shapes, FileInv, NEW t \in Tasks, NEW k, k = job[t].key, Write(t)
    PROVE  FileInv'
<1> DEFINE f == job[t].file
<1>1. /\ job[t].stage = "writing" /\ Writer(t) /\ MayRun(t) /\ k \in Keys
      /\ UNCHANGED <<path, tmp, raced>>
      /\ Goto(t, Job("replacing", k, job[t].value, f))
  BY DEF Write, At, Writer, Shapes
<1>2. f \in Inodes
  BY <1>1 DEF FileInv, OpenFiles, Shapes
<1>3. /\ content[f] = Empty => content'[f].whole
      /\ \A g \in Inodes : g # f => content'[g] = content[g]
  <2>1. PICK whole \in BOOLEAN :
          /\ content[f] = Empty => whole
          /\ content' = [content EXCEPT ![f] =
                [Text(TRUE, job[t].value, job[t].value + TTL) EXCEPT !.whole = whole]]
    BY DEF Write
  <2>2. [Text(TRUE, job[t].value, job[t].value + TTL) EXCEPT !.whole = whole].whole = whole
    BY DEF Text
  <2> QED
    BY <2>1, <2>2, <1>2 DEF Shapes
<1>4. /\ \A u \in Tasks : u # t => job'[u] = job[u]
      /\ job'[t].stage = "replacing" /\ job'[t].key = k /\ job'[t].file = f
  BY <1>1 DEF Goto, Shapes, Job
<1>5. \A u \in Tasks : /\ Writer(u)' <=> Writer(u)
                        /\ job'[u].key = job[u].key /\ job'[u].file = job[u].file
  BY <1>1, <1>4 DEF Writer
<1>6. \A j \in Keys : NamesOf(j)' = NamesOf(j)
  BY <1>1 DEF NamesOf
<1>7. OneCall'
  BY <1>1, GotoKeepsOneCall DEF FileInv
<1>8. NamesApart'
  BY <1>1, <1>6 DEF FileInv, NamesApart
<1>9. OpenFiles'
  BY <1>5, <1>6 DEF FileInv, OpenFiles, Shapes
<1>10. Undisturbed'
  <2> SUFFICES ASSUME NEW u \in Tasks, Writer(u)', job'[u].key \notin raced'
               PROVE  /\ \A w \in Tasks : Writer(w)' /\ job'[w].key = job'[u].key => w = u
                      /\ tmp'[job'[u].key] = job'[u].file
                      /\ job'[u].stage = "writing" => content'[job'[u].file] = Empty
                      /\ job'[u].stage = "replacing" => content'[job'[u].file].whole
    BY DEF Undisturbed
  <2>1. /\ Writer(u) /\ job[u].key \notin raced
        /\ \A w \in Tasks : Writer(w) /\ job[w].key = job[u].key => w = u
        /\ tmp[job[u].key] = job[u].file
        /\ job[u].stage = "writing" => content[job[u].file] = Empty
        /\ job[u].stage = "replacing" => content[job[u].file].whole
    BY <1>1, <1>5 DEF FileInv, Undisturbed
  <2>2. /\ \A w \in Tasks : Writer(w)' /\ job'[w].key = job'[u].key => w = u
        /\ tmp'[job'[u].key] = job'[u].file
    BY <2>1, <1>1, <1>5
  <2>3. CASE u = t
    BY <2>1, <2>2, <2>3, <1>1, <1>3, <1>4
  <2>4. CASE u # t
    <3>1. job[u].file # f
      BY <2>1, <2>4, <1>1 DEF FileInv, OpenFiles
    <3>2. job[u].file \in Inodes
      BY <2>1 DEF FileInv, OpenFiles, Shapes
    <3> QED
      BY <2>1, <2>2, <2>4, <3>1, <3>2, <1>3, <1>4
  <2> QED
    BY <2>3, <2>4
<1>11. FilesWhole'
  <2> SUFFICES ASSUME NEW j \in Keys, path[j] # NoFile, ~content'[path[j]].whole
               PROVE  j \in raced
    BY <1>1 DEF FilesWhole
  <2>1. CASE path[j] # f
    BY <2>1, <1>3 DEF FileInv, FilesWhole, Shapes
  <2>2. CASE path[j] = f
    <3>1. j = k
      BY <2>2, <1>1 DEF FileInv, OpenFiles, NamesOf
    <3>2. tmp[k] # f
      BY <2>2, <3>1, <1>1 DEF FileInv, NamesApart
    <3> QED
      BY <3>1, <3>2, <1>1 DEF FileInv, Undisturbed
  <2> QED
    BY <2>1, <2>2
<1>12. RaisesOnlyInRace'
  BY <1>1, <1>4 DEF FileInv, RaisesOnlyInRace
<1> QED
  BY <1>7, <1>8, <1>9, <1>10, <1>11, <1>12 DEF FileInv

\* A writer alone with its key publishes its own, whole file.
LEMMA ReplaceKeepsFiles ==
    ASSUME Shapes, FileInv, NEW t \in Tasks, NEW k, k = job[t].key, Replace(t)
    PROVE  FileInv'
<1>1. /\ job[t].stage = "replacing" /\ Writer(t) /\ MayRun(t) /\ k \in Keys
      /\ UNCHANGED <<content, raced>>
  BY DEF Replace, At, Writer, Shapes
<1>2. k \notin raced => /\ tmp[k] = job[t].file /\ tmp[k] # NoFile
                       /\ content[tmp[k]].whole
                       /\ \A u \in Tasks : Writer(u) /\ job[u].key = k => u = t
  BY <1>1 DEF FileInv, Undisturbed, OpenFiles
<1>3. CASE tmp[k] = NoFile
  <2>1. /\ Goto(t, Job("raised", k, 0, NoFile))
        /\ UNCHANGED <<path, tmp>>
    BY <1>3 DEF Replace
  <2>2. k \in raced
    BY <1>2, <1>3
  <2> QED
    BY <1>1, <2>1, <2>2, QuietStep DEF Job
<1>4. CASE tmp[k] # NoFile
  <2> DEFINE served == [stage |-> "served", key |-> k, value |-> 0, file |-> NoFile,
                        age |-> now - job[t].value, from |-> "net"]
  <2>1. /\ path' = [path EXCEPT ![k] = tmp[k]]
        /\ tmp' = [tmp EXCEPT ![k] = NoFile]
        /\ Goto(t, served)
    BY <1>4 DEF Replace, Served
  <2>2. /\ \A u \in Tasks : u # t => job'[u] = job[u]
        /\ job'[t].stage = "served"
    BY <2>1 DEF Goto, Shapes
  <2>3. \A u \in Tasks : Writer(u)' => Writer(u) /\ u # t /\ job'[u] = job[u]
    BY <2>2 DEF Writer
  <2>4. /\ path'[k] = tmp[k] /\ tmp'[k] = NoFile
        /\ \A j \in Keys : j # k => path'[j] = path[j] /\ tmp'[j] = tmp[j]
    BY <2>1, <1>1 DEF Shapes
  <2>5. \A j \in Keys : NamesOf(j)' \subseteq NamesOf(j)
    BY <2>4 DEF NamesOf
  <2>6. OneCall'
    BY <2>1, <1>1, GotoKeepsOneCall DEF FileInv
  <2>7. NamesApart'
    <3>1. \A j \in Keys : tmp'[j] # NoFile => tmp'[j] # path'[j]
      BY <2>4 DEF FileInv, NamesApart
    <3>2. \A i, j \in Keys : i # j => NamesOf(i)' \cap NamesOf(j)' = {}
      BY <2>5 DEF FileInv, NamesApart
    <3> QED
      BY <3>1, <3>2 DEF NamesApart
  <2>8. OpenFiles'
    BY <2>3, <2>5 DEF FileInv, OpenFiles
  <2>9. Undisturbed'
    <3> SUFFICES ASSUME NEW u \in Tasks, Writer(u)', job'[u].key \notin raced'
                 PROVE  /\ \A w \in Tasks : Writer(w)' /\ job'[w].key = job'[u].key => w = u
                        /\ tmp'[job'[u].key] = job'[u].file
                        /\ job'[u].stage = "writing" => content'[job'[u].file] = Empty
                        /\ job'[u].stage = "replacing" => content'[job'[u].file].whole
      BY DEF Undisturbed
    <3>1. Writer(u) /\ u # t /\ job'[u] = job[u] /\ job[u].key \notin raced
          /\ job[u].key \in Keys
      BY <2>3, <1>1 DEF Shapes
    <3>2. job[u].key # k
      BY <3>1, <1>2
    <3> QED
      BY <3>1, <3>2, <2>3, <2>4, <1>1 DEF FileInv, Undisturbed
  <2>10. FilesWhole'
    BY <2>4, <1>1, <1>2 DEF FileInv, FilesWhole
  <2>11. RaisesOnlyInRace'
    BY <2>2, <1>1 DEF FileInv, RaisesOnlyInRace
  <2> QED
    BY <2>6, <2>7, <2>8, <2>9, <2>10, <2>11 DEF FileInv
<1> QED
  BY <1>3, <1>4

LEMMA NextFiles ==
    Shapes /\ FileInv /\ [Next]_vars => FileInv'
<1> SUFFICES ASSUME Shapes, FileInv, [Next]_vars PROVE FileInv'
  OBVIOUS
<1> DEFINE Other == {"reading", "unlinking", "fetching", "gave_up", "served"}
<1>1. ASSUME NEW t \in Tasks, NEW j, MayRun(t), Goto(t, j), j.stage \in Other,
             path' = path \/ path' = [path EXCEPT ![job[t].key] = NoFile],
             UNCHANGED <<tmp, content, raced>>
      PROVE  FileInv'
  BY <1>1, QuietStep
<1>2. ASSUME NEW t \in Tasks, NEW k \in Keys, Begin(t, k)
      PROVE  FileInv'
  BY <1>1, <1>2 DEF Begin, At, Served, Job
<1>3. ASSUME NEW t \in Tasks, ReadFile(t)
      PROVE  FileInv'
  BY <1>1, <1>3 DEF ReadFile, At, Served, Job
<1>4. ASSUME NEW t \in Tasks, Unlink(t)
      PROVE  FileInv'
  BY <1>1, <1>4 DEF Unlink, At, Job
<1>5. ASSUME NEW t \in Tasks, Respond(t)
      PROVE  FileInv'
  <2>1. CASE TTL = 0
    BY <2>1, <1>1, <1>5 DEF Respond, At, Served
  <2>2. CASE TTL # 0
    BY <2>2, <1>5, RespondKeepsFiles
  <2> QED
    BY <2>1, <2>2
<1>6. ASSUME NEW t \in Tasks, GiveUp(t)
      PROVE  FileInv'
  BY <1>1, <1>6 DEF GiveUp, At, Job
<1>7. ASSUME NEW t \in Tasks, Write(t)
      PROVE  FileInv'
  BY <1>7, WriteKeepsFiles
<1>8. ASSUME NEW t \in Tasks, Replace(t)
      PROVE  FileInv'
  BY <1>8, ReplaceKeepsFiles
<1>9. ASSUME NEW p \in Processes, Restart(p)
      PROVE  FileInv'
  <2>1. \A t \in Tasks : job'[t] = job[t] \/ job'[t].stage = "idle"
    BY <1>9 DEF Restart, Idle, Job
  <2>2. UNCHANGED <<path, tmp, content, raced>>
    BY <1>9 DEF Restart, TmpAtStart
  <2>3. OneCall' /\ RaisesOnlyInRace'
    BY <2>1, <2>2 DEF FileInv, OneCall, RaisesOnlyInRace, InCall
  <2>4. NamesApart' /\ FilesWhole'
    BY <2>2 DEF FileInv, NamesApart, NamesOf, FilesWhole
  <2>5. \A t \in Tasks : Writer(t)' => Writer(t) /\ job'[t] = job[t]
    BY <2>1 DEF Writer
  <2>6. OpenFiles' /\ Undisturbed'
    BY <2>2, <2>5 DEF FileInv, OpenFiles, NamesOf, Undisturbed
  <2> QED
    BY <2>3, <2>4, <2>6 DEF FileInv
<1>10. CASE UNCHANGED <<job, path, tmp, content, raced>>
  BY <1>10 DEF FileInv, OneCall, NamesApart, NamesOf, OpenFiles, Undisturbed, Writer,
               FilesWhole, RaisesOnlyInRace
<1> QED
  BY <1>2, <1>3, <1>4, <1>5, <1>6, <1>7, <1>8, <1>9, <1>10
     DEF Next, TaskStep, Tick, vars

\* The detour by a temporary file works for one writer: no reader finds text cut
\* short, wherever a writer ends, unless two processes met at one key.
THEOREM WholeUnlessRaced == Spec => []FilesWhole
<1>1. LifeInv => Shapes
  BY DEF LifeInv
<1>2. FileInv => FilesWhole
  BY DEF FileInv
<1> QED
  BY <1>1, <1>2, InitCache, NextLife, NextFiles, PTL DEF Spec

\* A fetch that has its response loses it to the cache only where two processes
\* met at one key.
THEOREM RaisesUnlessRaced == Spec => []RaisesOnlyInRace
<1>1. LifeInv => Shapes
  BY DEF LifeInv
<1>2. FileInv => RaisesOnlyInRace
  BY DEF FileInv
<1> QED
  BY <1>1, <1>2, InitCache, NextLife, NextFiles, PTL DEF Spec

-----------------------------------------------------------------------------
(* The memory cache *)

Orders == Bijection(1..Cardinality(Keys), Keys)

LEMMA KeysCounted == Cardinality(Keys) \in Nat /\ Cardinality(Keys) # 0
BY CacheConstants, FS_CardinalityType, FS_EmptySet

\* An order has one place for each key.
LEMMA PlaceInOrder ==
    ASSUME NEW order \in Orders, NEW k \in Keys
    PROVE  /\ DOMAIN order = 1..Cardinality(Keys)
           /\ Place(order, k) \in 1..Cardinality(Keys)
           /\ order[Place(order, k)] = k
           /\ \A i \in 1..Cardinality(Keys) : order[i] = k => i = Place(order, k)
<1>1. /\ DOMAIN order = 1..Cardinality(Keys)
      /\ \E i \in 1..Cardinality(Keys) : order[i] = k
      /\ \A i, j \in 1..Cardinality(Keys) : order[i] = order[j] => i = j
  BY DEF Orders, Bijection, Injection, Surjection, IsInjective
<1> QED BY <1>1 DEF Place

\* OrderedDict.move_to_end: the entry is the newest, and none is lost or doubled.
LEMMA MovedToEnd ==
    ASSUME NEW order \in Orders, NEW k \in Keys
    PROVE  /\ MoveToEnd(order, k) \in Orders
           /\ Place(MoveToEnd(order, k), k) = Cardinality(Keys)
<1> DEFINE N == Cardinality(Keys)
           p == Place(order, k)
           new == MoveToEnd(order, k)
<1>1. N \in Nat /\ N # 0
  BY KeysCounted
<1>2. /\ DOMAIN order = 1..N /\ p \in 1..N /\ order[p] = k
      /\ \A i \in 1..N : order[i] = k => i = p
      /\ \A i \in 1..N : order[i] \in Keys
      /\ \A i, j \in 1..N : order[i] = order[j] => i = j
  BY PlaceInOrder DEF Orders, Bijection, Injection, Surjection, IsInjective
<1>3. new = [i \in 1..N |-> IF i = N THEN k ELSE IF i < p THEN order[i] ELSE order[i + 1]]
  BY <1>1, <1>2 DEF MoveToEnd
<1> HIDE DEF N, p, new
<1>4. new \in [1..N -> Keys]
  BY <1>1, <1>2, <1>3
<1>5. \A i, j \in 1..N : new[i] = new[j] => i = j
  <2> SUFFICES ASSUME NEW i \in 1..N, NEW j \in 1..N, new[i] = new[j] PROVE i = j
    OBVIOUS
  <2> DEFINE from(a) == IF a = N THEN p ELSE IF a < p THEN a ELSE a + 1
  <2>1. \A a \in 1..N : from(a) \in 1..N /\ new[a] = order[from(a)]
    BY <1>1, <1>2, <1>3
  <2>2. from(i) = from(j)
    <3> HIDE DEF from
    <3> QED BY <1>2, <2>1
  <2> QED BY <1>1, <1>2, <2>2
<1>6. \A j \in Keys : \E i \in 1..N : new[i] = j
  <2> SUFFICES ASSUME NEW j \in Keys PROVE \E i \in 1..N : new[i] = j
    OBVIOUS
  <2> DEFINE q == Place(order, j)
  <2>1. q \in 1..N /\ order[q] = j
    BY PlaceInOrder DEF N
  <2> HIDE DEF q
  <2>2. CASE q = p
    BY <1>1, <1>2, <1>3, <2>1, <2>2
  <2>3. CASE q < p
    <3>1. q \in 1..N /\ q # N /\ new[q] = order[q]
      BY <1>1, <1>2, <1>3, <2>1, <2>3
    <3> QED BY <3>1, <2>1
  <2>4. CASE q > p
    <3>1. q - 1 \in 1..N /\ new[q - 1] = order[q]
      BY <1>1, <1>2, <1>3, <2>1, <2>4
    <3> QED BY <3>1, <2>1
  <2> QED BY <1>2, <2>1, <2>2, <2>3, <2>4
<1>7. new \in Orders
  BY <1>4, <1>5, <1>6 DEF Orders, Bijection, Injection, Surjection, IsInjective, N
<1>8. N \in 1..N /\ new[N] = k
  BY <1>1, <1>3
<1> QED BY <1>7, <1>8, PlaceInOrder DEF new, N

\* OrderedDict.move_to_end: the other entries stay in the order they had.
LEMMA OthersInOrder ==
    ASSUME NEW order \in Orders, NEW k \in Keys,
           NEW i \in Keys \ {k}, NEW j \in Keys \ {k}, Place(order, i) < Place(order, j)
    PROVE  Place(MoveToEnd(order, k), i) < Place(MoveToEnd(order, k), j)
<1> DEFINE N == Cardinality(Keys)
           p == Place(order, k)
           new == MoveToEnd(order, k)
           to(a) == IF a < p THEN a ELSE a - 1
<1>1. /\ N \in Nat /\ DOMAIN order = 1..N /\ p \in 1..N /\ order[p] = k
      /\ \A j1 \in Keys : Place(order, j1) \in 1..N /\ order[Place(order, j1)] = j1
  BY PlaceInOrder, KeysCounted
<1>2. new = [a \in 1..N |-> IF a = N THEN k ELSE IF a < p THEN order[a] ELSE order[a + 1]]
  BY <1>1 DEF MoveToEnd
<1>3. new \in Orders
  BY MovedToEnd
<1> HIDE DEF N, p, new
<1>4. ASSUME NEW j1 \in Keys \ {k} PROVE Place(new, j1) = to(Place(order, j1))
  <2> DEFINE q == Place(order, j1)
  <2>1. q \in 1..N /\ order[q] = j1
    BY <1>1
  <2> HIDE DEF q
  <2>2. q # p
    BY <1>1, <2>1
  <2>3. to(q) \in 1..N /\ to(q) # N /\ (to(q) < p => q = to(q)) /\ (~ (to(q) < p) => q = to(q) + 1)
    BY <1>1, <2>1, <2>2
  <2>4. new[to(q)] = j1
    BY <1>2, <2>1, <2>3
  <2> HIDE DEF to
  <2>5. \A a \in 1..N : new[a] = j1 => a = Place(new, j1)
    BY <1>3, PlaceInOrder DEF N
  <2> QED BY <2>3, <2>4, <2>5 DEF q
<1>5. /\ Place(order, i) \in 1..N /\ Place(order, j) \in 1..N
      /\ Place(order, i) # p /\ Place(order, j) # p
  BY <1>1
<1>6. to(Place(order, i)) < to(Place(order, j))
  BY <1>1, <1>5
<1>7. /\ Place(new, i) = to(Place(order, i))
      /\ Place(new, j) = to(Place(order, j))
  BY <1>4
<1> HIDE DEF to
<1> QED BY <1>6, <1>7 DEF new

LEMMA LeastNumber ==
    ASSUME NEW S \in SUBSET Nat, S # {}
    PROVE  \E m \in S : \A n \in S : m <= n
<1> DEFINE R == OpToRel(<, Nat)
<1>1. IsWellFoundedOn(R, Nat)
  BY NatLessThanWellFounded
<1>2. \A a, b \in Nat : a < b => <<a, b>> \in R
  BY DEF OpToRel
<1> HIDE DEF R
<1>3. \E m \in S : \A n \in S : ~ (<<n, m>> \in R)
  BY <1>1, WFMin
<1>4. PICK m \in S : \A n \in S : ~ (<<n, m>> \in R)
  BY <1>3
<1>5. \A n \in S : n \in Nat /\ m \in Nat /\ ~ (n < m)
  BY <1>2, <1>4
<1>6. \A n \in S : m <= n
  BY <1>5
<1> QED BY <1>6

\* TTLCache.set: what is left in memory is within the bound, whatever was there.
LEMMA EvictionBound ==
    ASSUME NEW entries, NEW order \in Orders, now \in Nat
    PROVE  Cardinality({k \in Keys : Live(Evict(entries, order)[k])}) <= MaxEntries
<1> DEFINE left == {k \in Keys : Live(Evict(entries, order)[k])}
<1>1. \A k \in left : /\ k \in Keys /\ Live(entries[k])
                      /\ Cardinality(Newer(entries, order, k)) < MaxEntries
  BY DEF Evict, Live, NoEntry, Entry
<1>2. MaxEntries \in Nat /\ MaxEntries # 0 /\ IsFiniteSet(Keys)
  BY CacheConstants
<1>3. left \subseteq Keys
  OBVIOUS
<1> HIDE DEF left
<1>4. CASE left = {}
  BY <1>2, <1>4, FS_EmptySet DEF left
\* The oldest entry that is left has fewer than MaxEntries newer ones.
<1>5. CASE left # {}
  <2> DEFINE places == {Place(order, k) : k \in left}
  <2>1. places \in SUBSET Nat /\ places # {}
    BY <1>3, <1>5, PlaceInOrder, KeysCounted
  <2>2. PICK m \in places : \A n \in places : m <= n
    BY <2>1, LeastNumber
  <2>3. PICK old \in left : Place(order, old) = m
    OBVIOUS
  <2> DEFINE newer == Newer(entries, order, old)
  <2>4. left \subseteq newer \cup {old}
    <3> SUFFICES ASSUME NEW k \in left, k # old PROVE k \in newer
      OBVIOUS
    <3>1. Place(order, old) <= Place(order, k)
      BY <2>2, <2>3
    <3>2. Place(order, old) # Place(order, k)
      BY <1>3, PlaceInOrder
    <3>3. Place(order, old) \in Nat /\ Place(order, k) \in Nat
      BY <2>1
    <3>4. Place(order, k) > Place(order, old)
      BY <3>1, <3>2, <3>3
    <3>5. k \in Keys /\ Live(entries[k])
      BY <1>1
    <3> QED BY <3>4, <3>5 DEF Newer
  <2>5. newer \subseteq Keys
    BY DEF Newer
  <2>6. IsFiniteSet(newer) /\ Cardinality(newer) \in Nat
    BY <1>2, <2>5, FS_Subset, FS_CardinalityType
  <2>7. /\ IsFiniteSet(newer \cup {old})
        /\ Cardinality(newer \cup {old}) <= Cardinality(newer) + 1
    BY <2>6, FS_AddElement
  <2>8. Cardinality(left) <= Cardinality(newer \cup {old})
    BY <2>4, <2>7, FS_Subset
  <2>9. Cardinality(newer) < MaxEntries
    BY <1>1
  <2>10. Cardinality(left) \in Nat /\ Cardinality(newer \cup {old}) \in Nat
    BY <1>2, <1>3, <2>7, FS_Subset, FS_CardinalityType
  <2> QED BY <1>2, <2>6, <2>7, <2>8, <2>9, <2>10 DEF left
<1> QED BY <1>4, <1>5 DEF left

-----------------------------------------------------------------------------
(* When values were fetched *)

\* No value was fetched later than now, and no clock time is negative.
Dated(e) == e.value \in 0..now /\ e.expires \in Nat
JobDated(j) == j.value \in 0..now /\ j.age \in Nat

AgeInv ==
    /\ now \in Nat
    /\ \A p \in Processes, k \in Keys : Dated(memory[p][k])
    /\ \A i \in Inodes : Dated(content[i])
    /\ \A t \in Tasks : JobDated(job[t])

LEMMA InitAge == Init => AgeInv
<1> SUFFICES ASSUME Init PROVE AgeInv
  OBVIOUS
<1>1. now = 1
  BY DEF Init
<1>2. Dated(NoEntry) /\ Dated(Empty) /\ JobDated(Idle)
  BY <1>1 DEF Dated, JobDated, NoEntry, Entry, Empty, Text, Idle, Job
<1> HIDE DEF Dated, JobDated
<1> QED BY <1>1, <1>2 DEF Init, AgeInv

LEMMA StoreKeepsDates ==
    ASSUME LifeInv, AgeInv, NEW p \in Processes, NEW k \in Keys, NEW value \in 0..now,
           Store(p, k, value, TTL)
    PROVE  \A q \in Processes, j \in Keys : Dated(memory'[q][j])
<1> DEFINE added == [Purged(p) EXCEPT ![k] = Entry(value, now + TTL)]
           order == MoveToEnd(recency[p], k)
<1>1. Dated(NoEntry)
  BY DEF AgeInv, Dated, NoEntry, Entry
<1>2. Dated(Entry(value, now + TTL))
  BY CacheConstants DEF AgeInv, Dated, Entry
<1>3. \A j \in Keys : Dated(Purged(p)[j])
  BY <1>1 DEF AgeInv, Purged
<1>4. \A j \in Keys : Dated(added[j])
  <2>1. added = [j \in Keys |-> IF j = k THEN Entry(value, now + TTL) ELSE Purged(p)[j]]
    BY DEF Purged
  <2> HIDE DEF added
  <2> QED BY <2>1, <1>2, <1>3
<1>5. memory' = [memory EXCEPT ![p] = Evict(added, order)]
  BY DEF Store
<1> HIDE DEF added, order
<1>6. \A j \in Keys : Dated(Evict(added, order)[j])
  BY <1>1, <1>4 DEF Evict
<1>7. memory \in [Processes -> [Keys -> [value : Int, expires : Int]]]
  BY DEF LifeInv, Shapes
<1> QED BY <1>5, <1>6, <1>7 DEF AgeInv

LEMMA NextAge == LifeInv /\ AgeInv /\ [Next]_vars => AgeInv'
<1> SUFFICES ASSUME LifeInv, AgeInv, [Next]_vars PROVE AgeInv'
  OBVIOUS
<1> DEFINE
      MemoryOK == \A p \in Processes, k \in Keys : Dated(memory'[p][k])
      FilesOK == \A i \in Inodes : Dated(content'[i])
      JobsOK == \A t \in Tasks : JobDated(job'[t])
<1>1. MemoryOK /\ FilesOK /\ JobsOK /\ now' = now => AgeInv'
  BY DEF AgeInv, Dated, JobDated
<1>2. (UNCHANGED memory => MemoryOK) /\ (UNCHANGED content => FilesOK)
      /\ (UNCHANGED job => JobsOK)
  BY DEF AgeInv
<1>3. /\ now \in Nat /\ TTL \in Nat
      /\ \A t \in Tasks : /\ ProcessOf[t] \in Processes /\ job[t].key \in Keys
                          /\ job[t].value \in 0..now
      /\ \A p \in Processes, k \in Keys : memory[p][k].value \in 0..now
      /\ \A i \in Inodes : content[i].value \in 0..now /\ content[i].expires \in Nat
      /\ job \in [Tasks -> JobSet]
      /\ memory \in [Processes -> [Keys -> [value : Int, expires : Int]]]
      /\ content \in [Inodes -> [whole : BOOLEAN, value : Int, expires : Int]]
      /\ path \in [Keys -> Inodes \cup {NoFile}]
  BY CacheConstants DEF LifeInv, Shapes, AgeInv, Dated, JobDated, JobSet
<1>4. ASSUME NEW t \in Tasks, NEW j, JobDated(j), Goto(t, j) PROVE JobsOK
  <2> HIDE DEF JobDated
  <2> QED BY <1>3, <1>4 DEF Goto, AgeInv
<1>5. ASSUME NEW t \in Tasks, NEW stage, NEW k, NEW value \in 0..now, NEW file,
             Goto(t, Job(stage, k, value, file))
      PROVE  JobsOK
  <2>1. JobDated(Job(stage, k, value, file))
    BY DEF JobDated, Job
  <2> QED BY <2>1, <1>4, <1>5
<1>6. ASSUME NEW t \in Tasks, NEW k, NEW value \in 0..now, NEW from, Served(t, k, value, from)
      PROVE  JobsOK
  <2> DEFINE j == [stage |-> "served", key |-> k, value |-> 0, file |-> NoFile,
                   age |-> now - value, from |-> from]
  <2>1. JobDated(j) /\ Goto(t, j)
    BY <1>3, <1>6 DEF JobDated, Served
  <2> QED BY <2>1, <1>4
<1>7. 0 \in 0..now /\ now \in 0..now
  BY <1>3
<1>8. ASSUME NEW p \in Processes, memory' = [memory EXCEPT ![p] = [k \in Keys |-> NoEntry]]
      PROVE  MemoryOK
  <2>1. Dated(NoEntry)
    BY <1>3 DEF Dated, NoEntry, Entry
  <2> HIDE DEF Dated
  <2> QED BY <2>1, <1>3, <1>8 DEF AgeInv
<1>9. ASSUME NEW t \in Tasks, NEW k \in Keys, Begin(t, k) PROVE AgeInv'
  <2>1. UNCHANGED <<content, now>> /\ memory' = [memory EXCEPT ![ProcessOf[t]] = Purged(ProcessOf[t])]
    BY <1>9 DEF Begin
  <2>2. \A j \in Keys : Dated(Purged(ProcessOf[t])[j])
    <3>1. Dated(NoEntry)
      BY <1>3 DEF Dated, NoEntry, Entry
    <3> QED BY <3>1, <1>3 DEF AgeInv, Purged
  <2>3. MemoryOK
    BY <2>1, <2>2, <1>3 DEF AgeInv
  <2>4. JobsOK
    BY <1>3, <1>5, <1>6, <1>7, <1>9 DEF Begin
  <2> QED BY <1>1, <1>2, <2>1, <2>3, <2>4
<1>10. ASSUME NEW t \in Tasks, ReadFile(t) PROVE AgeInv'
  <2> DEFINE k == job[t].key
             text == content[path[k]]
  <2>1. UNCHANGED <<content, now>>
    BY <1>10 DEF ReadFile
  <2>2. CASE Readable(k) /\ FileFresh(k)
    <3>1. text.value \in 0..now
      BY <2>2, <1>3 DEF Readable
    <3>2. Served(t, k, text.value, "disk") /\ Store(ProcessOf[t], k, text.value, TTL)
      BY <2>2, <1>10 DEF ReadFile
    <3>3. MemoryOK
      BY <3>1, <3>2, <1>3, StoreKeepsDates
    <3>4. JobsOK
      BY <3>1, <3>2, <1>6
    <3> QED BY <3>3, <3>4, <2>1, <1>1, <1>2
  <2>3. CASE ~(Readable(k) /\ FileFresh(k))
    <3>1. UNCHANGED memory /\ \E stage : Goto(t, Job(stage, k, 0, NoFile))
      BY <2>3, <1>10 DEF ReadFile
    <3> QED BY <3>1, <2>1, <1>1, <1>2, <1>5, <1>7
  <2> QED BY <2>2, <2>3
<1>11. ASSUME NEW t \in Tasks, Respond(t) PROVE AgeInv'
  <2> DEFINE k == job[t].key
  <2>1. UNCHANGED now
    BY <1>11 DEF Respond
  <2>2. CASE TTL = 0
    BY <2>2, <1>1, <1>2, <1>6, <1>7, <1>11 DEF Respond
  <2>3. CASE TTL # 0
    <3>1. Store(ProcessOf[t], k, now, TTL)
      BY <2>3, <1>11 DEF Respond
    <3>2. PICK i \in Inodes : /\ content' = [content EXCEPT ![i] = Empty]
                              /\ Goto(t, Job("writing", k, now, i))
      BY <2>3, <1>11 DEF Respond
    <3>3. MemoryOK
      BY <3>1, <1>3, <1>7, StoreKeepsDates
    <3>4. JobsOK
      BY <3>2, <1>5, <1>7
    <3>5. FilesOK
      <4>1. Dated(Empty)
        BY <1>3 DEF Dated, Empty, Text
      <4> HIDE DEF Dated
      <4> QED BY <4>1, <3>2, <1>3 DEF AgeInv
    <3> QED BY <3>3, <3>4, <3>5, <2>1, <1>1
  <2> QED BY <2>2, <2>3
<1>12. ASSUME NEW t \in Tasks, Write(t) PROVE AgeInv'
  <2> DEFINE j == job[t]
  <2>1. PICK whole \in BOOLEAN :
          content' = [content EXCEPT ![j.file] =
                        [Text(TRUE, j.value, j.value + TTL) EXCEPT !.whole = whole]]
    BY <1>12 DEF Write
  <2> DEFINE new == [Text(TRUE, j.value, j.value + TTL) EXCEPT !.whole = whole]
  <2>2. Dated(new)
    BY <1>3 DEF Dated, Text
  <2>3. FilesOK
    <3> HIDE DEF new, Dated
    <3> QED BY <2>1, <2>2, <1>3 DEF AgeInv, new
  <2>4. JobsOK
    BY <1>12, <1>3, <1>5 DEF Write
  <2> QED BY <1>12, <2>3, <2>4, <1>1, <1>2 DEF Write
<1>13. ASSUME NEW t \in Tasks, Unlink(t) \/ GiveUp(t) \/ Replace(t) PROVE AgeInv'
  <2>1. UNCHANGED <<now, memory, content>>
    BY <1>13 DEF Unlink, GiveUp, Replace
  <2>2. \/ \E stage, k : Goto(t, Job(stage, k, 0, NoFile))
        \/ \E k : Served(t, k, job[t].value, "net")
    BY <1>13 DEF Unlink, GiveUp, Replace
  <2> QED BY <2>1, <2>2, <1>1, <1>2, <1>3, <1>5, <1>6, <1>7
<1>14. ASSUME NEW p \in Processes, Restart(p) PROVE AgeInv'
  <2>1. JobDated(Idle)
    BY <1>3 DEF JobDated, Idle, Job
  <2>2. JobsOK
    <3> HIDE DEF JobDated
    <3> QED BY <2>1, <1>14 DEF Restart, AgeInv
  <2> QED BY <1>14, <2>2, <1>1, <1>2, <1>8 DEF Restart
<1>15. CASE Tick
  <2>1. now' = now + 1 /\ UNCHANGED <<job, memory, content>>
    BY <1>15 DEF Tick
  <2> QED BY <2>1, <1>3 DEF AgeInv, Dated, JobDated
<1>16. CASE UNCHANGED vars
  BY <1>16, <1>1, <1>2 DEF vars
<1> QED
  BY <1>9, <1>10, <1>11, <1>12, <1>13, <1>14, <1>15, <1>16 DEF Next, TaskStep

-----------------------------------------------------------------------------
(* What the bound evicts *)

MemoryInv ==
    /\ recency \in [Processes -> Orders]
    /\ \A p \in Processes : Cardinality(LiveIn(p)) <= MaxEntries

LEMMA InitMemory == Init => MemoryInv
<1> SUFFICES ASSUME Init PROVE MemoryInv
  OBVIOUS
<1>1. \A p \in Processes : LiveIn(p) = {}
  BY DEF Init, LiveIn, Live, NoEntry, Entry
<1>2. \A p \in Processes : Cardinality(LiveIn(p)) <= MaxEntries
  BY <1>1, FS_EmptySet, CacheConstants
<1> QED BY <1>2 DEF Init, MemoryInv, Orders

\* TTLCache.set: the bound holds after it, and the entry stored is there.
LEMMA StoreKeepsMemory ==
    ASSUME LifeInv, AgeInv, MemoryInv, now' = now,
           NEW p \in Processes, NEW k \in Keys, NEW value, NEW ttl, Store(p, k, value, ttl)
    PROVE  MemoryInv' /\ memory'[p][k] = Entry(value, now + ttl)
<1> DEFINE added == [Purged(p) EXCEPT ![k] = Entry(value, now + ttl)]
           order == MoveToEnd(recency[p], k)
<1>1. order \in Orders /\ Place(order, k) = Cardinality(Keys)
  BY MovedToEnd DEF MemoryInv
<1>2. /\ recency' = [recency EXCEPT ![p] = order]
      /\ memory' = [memory EXCEPT ![p] = Evict(added, order)]
  BY DEF Store
<1>3. added[k] = Entry(value, now + ttl)
  BY DEF Purged
<1>4. memory \in [Processes -> [Keys -> [value : Int, expires : Int]]] /\ now \in Nat
  BY DEF LifeInv, Shapes, AgeInv
<1> HIDE DEF added, order
<1>5. Newer(added, order, k) = {}
  <2>1. \A j \in Keys : ~ (Place(order, j) > Place(order, k))
    BY <1>1, PlaceInOrder, KeysCounted
  <2> QED BY <2>1 DEF Newer
<1>6. Evict(added, order)[k] = Entry(value, now + ttl)
  BY <1>3, <1>5, FS_EmptySet, CacheConstants DEF Evict
<1>7. /\ memory'[p] = Evict(added, order)
      /\ \A q \in Processes \ {p} : memory'[q] = memory[q]
  BY <1>2, <1>4
<1>8. recency' \in [Processes -> Orders]
  BY <1>1, <1>2 DEF MemoryInv
<1>9. ASSUME NEW q \in Processes PROVE Cardinality(LiveIn(q)') <= MaxEntries
  <2>1. CASE q = p
    <3>1. LiveIn(q)' = {j \in Keys : Live(Evict(added, order)[j])}
      BY <2>1, <1>7 DEF LiveIn, Live
    <3> QED BY <3>1, <1>1, <1>4, EvictionBound
  <2>2. CASE q # p
    <3>1. LiveIn(q)' = LiveIn(q)
      BY <2>2, <1>7 DEF LiveIn, Live
    <3> QED BY <3>1 DEF MemoryInv
  <2> QED BY <2>1, <2>2
<1> QED BY <1>6, <1>7, <1>8, <1>9 DEF MemoryInv

\* TTLCache.set: the entries that go to make room are the least recently used.
LEMMA StoreEvictsOldest ==
    ASSUME LifeInv, AgeInv, MemoryInv, NEW p \in Processes, NEW k \in Keys,
           NEW value, NEW ttl, Store(p, k, value, ttl)
    PROVE  OldestFirst(p, k)
<1> DEFINE added == [Purged(p) EXCEPT ![k] = Entry(value, now + ttl)]
           order == MoveToEnd(recency[p], k)
<1>1. recency[p] \in Orders /\ order \in Orders
  BY MovedToEnd DEF MemoryInv
<1>2. memory \in [Processes -> [Keys -> [value : Int, expires : Int]]] /\ now \in Nat
  BY DEF LifeInv, Shapes, AgeInv
<1>3. memory'[p] = Evict(added, order)
  BY <1>2 DEF Store
<1>4. SUFFICES ASSUME NEW i \in Keys \ {k}, NEW j \in Keys \ {k},
                      Live(memory[p][i]), Live(memory[p][j]),
                      Place(recency[p], i) < Place(recency[p], j),
                      memory'[p][i] = memory[p][i]
               PROVE  memory'[p][j] = memory[p][j]
  BY DEF OldestFirst
<1>5. added[i] = memory[p][i] /\ added[j] = memory[p][j]
  BY <1>4 DEF Purged
<1>6. Place(order, i) < Place(order, j)
  BY <1>1, <1>4, OthersInOrder
<1> HIDE DEF added, order
<1>7. memory[p][i] # NoEntry
  BY <1>2, <1>4 DEF Live, NoEntry, Entry
<1>8. Cardinality(Newer(added, order, i)) < MaxEntries
  BY <1>3, <1>4, <1>7 DEF Evict
<1>9. \A l \in Keys : Place(order, l) \in Nat
  BY <1>1, PlaceInOrder, KeysCounted
<1>10. /\ Newer(added, order, j) \subseteq Newer(added, order, i)
       /\ Newer(added, order, i) \subseteq Keys
  BY <1>6, <1>9 DEF Newer
<1>11. IsFiniteSet(Newer(added, order, i))
  BY <1>10, CacheConstants, FS_Subset
<1>12. /\ Cardinality(Newer(added, order, j)) <= Cardinality(Newer(added, order, i))
       /\ Cardinality(Newer(added, order, j)) \in Nat
       /\ Cardinality(Newer(added, order, i)) \in Nat
  BY <1>10, <1>11, FS_Subset, FS_CardinalityType
<1>13. Cardinality(Newer(added, order, j)) < MaxEntries
  BY <1>8, <1>12, CacheConstants
<1> QED BY <1>3, <1>5, <1>13 DEF Evict

\* Entries that expire or go only make room.
LEMMA FewerLive ==
    ASSUME MemoryInv, recency' \in [Processes -> Orders],
           \A p \in Processes : LiveIn(p)' \subseteq LiveIn(p)
    PROVE  MemoryInv'
<1> SUFFICES ASSUME NEW p \in Processes PROVE Cardinality(LiveIn(p)') <= MaxEntries
  BY DEF MemoryInv
<1>1. LiveIn(p) \subseteq Keys /\ IsFiniteSet(Keys)
  BY CacheConstants DEF LiveIn
<1>2. IsFiniteSet(LiveIn(p)) /\ Cardinality(LiveIn(p)) \in Nat
  BY <1>1, FS_Subset, FS_CardinalityType
<1>3. /\ Cardinality(LiveIn(p)') <= Cardinality(LiveIn(p))
      /\ Cardinality(LiveIn(p)') \in Nat
  BY <1>2, FS_Subset, FS_CardinalityType
<1>4. Cardinality(LiveIn(p)) <= MaxEntries
  BY DEF MemoryInv
<1> QED BY <1>2, <1>3, <1>4, CacheConstants

LEMMA NextMemory ==
    LifeInv /\ AgeInv /\ MemoryInv /\ [Next]_vars => MemoryInv'
<1> SUFFICES ASSUME LifeInv, AgeInv, MemoryInv, [Next]_vars PROVE MemoryInv'
  OBVIOUS
<1>1. /\ now \in Nat
      /\ \A t \in Tasks : ProcessOf[t] \in Processes /\ job[t].key \in Keys
      /\ memory \in [Processes -> [Keys -> [value : Int, expires : Int]]]
      /\ recency \in [Processes -> Orders]
  BY CacheConstants DEF LifeInv, Shapes, AgeInv, MemoryInv
<1>2. ~Live(NoEntry)
  BY <1>1 DEF Live, NoEntry, Entry
<1>3. UNCHANGED <<now, memory, recency>> => MemoryInv'
  BY <1>1, FewerLive DEF LiveIn, Live
<1>4. ASSUME NEW t \in Tasks, NEW k \in Keys, Begin(t, k) PROVE MemoryInv'
  <2> DEFINE p == ProcessOf[t]
  <2>1. /\ now' = now /\ memory' = [memory EXCEPT ![p] = Purged(p)]
        /\ recency' \in {recency, [recency EXCEPT ![p] = MoveToEnd(@, k)]}
    BY <1>4 DEF Begin
  <2>2. recency' \in [Processes -> Orders]
    <3>1. p \in Processes /\ recency[p] \in Orders
      BY <1>1
    <3>2. MoveToEnd(recency[p], k) \in Orders
      BY <3>1, MovedToEnd
    <3> QED BY <2>1, <3>2, <1>1
  <2>3. \A j \in Keys : Live(Purged(p)[j]) => Live(memory[p][j])
    BY <1>2 DEF Purged
  <2>4. \A q \in Processes : LiveIn(q)' \subseteq LiveIn(q)
    BY <2>1, <2>3, <1>1 DEF LiveIn, Live
  <2> QED BY <2>2, <2>4, FewerLive
<1>5. ASSUME NEW t \in Tasks, ReadFile(t) \/ Respond(t) PROVE MemoryInv'
  <2>1. /\ now' = now
        /\ \/ UNCHANGED <<memory, recency>>
           \/ \E value : Store(ProcessOf[t], job[t].key, value, TTL)
    BY <1>5 DEF ReadFile, Respond
  <2> QED BY <2>1, <1>1, <1>3, StoreKeepsMemory
<1>6. ASSUME NEW t \in Tasks, Unlink(t) \/ GiveUp(t) \/ Write(t) \/ Replace(t)
      PROVE  MemoryInv'
  BY <1>3, <1>6 DEF Unlink, GiveUp, Write, Replace
<1>7. ASSUME NEW p \in Processes, Restart(p) PROVE MemoryInv'
  <2>1. /\ now' = now /\ recency' = recency
        /\ memory' = [memory EXCEPT ![p] = [k \in Keys |-> NoEntry]]
    BY <1>7 DEF Restart
  <2>2. \A q \in Processes : LiveIn(q)' \subseteq LiveIn(q)
    BY <2>1, <1>1, <1>2 DEF LiveIn, Live
  <2> QED BY <2>1, <2>2, <1>1, FewerLive
<1>8. CASE Tick
  <2>1. now' = now + 1 /\ UNCHANGED <<memory, recency>>
    BY <1>8 DEF Tick
  <2>2. \A q \in Processes, k \in Keys : memory[q][k].expires \in Int
    BY <1>1
  <2>3. \A q \in Processes : LiveIn(q)' \subseteq LiveIn(q)
    BY <2>1, <2>2, <1>1 DEF LiveIn, Live
  <2> QED BY <2>1, <2>3, <1>1, FewerLive
<1>9. CASE UNCHANGED vars
  BY <1>3, <1>9 DEF vars
<1> QED BY <1>4, <1>5, <1>6, <1>7, <1>8, <1>9 DEF Next, TaskStep

\* Whatever is stored, from the network or from the disk, is in memory afterwards with
\* its own value and a full lifetime, also when the memory was at its bound; what makes room
\* for it are the entries used least recently.
THEOREM StoredIsKept == Spec => NewestKept
<1>1. ASSUME LifeInv, AgeInv, MemoryInv, Next
      PROVE  \A t \in Tasks : Stored(t) =>
                StoredWhole(t) /\ OthersByAge(t)
  <2> SUFFICES ASSUME NEW u \in Tasks, Stored(u)
               PROVE  StoredWhole(u) /\ OthersByAge(u)
    OBVIOUS
  <2>1. /\ job \in [Tasks -> JobSet] /\ now \in Nat
        /\ content \in [Inodes -> [whole : BOOLEAN, value : Int, expires : Int]]
        /\ path \in [Keys -> Inodes \cup {NoFile}]
        /\ \A t \in Tasks : ProcessOf[t] \in Processes /\ job[t].key \in Keys
    BY <1>1, CacheConstants DEF LifeInv, Shapes, AgeInv, JobSet
  \* Only the task that steps stores something.
  <2>2. ASSUME NEW t \in Tasks, NEW j, Goto(t, j)
        PROVE  u = t /\ job'[u] = j
               /\ (j.stage = "writing" \/ (j.stage = "served" /\ j.from = "disk"))
    BY <2>1, <2>2 DEF Goto, Stored
  <2>3. ASSUME NEW t \in Tasks, NEW stage \in {"reading", "unlinking", "fetching", "gave_up",
                                               "replacing", "raised"},
               NEW k, NEW value, NEW file, Goto(t, Job(stage, k, value, file))
        PROVE  FALSE
    BY <2>2, <2>3 DEF Job
  <2>4. ASSUME NEW t \in Tasks, NEW k, NEW value, NEW from \in {"memory", "net"},
               Served(t, k, value, from)
        PROVE  FALSE
    BY <2>2, <2>4 DEF Served
  <2>5. ASSUME NEW t \in Tasks, NEW k \in Keys, Begin(t, k) PROVE FALSE
    BY <2>3, <2>4, <2>5 DEF Begin
  <2>6. ASSUME NEW t \in Tasks, Unlink(t) \/ GiveUp(t) \/ Write(t) \/ Replace(t) PROVE FALSE
    BY <2>3, <2>4, <2>6 DEF Unlink, GiveUp, Write, Replace
  <2>7. ASSUME NEW t \in Tasks, ReadFile(t)
        PROVE  StoredWhole(u) /\ OthersByAge(u)
    <3> DEFINE k == job[t].key
               text == content[path[k]]
    <3>1. Readable(k) /\ FileFresh(k)
      BY <2>3, <2>7 DEF ReadFile
    <3>2. /\ Served(t, k, text.value, "disk") /\ Store(ProcessOf[t], k, text.value, TTL)
          /\ now' = now
      BY <3>1, <2>7 DEF ReadFile
    <3>3. text.value \in Int
      BY <3>1, <2>1 DEF Readable
    <3>4. memory'[ProcessOf[t]][k] = Entry(text.value, now + TTL)
      BY <1>1, <3>2, <2>1, StoreKeepsMemory
    <3>5. u = t /\ job'[u].key = k /\ job'[u].from = "disk" /\ job'[u].age = now - text.value
      BY <3>2, <2>2 DEF Served
    <3>6. now - (now - text.value) = text.value
      BY <3>3, <2>1
    <3>7. OldestFirst(ProcessOf[t], k)
      BY <1>1, <2>1, <3>2, StoreEvictsOldest
    <3> QED BY <3>4, <3>5, <3>6, <3>7 DEF Entry, StoredWhole, OthersByAge
  <2>8. ASSUME NEW t \in Tasks, Respond(t)
        PROVE  StoredWhole(u) /\ OthersByAge(u)
    <3> DEFINE k == job[t].key
    <3>1. TTL # 0
      BY <2>4, <2>8 DEF Respond
    <3>2. /\ Store(ProcessOf[t], k, now, TTL) /\ now' = now
          /\ \E i : Goto(t, Job("writing", k, now, i))
      BY <3>1, <2>8 DEF Respond
    <3>3. memory'[ProcessOf[t]][k] = Entry(now, now + TTL)
      BY <1>1, <3>2, <2>1, StoreKeepsMemory
    <3>4. u = t /\ job'[u].key = k /\ job'[u].from = "none"
      BY <3>2, <2>2 DEF Job
    <3>5. OldestFirst(ProcessOf[t], k)
      BY <1>1, <2>1, <3>2, StoreEvictsOldest
    <3> QED BY <3>3, <3>4, <3>5 DEF Entry, StoredWhole, OthersByAge
  <2>9. ASSUME NEW p \in Processes, Restart(p) PROVE FALSE
    <3>1. job'[u] \in {Idle, job[u]}
      BY <2>9 DEF Restart
    <3> QED BY <3>1 DEF Stored, Idle, Job
  <2>10. CASE Tick
    BY <2>10 DEF Tick, Stored
  <2> QED BY <1>1, <2>5, <2>6, <2>7, <2>8, <2>9, <2>10 DEF Next, TaskStep
<1>2. LifeInv /\ AgeInv /\ MemoryInv /\ [Next]_vars =>
        [\A t \in Tasks : Stored(t) =>
            StoredWhole(t) /\ OthersByAge(t)]_vars
  BY <1>1
<1>3. Init => LifeInv
  BY InitCache
<1> QED
  BY <1>2, <1>3, InitAge, InitMemory, NextLife, NextAge, NextMemory, PTL DEF Spec, NewestKept

RacedInv == raced \subseteq Keys

LEMMA NextRaced == LifeInv /\ RacedInv /\ [Next]_vars => RacedInv'
<1> SUFFICES ASSUME LifeInv, RacedInv, [Next]_vars PROVE RacedInv'
  OBVIOUS
<1>1. ASSUME NEW t \in Tasks, Respond(t) PROVE raced' \in {raced, raced \cup {job[t].key}}
  BY <1>1 DEF Respond
<1>2. ASSUME NEW t \in Tasks, TaskStep(t) PROVE RacedInv'
  <2>1. job[t].key \in Keys
    BY DEF LifeInv, Shapes
  <2>2. CASE Respond(t)
    BY <1>1, <2>1, <2>2 DEF RacedInv
  <2>3. CASE ~Respond(t)
    BY <1>2, <2>3
       DEF TaskStep, Begin, ReadFile, Unlink, GiveUp, Write, Replace, RacedInv
  <2> QED BY <2>2, <2>3
<1> QED BY <1>2 DEF Next, Restart, Tick, vars, RacedInv

\* A process keeps at most max_entries live entries, whatever expires, is read from the
\* disk or is restarted; no two names share a file; ages and clocks are not negative.
THEOREM TypeCorrect == Spec => []TypeOK
<1>1. LifeInv /\ AgeInv /\ MemoryInv /\ FileInv /\ RacedInv => TypeOK
  <2> SUFFICES ASSUME LifeInv, AgeInv, MemoryInv, FileInv, RacedInv PROVE TypeOK
    OBVIOUS
  <2>1. /\ job \in [Tasks -> JobSet]
        /\ \A t \in Tasks : job[t].value \in Nat /\ job[t].age \in Nat
    BY DEF LifeInv, Shapes, JobSet, AgeInv, JobDated
  <2>2. job \in [Tasks -> [stage : Stages, key : Keys, value : Nat, age : Nat,
                           file : Inodes \cup {NoFile}, from : Origins]]
    BY <2>1 DEF JobSet
  <2>3. \A p \in Processes, k \in Keys : memory[p][k].expires \in Nat
    BY DEF AgeInv, Dated
  <2> QED
    BY <2>2, <2>3
       DEF LifeInv, Shapes, AgeInv, MemoryInv, FileInv, NamesApart, RacedInv, TypeOK
<1>2. Init => LifeInv /\ FileInv
  BY InitCache
<1>3. Init => RacedInv
  BY DEF Init, RacedInv
<1>4. LifeInv => Shapes
  BY DEF LifeInv
<1> QED
  BY <1>1, <1>2, <1>3, <1>4, InitAge, InitMemory, NextLife, NextFiles, NextAge, NextMemory,
     NextRaced, PTL DEF Spec
=============================================================================
