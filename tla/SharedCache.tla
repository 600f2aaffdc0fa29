----------------------------- MODULE SharedCache -----------------------------
(***************************************************************************)
(* The fetch caches of src/skill/retrieval/live (cache.py, clients/http.py *)
(* with the disk cache enabled): each process keeps entries in memory and  *)
(* all of them share JSON files, written to a temporary file that is then  *)
(* renamed.  The name of the temporary file depends on the key only.       *)
(*                                                                         *)
(* Between two awaits a task runs alone in its process, while tasks of     *)
(* other processes run between any two of its system calls.  A value is    *)
(* known by the time at which it was fetched.  One scope is modelled, and  *)
(* the wall clock agrees with the monotonic one.                           *)
(***************************************************************************)
EXTENDS Integers, Sequences, FiniteSets, Functions

CONSTANTS
    Processes,
    Tasks,      \* the fetches that may be under way
    ProcessOf,  \* the process of each task
    Keys,       \* cache keys, one per request
    MaxEntries, \* of a process's memory cache
    TTL,        \* _ttl_seconds of the scope; zero turns writing off
    Inodes,     \* enough for every file and every open one
    NoFile,
    Horizon     \* the bound on the clock

ASSUME CacheConstants ==
    /\ ProcessOf \in [Tasks -> Processes]
    /\ Keys # {} /\ IsFiniteSet(Keys)
    /\ MaxEntries \in Nat \ {0}
    /\ TTL \in Nat
    /\ NoFile \notin Inodes
    /\ Horizon \in Nat

VARIABLES
    now,     \* the clock
    job,     \* the fetch of each task: where it is, its key, value and file
    memory,  \* _MEMORY_CACHES: the entry of each process for each key
    recency, \* its OrderedDict order, oldest first
    path,    \* the file at <digest>.json for each key
    tmp,     \* the file at <digest>.tmp for each key
    content, \* what each inode holds
    raced    \* keys that two processes have been writing at the same time

vars == <<now, job, memory, recency, path, tmp, content, raced>>

Stages == {"idle", "reading", "unlinking", "fetching", "writing", "replacing",
           "served", "gave_up", "raised"}

Origins == {"none", "memory", "disk", "net"}
Ended == {"idle", "served", "gave_up", "raised"}

\* An answer carries its age and where it came from.
Job(stage, key, value, file) ==
    [stage |-> stage, key |-> key, value |-> value, file |-> file, age |-> 0, from |-> "none"]
Idle == Job("idle", CHOOSE k \in Keys : TRUE, 0, NoFile)

Entry(value, expires) == [value |-> value, expires |-> expires]
NoEntry == Entry(0, 0)
Live(entry) == entry.expires > now

\* A file just opened for writing is empty, one written over another writer's
\* text may be torn; neither parses.
Text(whole, value, expires) == [whole |-> whole, value |-> value, expires |-> expires]
Empty == Text(FALSE, 0, 0)

Init ==
    /\ now = 1
    /\ job = [t \in Tasks |-> Idle]
    /\ memory = [p \in Processes |-> [k \in Keys |-> NoEntry]]
    /\ recency \in [Processes -> Bijection(1..Cardinality(Keys), Keys)]
    /\ path = [k \in Keys |-> NoFile]
    /\ tmp = [k \in Keys |-> NoFile]
    /\ content = [i \in Inodes |-> Empty]
    /\ raced = {}

-----------------------------------------------------------------------------
(* The memory cache of a process: TTLCache *)

\* _purge_expired
Purged(p) == [k \in Keys |-> IF Live(memory[p][k]) THEN memory[p][k] ELSE NoEntry]

Place(order, k) == CHOOSE i \in DOMAIN order : order[i] = k

\* move_to_end: those behind k close up.
MoveToEnd(order, k) ==
    [i \in DOMAIN order |-> IF i + 1 \notin DOMAIN order THEN k
                           ELSE IF i < Place(order, k) THEN order[i] ELSE order[i + 1]]

\* The entries that are kept: the last MaxEntries live ones.
Newer(entries, order, k) ==
    {j \in Keys : Live(entries[j]) /\ Place(order, j) > Place(order, k)}

\* Slip: the newest is evicted.
EvictNewest(entries, order) ==
    [k \in Keys |->
        IF Cardinality({j \in Keys : Live(entries[j]) /\ Place(order, j) < Place(order, k)})
           < MaxEntries THEN entries[k] ELSE NoEntry]

\* popitem(last=False) until the bound is met
Evict(entries, order) ==
    [k \in Keys |-> IF Cardinality(Newer(entries, order, k)) < MaxEntries
                      THEN entries[k] ELSE NoEntry]

\* set: the entry lives for ttl from now, and is the newest.
Store(p, k, value, ttl) ==
    /\ recency' = [recency EXCEPT ![p] = MoveToEnd(@, k)]
    /\ memory' = [memory EXCEPT
                    ![p] = Evict([Purged(p) EXCEPT ![k] = Entry(value, now + ttl)],
                                 MoveToEnd(recency[p], k))]

-----------------------------------------------------------------------------
(* A fetch: fetch_text, fetch_text_limited, fetch_json *)

InCall == {"reading", "unlinking", "writing", "replacing"}
\* No other task of the process is between two of its awaits.
MayRun(t) == \A u \in Tasks \ {t} :
                 ProcessOf[u] = ProcessOf[t] => job[u].stage \notin InCall

At(t, stage) == job[t].stage = stage /\ MayRun(t)
Goto(t, j) == job' = [job EXCEPT ![t] = j]

Served(t, k, value, from) ==
    Goto(t, [stage |-> "served", key |-> k, value |-> 0, file |-> NoFile,
             age |-> now - value, from |-> from])

\* The memory cache answers, or the file has to be read.
Begin(t, k) ==
    LET p == ProcessOf[t] IN
    /\ At(t, job[t].stage)
    /\ job[t].stage \in Ended
    /\ memory' = [memory EXCEPT ![p] = Purged(p)]
    /\ IF Live(memory[p][k])
         THEN /\ Served(t, k, memory[p][k].value, "memory")
              /\ recency' = [recency EXCEPT ![p] = MoveToEnd(@, k)]
         ELSE /\ Goto(t, Job("reading", k, 0, NoFile))
              /\ UNCHANGED recency
    /\ UNCHANGED <<now, path, tmp, content, raced>>

Readable(k) == path[k] # NoFile /\ content[path[k]].whole

\* Slip: what the file says of its lifetime is not looked at.
FreshAlways(k) == TRUE

FileFresh(k) == content[path[k]].expires > now

\* The file answers and the entry goes to memory; or it is of no use, or has
\* expired and is to be removed.
ReadFile(t) ==
    LET k == job[t].key  text == content[path[k]] IN
    /\ At(t, "reading")
    /\ IF ~Readable(k) THEN /\ Goto(t, Job("fetching", k, 0, NoFile))
                            /\ UNCHANGED <<memory, recency>>
       ELSE IF FileFresh(k) THEN /\ Served(t, k, text.value, "disk")
                                 /\ Store(ProcessOf[t], k, text.value, TTL)
       ELSE /\ Goto(t, Job("unlinking", k, 0, NoFile))
            /\ UNCHANGED <<memory, recency>>
    /\ UNCHANGED <<now, path, tmp, content, raced>>

\* Whatever file is there by now is removed.
Unlink(t) ==
    /\ At(t, "unlinking")
    /\ path' = [path EXCEPT ![job[t].key] = NoFile]
    /\ Goto(t, Job("fetching", job[t].key, 0, NoFile))
    /\ UNCHANGED <<now, memory, recency, tmp, content, raced>>

Writing(u, k) == job[u].stage \in {"writing", "replacing"} /\ job[u].key = k
Rivals(t, k) == {u \in Tasks : ProcessOf[u] # ProcessOf[t] /\ Writing(u, k)}

\* Inodes no name and no open file refers to.
Free(i) == /\ \A k \in Keys : path[k] # i /\ tmp[k] # i
           /\ \A u \in Tasks : job[u].file # i
FreeInode == CHOOSE i \in Inodes : Free(i)

\* Slip: the entry's own file is opened for writing.
OpenInPlace(k) == path[k]

\* The file tmp_path.write_text opens, and truncates, if there is one.
Opened(k) == tmp[k]

\* The response has arrived: it goes to memory, and the file is opened.
Respond(t) ==
    LET k == job[t].key IN
    /\ At(t, "fetching")
    /\ IF TTL = 0
         THEN /\ Served(t, k, now, "net")
              /\ UNCHANGED <<memory, recency, path, tmp, content, raced>>
         ELSE /\ Store(ProcessOf[t], k, now, TTL)
              /\ \E i \in Inodes :
                    /\ Opened(k) = NoFile => Free(i)
                    /\ i = IF Opened(k) = NoFile THEN FreeInode ELSE Opened(k)
                    /\ tmp' = [tmp EXCEPT ![k] = i]
                    /\ content' = [content EXCEPT ![i] = Empty]
                    /\ Goto(t, Job("writing", k, now, i))
              /\ raced' = IF Rivals(t, k) = {} THEN raced ELSE raced \cup {k}
              /\ UNCHANGED path
    /\ UNCHANGED now

\* The request fails or its timeout strikes.
GiveUp(t) ==
    /\ At(t, "fetching")
    /\ Goto(t, Job("gave_up", job[t].key, 0, NoFile))
    /\ UNCHANGED <<now, memory, recency, path, tmp, content, raced>>

\* The text goes to the open file, wherever that is by now; over the text of
\* another writer it may be shorter.
Write(t) ==
    LET j == job[t]  mine == Text(TRUE, j.value, j.value + TTL) IN
    /\ At(t, "writing")
    /\ \E whole \in BOOLEAN :
          /\ content[j.file] = Empty => whole
          /\ content' = [content EXCEPT ![j.file] = [mine EXCEPT !.whole = whole]]
    /\ Goto(t, Job("replacing", j.key, j.value, j.file))
    /\ UNCHANGED <<now, memory, recency, path, tmp, raced>>

\* tmp_path.replace(path) renames what the name stands for by now, and raises
\* when another process has renamed it away.
Replace(t) ==
    LET k == job[t].key IN
    /\ At(t, "replacing")
    /\ IF tmp[k] = NoFile
         THEN /\ Goto(t, Job("raised", k, 0, NoFile))
              /\ UNCHANGED <<path, tmp>>
         ELSE /\ path' = [path EXCEPT ![k] = tmp[k]]
              /\ tmp' = [tmp EXCEPT ![k] = NoFile]
              /\ Served(t, k, job[t].value, "net")
    /\ UNCHANGED <<now, memory, recency, content, raced>>

\* Slip: a process that starts clears the temporary files it finds.
TmpCleared == [k \in Keys |-> NoFile]

TmpAtStart == tmp

\* A process ends, at any point, and a new one starts: the files stay.
Restart(p) ==
    /\ job' = [t \in Tasks |-> IF ProcessOf[t] = p THEN Idle ELSE job[t]]
    /\ memory' = [memory EXCEPT ![p] = [k \in Keys |-> NoEntry]]
    /\ tmp' = TmpAtStart
    /\ UNCHANGED <<now, recency, path, content, raced>>

Tick == now < Horizon /\ now' = now + 1
        /\ UNCHANGED <<job, memory, recency, path, tmp, content, raced>>

TaskStep(t) ==
    \/ \E k \in Keys : Begin(t, k)
    \/ ReadFile(t) \/ Unlink(t) \/ Respond(t) \/ GiveUp(t)
    \/ Write(t) \/ Replace(t)

Next == (\E t \in Tasks : TaskStep(t)) \/ (\E p \in Processes : Restart(p)) \/ Tick

Spec == Init /\ [][Next]_vars

-----------------------------------------------------------------------------
(* What the caches promise *)

NamesOf(k) == {path[k], tmp[k]} \ {NoFile}
LiveIn(p) == {k \in Keys : Live(memory[p][k])}

\* No file has two names, and a process keeps its memory within the bound.
TypeOK ==
    /\ now \in Nat
    /\ job \in [Tasks -> [stage : Stages, key : Keys, value : Nat, age : Nat,
                          file : Inodes \cup {NoFile}, from : Origins]]
    /\ \A p \in Processes : /\ \A k \in Keys : memory[p][k].expires \in Nat
                            /\ Cardinality(LiveIn(p)) <= MaxEntries
    /\ path \in [Keys -> Inodes \cup {NoFile}]
    /\ tmp \in [Keys -> Inodes \cup {NoFile}]
    /\ \A k \in Keys : tmp[k] # NoFile => tmp[k] # path[k]
    /\ \A j, k \in Keys : j # k => NamesOf(j) \cap NamesOf(k) = {}
    /\ raced \subseteq Keys

\* A file serves its value for one lifetime; memory takes a value from the file
\* with a lifetime of its own, so a cached value is served for less than two.
ServedWithinTwoLifetimes ==
    \A t \in Tasks : job[t].stage = "served" =>
        /\ job[t].from = "disk" => job[t].age < TTL
        /\ job[t].from = "memory" => job[t].age < 2 * TTL

\* The detour by the temporary file hides half-written text from readers: a file
\* that does not parse is left only where two processes wrote the same key.
FilesWhole == \A k \in Keys : path[k] # NoFile /\ ~content[path[k]].whole => k \in raced

\* A response that has arrived is lost only there, too, whatever restarts.
RaisesOnlyInRace == \A t \in Tasks : job[t].stage = "raised" => job[t].key \in raced

\* The disk cache is "shared across fresh processes" (cache.py): no process spoils
\* another one's fetch by writing the same key.
SharedSafely == \A t \in Tasks : job[t].stage # "raised"

Stored(t) ==
    /\ job'[t] # job[t]
    /\ job'[t].stage = "writing" \/ (job'[t].stage = "served" /\ job'[t].from = "disk")

\* The entry is there with its own value and a full lifetime.
StoredWhole(t) ==
    LET entry == memory'[ProcessOf[t]][job'[t].key] IN
    /\ entry.expires = now + TTL
    /\ entry.value = IF job'[t].from = "disk" THEN now - job'[t].age ELSE now

\* Where a live entry went, so did those used less recently.
OldestFirst(p, k) ==
    \A older, newer \in Keys \ {k} :
        /\ Live(memory[p][older]) /\ Live(memory[p][newer])
        /\ Place(recency[p], older) < Place(recency[p], newer)
        /\ memory'[p][newer] # memory[p][newer]
        => memory'[p][older] # memory[p][older]
OthersByAge(t) == OldestFirst(ProcessOf[t], job'[t].key)

\* The bound on a process's memory costs it other entries, never the one just
\* stored, and of the others it costs the least recently used ones, whatever
\* expired or was asked for again in between.
NewestKept ==
    [][\A t \in Tasks : Stored(t) => StoredWhole(t) /\ OthersByAge(t)]_vars
=============================================================================
