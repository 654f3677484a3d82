----------------------------- MODULE MediaCache -----------------------------
(***************************************************************************)
(* The thumbnails and waveforms of the timeline (src/src/desktop/          *)
(* media_cache.cpp).  The window's thread owns the entries, the queue and  *)
(* two job slots; a job runs generate() on a thread of its own, which      *)
(* supervises one decoder process (ProcessRun).  Files change at any time, *)
(* and the project changes under the jobs.                                 *)
(***************************************************************************)
EXTENDS ProcessRun, Sequences, FiniteSets, SequencesExt, FiniteSetsExt

CONSTANTS
  Keys,            \* what may be asked for: asset, stream, kind and source time
  AssetOf,         \* the asset of a key
  Projects,        \* the media of the projects shown, in turn: the file of each asset
  Files,
  Jobs,            \* the slots of jobs_, numbered
  KeyBytes,        \* the size of a key's result
  ErrorBytes,      \* and of an error
  QueueLimit, EntryLimit, ByteLimit,
  Offline,         \* the files that cannot be reached
  MaxChanges,      \* bound: how often a file is written
  Watched,         \* the key RequestAnswered follows: any
  None

ASSUME CacheAssumption ==
  /\ Jobs \subseteq Nat /\ IsFiniteSet(Jobs) /\ Offline \subseteq Files
  /\ Len(Projects) \in Nat \ {0} /\ DOMAIN Projects = 1..Len(Projects)
  /\ \A i \in DOMAIN Projects : \A asset \in DOMAIN Projects[i] : Projects[i][asset] \in Files
  /\ KeyBytes \in [Keys -> Nat] /\ ErrorBytes \in Nat /\ MaxChanges \in Nat
  /\ QueueLimit \in Nat /\ EntryLimit \in Nat \ {0} /\ ByteLimit \in Nat

VARIABLES
  assets,      \* assets_: the file of each asset of the project
  generation,  \* generation_
  entries,     \* entries_: the data kept of a key
  lru,         \* their keys by last use, the least recent first (Entry::used)
  bytes,       \* bytes_
  queue,       \* queue_: the waiting requests, each by its key
  pending,     \* pending_
  jobs,        \* jobs_: of a slot, the request, and where its thread is
  disk,        \* of a file, how often it was written (its size and time tell)
  closed       \* ~MediaCache() has run

cache == <<assets, generation, entries, lru, bytes, queue, pending>>
vars  == <<cache, jobs, disk, closed>>
-----------------------------------------------------------------------------
(* Data: what is shown, the file versions it was made of, and when checked. *)

Version == [file: Files, version: 0..MaxChanges]

\* fresh: checked less than a second ago, or less than five if an error.
Data == [signature: Version \cup {None}, content: SUBSET Version, fresh: BOOLEAN]

Failed == [signature |-> None, content |-> {}, fresh |-> TRUE]

IsError(data) == data.signature = None

\* CacheData::bytes()
Bytes(key, data) == IF IsError(data) THEN ErrorBytes ELSE KeyBytes[key]

On(file) == [file |-> file, version |-> disk[file]]

Idle == [phase |-> "idle", key |-> None, file |-> None, generation |-> 0, previous |-> Failed,
         stop |-> FALSE, identity |-> None, seen |-> {}, run |-> None, data |-> Failed]

Active(job) == job.phase # "idle"
Busy(job)   == job.phase \notin {"idle", "returned"}
-----------------------------------------------------------------------------
(* retain() and start(). *)

\* What is kept, as one value: the entries, their order of use and their bytes.
Kept == [entries |-> entries, lru |-> lru, bytes |-> bytes]

\* The bytes of some entries, counted.
BytesIn(table, keys) ==
  Cardinality(UNION {{key} \X (1..Bytes(key, table[key])) : key \in keys})

\* The order of use without a key that is in it.
Dropped(order, key) == RemoveAt(order, CHOOSE i \in DOMAIN order : order[i] = key)

Without(kept, key) ==
  [entries |-> [k \in DOMAIN kept.entries \ {key} |-> kept.entries[k]],
   lru     |-> Dropped(kept.lru, key),
   bytes   |-> kept.bytes - Bytes(key, kept.entries[key])]

\* The least recently used entries, n of them.
Oldest(kept, n) == Range(SubSeq(kept.lru, 1, n))

\* Room is made, or nothing is left to evict.
MakesRoom(kept, size, n) ==
  \/ n = Len(kept.lru)
  \/ /\ Len(kept.lru) - n < EntryLimit
     /\ kept.bytes - BytesIn(kept.entries, Oldest(kept, n)) + size <= ByteLimit

\* Entries are evicted, the least recently used first, until there is room.
Evicted(kept, size) ==
  LET n == CHOOSE n \in 0..Len(kept.lru) :
             MakesRoom(kept, size, n) /\ \A m \in 0..(n - 1) : ~MakesRoom(kept, size, m)
  IN [entries |-> [k \in DOMAIN kept.entries \ Oldest(kept, n) |-> kept.entries[k]],
      lru     |-> SubSeq(kept.lru, n + 1, Len(kept.lru)),
      bytes   |-> kept.bytes - BytesIn(kept.entries, Oldest(kept, n))]

Retain(key, data) ==
  LET before == IF key \in DOMAIN entries THEN Without(Kept, key) ELSE Kept
      size   == Bytes(key, data)
      room   == Evicted(before, size)
  IN IF size > ByteLimit THEN before
     ELSE [entries |-> [k \in DOMAIN room.entries \cup {key} |->
                          IF k = key THEN data ELSE room.entries[k]],
           lru     |-> Append(room.lru, key),
           bytes   |-> room.bytes + size]

Keeps(kept) == entries' = kept.entries /\ lru' = kept.lru /\ bytes' = kept.bytes

\* What start() works on: the slots, the queue and the pending keys.
Work(slots, waiting, expected) == [jobs |-> slots, queue |-> waiting, pending |-> expected]

Launched(key, table) ==
  [Idle EXCEPT !.phase = "identify", !.key = key, !.file = assets[AssetOf[key]],
               !.generation = generation,
               !.previous = IF key \in DOMAIN table THEN table[key] ELSE Failed]

\* start(): the free slots in turn take the oldest requests, one each; a request whose asset
\* is gone is dropped instead.
Started(work, table) ==
  LET free       == {slot \in Jobs : ~Active(work.jobs[slot])}
      turn(slot) == Cardinality({s \in free : s <= slot})
      taken      == Min({Cardinality(free), Len(work.queue)})
      here(key)  == AssetOf[key] \in DOMAIN assets
      takes(slot) == slot \in free /\ turn(slot) <= taken /\ here(work.queue[turn(slot)])
  IN Work([slot \in Jobs |-> IF takes(slot) THEN Launched(work.queue[turn(slot)], table)
                             ELSE work.jobs[slot]],
          SubSeq(work.queue, taken + 1, Len(work.queue)),
          work.pending \ {key \in Range(SubSeq(work.queue, 1, taken)) : ~here(key)})

Proceeds(work) == jobs' = work.jobs /\ queue' = work.queue /\ pending' = work.pending
-----------------------------------------------------------------------------
Init ==
  /\ assets = Projects[1] /\ generation = 1
  /\ entries = <<>> /\ lru = <<>> /\ bytes = 0
  /\ queue = <<>> /\ pending = {}
  /\ jobs = [slot \in Jobs |-> Idle]
  /\ disk = [file \in Files |-> 0]
  /\ closed = FALSE

(* The window's thread: refresh(), painting, the finished() signal, the end. *)

StopAll == [slot \in Jobs |-> [jobs[slot] EXCEPT !.stop = @ \/ Busy(jobs[slot])]]

\* refresh(): a project with other media drops all that was made, asked for or begun.
Synchronize ==
  /\ ~closed /\ generation < Len(Projects)
  /\ generation' = generation + 1 /\ assets' = Projects[generation']
  /\ jobs' = StopAll
  /\ Keeps([entries |-> <<>>, lru |-> <<>>, bytes |-> 0])
  /\ queue' = <<>> /\ pending' = {}
  /\ UNCHANGED <<disk, closed>>

Wanted(key) ==
  /\ key \notin DOMAIN entries \/ ~entries[key].fresh
  /\ key \notin pending
  /\ Len(queue) < QueueLimit

\* Painting a clip asks for the keys it shows; their assets are those of the project.
Request(key) ==
  /\ ~closed /\ AssetOf[key] \in DOMAIN assets
  /\ lru' = IF key \in DOMAIN entries
            THEN Append(Dropped(lru, key), key) ELSE lru
  /\ IF Wanted(key)
     THEN Proceeds(Started(Work(jobs, Append(queue, key), pending \cup {key}), entries))
     ELSE UNCHANGED <<jobs, queue, pending>>
  /\ UNCHANGED <<assets, generation, entries, bytes, disk, closed>>

\* Mutant of Current: any result that arrives is taken.
AnyResult(job) == TRUE

\* The result belongs to the media shown now.
Current(job) == job.generation = generation

\* Mutant of Resumed: a slot takes up new work only when something is asked for.
ResumedOnRequest(work, table) == work

\* The end of finished(): the free slots take up what waits.
Resumed(work, table) == Started(work, table)

\* finished(): the slot is free again; a current result is kept, and the queue goes on.
Finished(slot) ==
  LET job  == jobs[slot]
      kept == IF Current(job) THEN Retain(job.key, job.data) ELSE Kept
      left == IF Current(job) THEN pending \ {job.key} ELSE pending
  IN /\ ~closed /\ job.phase = "returned"
     /\ Keeps(kept)
     /\ Proceeds(Resumed(Work([jobs EXCEPT ![slot] = Idle], queue, left), kept.entries))
     /\ UNCHANGED <<assets, generation, disk, closed>>

\* ~MediaCache(): nothing waits for the threads, which are told to stop.
Close ==
  /\ ~closed /\ closed' = TRUE
  /\ jobs' = StopAll
  /\ Keeps([entries |-> <<>>, lru |-> <<>>, bytes |-> 0])
  /\ queue' = <<>> /\ pending' = {}
  /\ UNCHANGED <<assets, generation, disk>>
-----------------------------------------------------------------------------
(* generate(), on the thread of a slot. *)

Steps(slot, job) == jobs' = [jobs EXCEPT ![slot] = job] /\ UNCHANGED <<cache, disk, closed>>

Returned(job, data) ==
  [Idle EXCEPT !.phase = "returned", !.key = job.key, !.generation = job.generation,
               !.data = data]

\* signature(): the file must be there; what was made of this very version serves again.
Identify(slot) ==
  LET job == jobs[slot]
      now == On(job.file)
  IN /\ job.phase = "identify"
     /\ Steps(slot,
          IF job.file \in Offline THEN Returned(job, Failed)
          ELSE IF ~IsError(job.previous) /\ job.previous.signature = now
          THEN Returned(job, [job.previous EXCEPT !.fresh = TRUE])
          ELSE [job EXCEPT !.phase = "spawn", !.identity = now, !.previous = Failed])

\* The stop flag, the request file, and the child; any of them may fail.
Spawn(slot) ==
  LET job == jobs[slot]
  IN /\ job.phase = "spawn"
     /\ \/ Steps(slot, Returned(job, Failed))
        \/ /\ ~job.stop
           /\ \E run \in Spawned :
                Steps(slot, [job EXCEPT !.phase = "running", !.run = run, !.seen = {On(job.file)}])

RunStep(slot, run) == Steps(slot, [jobs[slot] EXCEPT !.run = run])

ChildStep(slot) ==
  /\ jobs[slot].phase = "running"
  /\ \E run \in ChildSteps(jobs[slot].run) : RunStep(slot, run)

\* A response cut short does not parse.
Parses(outcome, response) == outcome.output = response

Supervise(slot) ==
  LET job     == jobs[slot]
      outcome == Round(job.run, job.stop)
  IN /\ job.phase = "running" /\ Stirs(job.run, job.stop)
     /\ CASE outcome.result = "none"  -> RunStep(slot, outcome.run)
          [] outcome.result = "error" -> Steps(slot, Returned(job, Failed))
          [] OTHER -> Steps(slot, IF Parses(outcome, job.run.response)
                                  THEN [job EXCEPT !.phase = "confirm", !.run = None]
                                  ELSE Returned(job, Failed))

\* "probe timed out": the next check() after the deadline throws.
Deadline(slot) ==
  /\ jobs[slot].phase = "running"
  /\ Steps(slot, Returned(jobs[slot], Failed))

SameFile(job) == job.file \notin Offline /\ On(job.file) = job.identity

\* What the child wrote shows the source only if that is still the same.
Confirm(slot) ==
  LET job == jobs[slot]
  IN /\ job.phase = "confirm"
     /\ Steps(slot, Returned(job,
          IF SameFile(job)
          THEN [signature |-> job.identity, content |-> job.seen, fresh |-> TRUE]
          ELSE Failed))
-----------------------------------------------------------------------------
(* The world. *)

\* A child that is reading may see both versions.
Writes(file) ==
  /\ disk[file] < MaxChanges
  /\ disk' = [disk EXCEPT ![file] = @ + 1]
  /\ jobs' = [slot \in Jobs |->
                IF jobs[slot].file = file /\ jobs[slot].phase = "running"
                   /\ jobs[slot].run.child = "alive"
                THEN [jobs[slot] EXCEPT !.seen = @ \cup {On(file)'}] ELSE jobs[slot]]
  /\ UNCHANGED <<cache, closed>>

\* Time passes for what was checked.
Ages(key) ==
  /\ ~closed /\ key \in DOMAIN entries /\ entries[key].fresh
  /\ entries' = [entries EXCEPT ![key].fresh = FALSE]
  /\ UNCHANGED <<assets, generation, lru, bytes, queue, pending, jobs, disk, closed>>

Thread(slot) ==
  Identify(slot) \/ Spawn(slot) \/ Supervise(slot) \/ Deadline(slot) \/ Confirm(slot)

Next ==
  \/ Synchronize \/ Close
  \/ \E key \in Keys : Request(key) \/ Ages(key)
  \/ \E slot \in Jobs : Thread(slot) \/ ChildStep(slot) \/ Finished(slot)
  \/ \E file \in Files \ Offline : Writes(file)

Spec == Init /\ [][Next]_vars

\* A thread goes on, a deadline comes and the event loop delivers finished(); the child need do
\* nothing, and nobody must ask, close or leave the project alone.
FairSpec == Spec /\ \A slot \in Jobs : WF_vars(Thread(slot) \/ Finished(slot))
-----------------------------------------------------------------------------
Job == [phase: {"idle", "identify", "spawn", "running", "confirm", "returned"},
        key: Keys \cup {None}, file: Files \cup {None}, generation: 0..Len(Projects), previous: Data, stop: BOOLEAN,
        identity: Version \cup {None}, seen: SUBSET Version, run: Run \cup {None}, data: Data]

TypeOK ==
  /\ generation \in DOMAIN Projects /\ assets = Projects[generation]
  /\ DOMAIN entries \subseteq Keys /\ \A key \in DOMAIN entries : entries[key] \in Data
  /\ lru \in Seq(Keys) /\ queue \in Seq(Keys) /\ pending \subseteq Keys
  /\ jobs \in [Jobs -> Job]
  /\ disk \in [Files -> 0..MaxChanges] /\ closed \in BOOLEAN

\* A picture that is shown is whole, was made of one version of one file, and that file is
\* the one the project's asset has now: never of an earlier link, nor of two versions.
EntriesGenuine ==
  \A key \in DOMAIN entries :
    IsError(entries[key]) \/ /\ entries[key].content = {entries[key].signature}
                             /\ entries[key].signature.file = assets[AssetOf[key]]

\* The limits hold, and what is accounted is what is kept.
EntriesAccounted ==
  /\ Range(lru) = DOMAIN entries /\ IsInjective(lru)
  /\ bytes = BytesIn(entries, DOMAIN entries)
  /\ bytes <= ByteLimit /\ Len(lru) <= EntryLimit /\ Len(queue) <= QueueLimit

\* A key is pending exactly while it waits, or is worked on for the media shown now; it is
\* so in one place only, and no slot rests while a request waits.
PendingIsWork ==
  LET live == {slot \in Jobs : Active(jobs[slot]) /\ Current(jobs[slot])}
  IN closed \/
     /\ pending = Range(queue) \cup {jobs[slot].key : slot \in live}
     /\ Cardinality(pending) = Len(queue) + Cardinality(live)
     /\ queue # <<>> => \A slot \in Jobs : Active(jobs[slot])

\* What the timeline shows can be relied on in every interleaving of painting, editing, jobs
\* that end late, files that change and the deadline of a child: the parts above together.
CacheCoherent == TypeOK /\ EntriesGenuine /\ EntriesAccounted /\ PendingIsWork

\* What is asked for is answered, or dropped with its project, though children hang, files
\* change, other requests keep coming and the slots are held by jobs of an earlier project.
RequestAnswered == Watched \in pending ~> (Watched \notin pending \/ closed)
=============================================================================
