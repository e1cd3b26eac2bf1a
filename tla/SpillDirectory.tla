--------------------------- MODULE SpillDirectory ---------------------------
(***************************************************************************)
(* One spill directory, file by file: a DiskSpillQueue that writes to it,  *)
(* recovers from it and clears it, the crash of its process, and the queue *)
(* whose constructor takes the directory over.  DiskSpillQueue abstracts   *)
(* this: there a write, a read and a clear() are one step each.            *)
(*                                                                         *)
(* A file is its number; what is in it is the id of the message.  Numbers  *)
(* have eight digits (up to 99,999,999 spills), so that sorting the names  *)
(* is sorting the numbers.                                                 *)
(***************************************************************************)
EXTENDS DeliveryPolicy, SequencesExt

CONSTANTS MaxCrashes,   \* bound on the crashes of a behaviour
          MaxReads,     \* bound on the reads of a file that stays
          MaxStrays     \* bound on the failures of unlink, and of readdir in clear()

\* The directory is the one of a client and a topic.
ASSUME DirectoryAssumption ==
  /\ {MaxCrashes, MaxReads, MaxStrays} \subseteq Nat
  /\ \E l \in Lanes : Lanes = {l}

VARIABLES up,        \* whether a queue is open on the directory
          nextSeq, count,
          writes,    \* number -> [id, stage] of the writeEntry calls under way
          flush,     \* the numbers of the writes in flushPromises
          tmp,       \* number -> id of the .json.tmp files
          json,      \* number -> id of the .json files
          stage,     \* of the recover() call
          waitFor,   \* the writes it waits for
          listing,   \* the files it has still to read
          taken,     \* the ids it has read
          clear,     \* clear() call -> [stage, waitFor, names]
          left,      \* whether the client has gone
          nextId,    \* the next message
          reads,     \* id -> times its file was read (history)
          kept,      \* id -> times its file stayed after that (history)
          lost,      \* ids whose write failed (history)
          strays,    \* files that clear() or recover() left behind (history)
          crashes    \* of the process (history)

fileVars    == <<tmp, json>>
queueVars   == <<nextSeq, count, writes, flush>>
recoverVars == <<stage, waitFor, listing, taken>>
clearVars   == <<clear, left>>
vars == <<policy, up, fileVars, queueVars, recoverVars, clearVars,
          nextId, reads, kept, lost, strays, crashes>>

Plus(files, s, x) == [n \in DOMAIN files \cup {s} |-> IF n = s THEN x ELSE files[n]]

Minus(files, s) == [n \in DOMAIN files \ {s} |-> files[n]]

-----------------------------------------------------------------------------
(* spill() and writeEntry().                                               *)

Spill ==
  /\ up /\ ~left
  /\ nextId \in Ids
  /\ nextId' = nextId + 1
  /\ nextSeq' = nextSeq + 1
  /\ count' = count + 1
  /\ writes' = Plus(writes, nextSeq, [id |-> nextId, stage |-> "writing"])
  /\ flush' = flush \cup {nextSeq}
  /\ UNCHANGED <<policy, up, fileVars, recoverVars, clearVars, reads, kept, lost,
                 strays, crashes>>

WriteTmp(s) ==
  /\ s \in DOMAIN writes /\ writes[s].stage = "writing"
  /\ tmp' = Plus(tmp, s, writes[s].id)
  /\ writes' = [writes EXCEPT ![s].stage = "renaming"]
  /\ UNCHANGED <<policy, up, json, nextSeq, count, flush, recoverVars, clearVars,
                 nextId, reads, kept, lost, strays, crashes>>

\* The promise of a write settles and leaves flushPromises.
Settled(s) ==
  /\ writes' = Minus(writes, s)
  /\ flush' = flush \ {s}
  /\ UNCHANGED <<policy, up, nextSeq, recoverVars, clearVars, nextId, reads, kept,
                 strays, crashes>>

Rename(s) ==
  /\ s \in DOMAIN writes /\ writes[s].stage = "renaming"
  /\ s \in DOMAIN tmp
  /\ tmp' = Minus(tmp, s)
  /\ json' = Plus(json, s, tmp[s])
  /\ Settled(s)
  /\ UNCHANGED <<count, lost>>

\* Mutant: the catch clause leaves the counter alone.
WriteFailsUncounted(s) ==
  /\ s \in DOMAIN writes
  /\ "write" \in IoFaults \/ (writes[s].stage = "renaming" /\ s \notin DOMAIN tmp)
  /\ tmp' = tmp
  /\ lost' = lost \cup {writes[s].id}
  /\ Settled(s)
  /\ UNCHANGED <<json, count>>

\* writeFile fails, with or without a part of the file on disk; or rename
\* does, in particular when clear() has unlinked the temporary file.
WriteFails(s) ==
  /\ s \in DOMAIN writes
  /\ "write" \in IoFaults \/ (writes[s].stage = "renaming" /\ s \notin DOMAIN tmp)
  /\ \/ tmp' = tmp
     \/ writes[s].stage = "writing" /\ tmp' = Plus(tmp, s, writes[s].id)
  /\ count' = Max({0, count - 1})
  /\ lost' = lost \cup {writes[s].id}
  /\ Settled(s)
  /\ UNCHANGED json

-----------------------------------------------------------------------------
(* The end of the process, and the constructor.                            *)

Crash ==
  /\ up
  /\ crashes < MaxCrashes
  /\ crashes' = crashes + 1
  /\ up' = FALSE
  /\ nextSeq' = 0 /\ count' = 0 /\ writes' = <<>> /\ flush' = {}
  /\ stage' = "none" /\ waitFor' = {} /\ listing' = <<>> /\ taken' = <<>>
  /\ clear' = <<>> /\ left' = FALSE
  /\ kept' = IF stage = "unlinking" THEN [kept EXCEPT ![Last(taken)] = @ + 1]
                                    ELSE kept
  /\ UNCHANGED <<policy, fileVars, nextId, reads, lost, strays>>

\* Mutant: the numbering goes on from the number of files.
OpenByCount ==
  /\ ~up
  /\ up' = TRUE
  /\ count' = Cardinality(DOMAIN json)
  /\ nextSeq' = Cardinality(DOMAIN json) + 1
  /\ UNCHANGED <<policy, fileVars, writes, flush, recoverVars, clearVars, nextId,
                 reads, kept, lost, strays, crashes>>

Open ==
  /\ ~up
  /\ up' = TRUE
  /\ count' = Cardinality(DOMAIN json)
  /\ nextSeq' = Max(DOMAIN json \cup {0}) + 1
  /\ UNCHANGED <<policy, fileVars, writes, flush, recoverVars, clearVars, nextId,
                 reads, kept, lost, strays, crashes>>

-----------------------------------------------------------------------------
(* recover(maxQueuedMessagesPerClient).                                    *)

othersThanRecover ==
  <<policy, up, tmp, nextSeq, writes, flush, clearVars, nextId, lost, crashes>>

StartRecover ==
  /\ up /\ stage = "none" /\ count > 0
  /\ stage' = "settling"
  /\ waitFor' = flush
  /\ UNCHANGED <<othersThanRecover, json, count, listing, taken, reads, kept, strays>>

\* The .json files in the order of their numbers.
SortedFiles ==
  CHOOSE q \in [1..Cardinality(DOMAIN json) -> DOMAIN json] :
    \A i, j \in DOMAIN q : i < j => q[i] < q[j]

FirstFiles == SubSeq(SortedFiles, 1, Min({Len(SortedFiles), MaxQueued}))

\* Mutant: the writes under way are not awaited.
ListAtOnce ==
  /\ stage = "settling"
  /\ waitFor' = {}
  /\ listing' = FirstFiles
  /\ stage' = IF listing' = <<>> THEN "done" ELSE "reading"
  /\ UNCHANGED <<othersThanRecover, json, count, taken, reads, kept, strays>>

List ==
  /\ stage = "settling"
  /\ waitFor \cap DOMAIN writes = {}
  /\ waitFor' = {}
  /\ listing' = FirstFiles
  /\ stage' = IF listing' = <<>> THEN "done" ELSE "reading"
  /\ UNCHANGED <<othersThanRecover, json, count, taken, reads, kept, strays>>

\* The readdir of recover() is outside every try: the rejection ends a drain
\* nobody awaits, and Node ends a process with an unhandled rejection.
ReaddirFails ==
  /\ "readdir" \in IoFaults
  /\ stage = "settling"
  /\ waitFor \cap DOMAIN writes = {}
  /\ Crash

\* An unlink fails for another reason than that its file has gone.
Strays == "unlink" \in IoFaults /\ strays < MaxStrays /\ strays' = strays + 1

NextFile ==
  /\ listing' = Tail(listing)
  /\ stage' = IF Tail(listing) = <<>> THEN "done" ELSE "reading"

Read ==
  /\ stage = "reading"
  /\ Head(listing) \in DOMAIN json
  /\ LET id == json[Head(listing)]
     IN  /\ reads[id] < MaxReads
         /\ taken' = Append(taken, id)
         /\ reads' = [reads EXCEPT ![id] = @ + 1]
  /\ stage' = "unlinking"
  /\ UNCHANGED <<othersThanRecover, json, count, waitFor, listing, kept, strays>>

Skip ==
  /\ stage = "reading"
  /\ Head(listing) \notin DOMAIN json \/ "read" \in IoFaults
  /\ NextFile
  /\ UNCHANGED <<othersThanRecover, json, count, waitFor, taken, reads, kept, strays>>

\* Mutant: the file stays.
UnlinkForgotten ==
  /\ stage = "unlinking"
  /\ Head(listing) \in DOMAIN json
  /\ count' = count - 1
  /\ NextFile
  /\ UNCHANGED <<othersThanRecover, json, waitFor, taken, reads, kept, strays>>

Unlink ==
  /\ stage = "unlinking"
  /\ Head(listing) \in DOMAIN json
  /\ json' = Minus(json, Head(listing))
  /\ count' = count - 1
  /\ NextFile
  /\ UNCHANGED <<othersThanRecover, waitFor, taken, reads, kept, strays>>

\* The entry is in the result whether the unlink succeeds or not.
UnlinkFails ==
  /\ stage = "unlinking"
  /\ \/ /\ Head(listing) \notin DOMAIN json
        /\ UNCHANGED <<kept, strays>>
     \/ /\ Strays
        /\ kept' = [kept EXCEPT ![Last(taken)] = @ + 1]
  /\ NextFile
  /\ UNCHANGED <<othersThanRecover, json, count, waitFor, taken, reads>>

Return ==
  /\ stage = "done"
  /\ stage' = "none"
  /\ taken' = <<>>
  /\ UNCHANGED <<othersThanRecover, json, count, waitFor, listing, reads, kept, strays>>

-----------------------------------------------------------------------------
(* clear(), called twice when the client leaves: the second call finds     *)
(* flushPromises emptied and lists the directory at once.                  *)

StartClears ==
  /\ up /\ ~left
  /\ left' = TRUE
  /\ count' = 0
  /\ flush' = {}
  /\ clear' = [k \in {"awaited", "immediate"} |->
                 [stage   |-> "waiting",
                  waitFor |-> IF k = "awaited" THEN flush ELSE {},
                  names   |-> {}]]
  /\ UNCHANGED <<policy, up, fileVars, nextSeq, writes, recoverVars, nextId, reads,
                 kept, lost, strays, crashes>>

othersThanClear ==
  <<policy, up, queueVars, recoverVars, left, nextId, reads, kept, lost, crashes>>

\* Mutant: only the .json files.
NamesOfJson == {"json"} \X DOMAIN json

Names == ({"json"} \X DOMAIN json) \cup ({"tmp"} \X DOMAIN tmp)

ListNames(k) ==
  /\ k \in DOMAIN clear /\ clear[k].stage = "waiting"
  /\ clear[k].waitFor \cap DOMAIN writes = {}
  /\ \/ /\ clear' = [clear EXCEPT ![k].stage = "unlinking", ![k].names = Names]
        /\ UNCHANGED strays
     \/ /\ "readdir" \in IoFaults /\ strays < MaxStrays
        /\ clear' = [clear EXCEPT ![k].stage = "unlinking"]
        /\ strays' = strays + 1
  /\ UNCHANGED <<othersThanClear, fileVars>>

UnlinkName(k, name) ==
  /\ k \in DOMAIN clear /\ name \in clear[k].names
  /\ clear' = [clear EXCEPT ![k].names = @ \ {name}]
  /\ \/ /\ json' = IF name[1] = "json" THEN Minus(json, name[2]) ELSE json
        /\ tmp' = IF name[1] = "tmp" THEN Minus(tmp, name[2]) ELSE tmp
        /\ UNCHANGED strays
     \/ Strays /\ UNCHANGED fileVars
  /\ UNCHANGED othersThanClear

-----------------------------------------------------------------------------
Init ==
  /\ policy \in Policies
  /\ up = TRUE /\ nextSeq = 1 /\ count = 0
  /\ writes = <<>> /\ flush = {} /\ tmp = <<>> /\ json = <<>>
  /\ stage = "none" /\ waitFor = {} /\ listing = <<>> /\ taken = <<>>
  /\ clear = <<>> /\ left = FALSE
  /\ nextId = 1
  /\ reads = [id \in Ids |-> 0] /\ kept = [id \in Ids |-> 0]
  /\ lost = {} /\ strays = 0 /\ crashes = 0

Recovering ==
  \/ StartRecover \/ List \/ ReaddirFails \/ Read \/ Skip \/ Unlink \/ UnlinkFails
  \/ Return

Clearing ==
  \/ StartClears
  \/ \E k \in {"awaited", "immediate"} :
       ListNames(k) \/ \E name \in {"json", "tmp"} \X Ids : UnlinkName(k, name)

Next ==
  \/ Spill
  \/ \E s \in Ids : WriteTmp(s) \/ Rename(s) \/ WriteFails(s)
  \/ Recovering \/ Clearing
  \/ Crash \/ Open

Spec == Init /\ [][Next]_vars

-----------------------------------------------------------------------------
(* Properties.                                                             *)

\* hasSpilled() is true as long as there is a file to recover, through failed
\* writes, reads and unlinks, crashes and the constructor: the drain neither
\* stops before the last entry nor asks the disk for entries that are not there.
CountsFiles ==
  up /\ ~left => count = Cardinality(DOMAIN json) + Cardinality(DOMAIN writes)

\* An entry that has reached its file is safe there until recover() has read
\* it or the client leaves: no later spill, no write that overtakes another
\* and no queue of a later process writes over it.
FilesAreKept ==
  [][~left => \A s \in DOMAIN json :
       IF s \in DOMAIN json' THEN json'[s] = json[s]
                             ELSE json[s] \in Range(taken)]_vars

\* A message comes back from disk once, but for a crash or a failed unlink
\* between the read of its file and the removal: each costs one repetition.
ReadOnce == \A id \in Ids : reads[id] <= 1 + kept[id]

\* README.md:283: "When a client disconnects, all spill files for that client
\* are cleaned up": the writes and the recover() under way included, unless a
\* file could not be unlinked or the process ended before.
NothingRemains ==
  /\ up /\ left /\ strays = 0
  /\ \A k \in DOMAIN clear : clear[k].stage = "unlinking" /\ clear[k].names = {}
  => DOMAIN json = {} /\ DOMAIN tmp = {}

\* The queue as the dispatcher sees it.  In the first process, the only one
\* this is used for, the numbers of the files are the ids of the messages.
Writing   == {writes[s].id : s \in DOMAIN writes}
Stored    == Range(json)
Stage     == IF stage = "settling" THEN "listing"
             ELSE IF stage = "unlinking" THEN "reading" ELSE stage
Recovered == IF stage = "unlinking" THEN Front(taken) ELSE taken

Queue == INSTANCE DiskSpillQueue WITH
  count     <- [l \in Lanes |-> count],
  writing   <- [l \in Lanes |-> Writing],
  files     <- [l \in Lanes |-> Stored],
  lost      <- [l \in Lanes |-> lost],
  recovery  <- [l \in Lanes |-> Stage],
  waitFor   <- [l \in Lanes |-> waitFor],
  batch     <- [l \in Lanes |-> Range(listing)],
  recovered <- [l \in Lanes |-> Recovered],
  clearing  <- [l \in Lanes |-> {}]

\* Until its client leaves, its process ends or an unlink fails, the queue
\* implements DiskSpillQueue: the temporary files, the renames and the gap
\* between reading and unlinking a file cannot be seen from a lane.
ImplementsSpillQueue ==
  Queue!SpillInit
    /\ [][crashes' = 0 /\ ~left' /\ strays' = 0 => Queue!SpillNext]_(Queue!spillVars)
=============================================================================
