--------------------------- MODULE DiskSpillQueue ---------------------------
(***************************************************************************)
(* The on-disk overflow queue of each lane.  Every file operation is       *)
(* asynchronous: spill() only starts a write, recover() and clear() go     *)
(* through several awaits, and the operations of one queue overlap.        *)
(*                                                                         *)
(* A file is the id of the message in it.  File names are numbered in      *)
(* spill order, a lane spills in publication order, so sorting the names   *)
(* is sorting the ids.  The temporary file and its rename are one write,   *)
(* which completes or fails as a whole, as the listing ignores .tmp files. *)
(***************************************************************************)
EXTENDS DeliveryPolicy, SequencesExt

VARIABLES count,      \* lane -> the counter behind hasSpilled()
          writing,    \* lane -> ids whose writeEntry has not settled
          files,      \* lane -> ids with a .json file
          lost,       \* lane -> ids whose write failed (history)
          recovery,   \* lane -> the stage of the lane's recover() call
          waitFor,    \* lane -> the writes that recover() waits for
          batch,      \* lane -> listed files still to be read
          recovered,  \* lane -> the entries read so far
          clearing    \* lane -> the clear() calls in progress

spillVars ==
  <<count, writing, files, lost, recovery, waitFor, batch, recovered, clearing>>

Stages == {"none", "listing", "reading", "done"}

\* "awaited" is the clear() that found the writes in flushPromises and waits
\* for them; "immediate" the second one, which finds flushPromises emptied.
Clears == {"awaited", "immediate"}

HasSpilled(l) == count[l] > 0

OnDisk(l) == writing[l] \cup files[l]

\* spill() on every lane of S.
SpillAll(S, id) ==
  /\ count' = [l \in Lanes |-> IF l \in S THEN count[l] + 1 ELSE count[l]]
  /\ writing' = [l \in Lanes |-> IF l \in S THEN writing[l] \cup {id}
                                            ELSE writing[l]]
  /\ UNCHANGED <<files, lost, recovery, waitFor, batch, recovered, clearing>>

WriteDone(l, id) ==
  /\ id \in writing[l]
  /\ writing' = [writing EXCEPT ![l] = @ \ {id}]
  /\ files' = [files EXCEPT ![l] = @ \cup {id}]
  /\ UNCHANGED <<count, lost, recovery, waitFor, batch, recovered, clearing>>

\* Mutant: the catch clause leaves the counter alone.
FailWritesUncounted(l, ids) ==
  /\ writing' = [writing EXCEPT ![l] = @ \ ids]
  /\ lost' = [lost EXCEPT ![l] = @ \cup ids]
  /\ UNCHANGED count

\* The catch clause of writeEntry: the entry is gone, only the counter knows.
FailWrites(l, ids) ==
  /\ writing' = [writing EXCEPT ![l] = @ \ ids]
  /\ lost' = [lost EXCEPT ![l] = @ \cup ids]
  /\ count' = [count EXCEPT ![l] = IF ids = {} THEN @
                                   ELSE IF @ - Cardinality(ids) < 0 THEN 0
                                   ELSE @ - Cardinality(ids)]

WriteFails(l, id) ==
  /\ "write" \in IoFaults
  /\ id \in writing[l]
  /\ FailWrites(l, {id})
  /\ UNCHANGED <<files, recovery, waitFor, batch, recovered, clearing>>

-----------------------------------------------------------------------------
(* recover(maxQueuedMessagesPerClient), from the call to its result.       *)

StartRecover(l) ==
  /\ recovery' = [recovery EXCEPT ![l] = "listing"]
  /\ waitFor' = [waitFor EXCEPT ![l] = writing[l]]
  /\ recovered' = [recovered EXCEPT ![l] = <<>>]
  /\ UNCHANGED <<count, writing, files, lost, batch, clearing>>

\* Mutant: every file at once.
ListedWithoutLimit(l) == files[l]

Listed(l) ==
  {id \in files[l] : Cardinality({other \in files[l] : other < id}) < MaxQueued}

\* The writes pending at the call have settled; readdir sees whatever is
\* there by now, later writes included.
ListFiles(l) ==
  /\ recovery[l] = "listing"
  /\ waitFor[l] \cap writing[l] = {}
  /\ waitFor' = [waitFor EXCEPT ![l] = {}]
  /\ batch' = [batch EXCEPT ![l] = Listed(l)]
  /\ recovery' = [recovery EXCEPT ![l] =
                    IF Listed(l) = {} THEN "done" ELSE "reading"]
  /\ UNCHANGED <<count, writing, files, lost, recovered, clearing>>

NextFile(l) == Min(batch[l])

LeaveFile(l) ==
  /\ batch' = [batch EXCEPT ![l] = @ \ {NextFile(l)}]
  /\ recovery' = [recovery EXCEPT ![l] =
                    IF batch[l] = {NextFile(l)} THEN "done" ELSE "reading"]

\* Mutant: the file is not unlinked.
ReadFileOnly(l) ==
  /\ recovery[l] = "reading"
  /\ NextFile(l) \in files[l]
  /\ recovered' = [recovered EXCEPT ![l] = Append(@, NextFile(l))]
  /\ count' = [count EXCEPT ![l] = @ - 1]
  /\ LeaveFile(l)
  /\ UNCHANGED <<writing, files, lost, waitFor, clearing>>

ReadFile(l) ==
  /\ recovery[l] = "reading"
  /\ NextFile(l) \in files[l]
  /\ recovered' = [recovered EXCEPT ![l] = Append(@, NextFile(l))]
  /\ files' = [files EXCEPT ![l] = @ \ {NextFile(l)}]
  /\ count' = [count EXCEPT ![l] = @ - 1]
  /\ LeaveFile(l)
  /\ UNCHANGED <<writing, lost, waitFor, clearing>>

\* A file that cannot be read, or that clear() has unlinked, is skipped: it
\* stays where it is and in the counter.
SkipFile(l) ==
  /\ recovery[l] = "reading"
  /\ NextFile(l) \notin files[l] \/ "read" \in IoFaults
  /\ LeaveFile(l)
  /\ UNCHANGED <<count, writing, files, lost, waitFor, recovered, clearing>>

\* The result of recover() is taken by refillFromDisk.
EndRecover(l) ==
  /\ recovery' = [recovery EXCEPT ![l] = "none"]
  /\ recovered' = [recovered EXCEPT ![l] = <<>>]
  /\ UNCHANGED <<count, writing, files, lost, waitFor, batch, clearing>>

-----------------------------------------------------------------------------
(* clear() is called twice when a client disconnects, by the dispatcher    *)
(* and by the session's dispose().                                         *)

StartClears(S) ==
  /\ count' = [l \in Lanes |-> IF l \in S THEN 0 ELSE count[l]]
  /\ clearing' = [l \in Lanes |-> IF l \in S THEN Clears ELSE clearing[l]]
  /\ UNCHANGED <<writing, files, lost, recovery, waitFor, batch, recovered>>

\* Mutant: the writes in progress are not awaited.
ClearDuringWrites(l) ==
  /\ "awaited" \in clearing[l]
  /\ files' = [files EXCEPT ![l] = {}]
  /\ clearing' = [clearing EXCEPT ![l] = @ \ {"awaited"}]
  /\ UNCHANGED <<count, writing, lost, recovery, waitFor, batch, recovered>>

ClearAfterWrites(l) ==
  /\ "awaited" \in clearing[l]
  /\ writing[l] = {}
  /\ files' = [files EXCEPT ![l] = {}]
  /\ clearing' = [clearing EXCEPT ![l] = @ \ {"awaited"}]
  /\ UNCHANGED <<count, writing, lost, recovery, waitFor, batch, recovered>>

\* It unlinks the .tmp files it finds too, and their rename then fails.
ClearNow(l) ==
  /\ "immediate" \in clearing[l]
  /\ files' = [files EXCEPT ![l] = {}]
  /\ clearing' = [clearing EXCEPT ![l] = @ \ {"immediate"}]
  /\ \E unlinked \in SUBSET writing[l] : FailWrites(l, unlinked)
  /\ UNCHANGED <<recovery, waitFor, batch, recovered>>

SpillInit ==
  /\ count = [l \in Lanes |-> 0]
  /\ writing = [l \in Lanes |-> {}]
  /\ files = [l \in Lanes |-> {}]
  /\ lost = [l \in Lanes |-> {}]
  /\ recovery = [l \in Lanes |-> "none"]
  /\ waitFor = [l \in Lanes |-> {}]
  /\ batch = [l \in Lanes |-> {}]
  /\ recovered = [l \in Lanes |-> <<>>]
  /\ clearing = [l \in Lanes |-> {}]

(* The queue on its own, whatever its lane asks of it.                     *)
SpillNext ==
  \E l \in Lanes :
    \/ \E id \in Ids :
         SpillAll({l}, id) \/ WriteDone(l, id) \/ WriteFails(l, id)
    \/ recovery[l] = "none" /\ StartRecover(l)
    \/ ListFiles(l) \/ ReadFile(l) \/ SkipFile(l)
    \/ recovery[l] = "done" /\ EndRecover(l)
    \/ StartClears({l}) \/ ClearAfterWrites(l) \/ ClearNow(l)

SpillTypeOK ==
  /\ count \in [Lanes -> Int]
  /\ writing \in [Lanes -> SUBSET Ids]
  /\ files \in [Lanes -> SUBSET Ids]
  /\ lost \in [Lanes -> SUBSET Ids]
  /\ recovery \in [Lanes -> Stages]
  /\ waitFor \in [Lanes -> SUBSET Ids]
  /\ batch \in [Lanes -> SUBSET Ids]
  /\ recovered \in [Lanes -> Seq(Ids)]
  /\ clearing \in [Lanes -> SUBSET Clears]
=============================================================================
