------------------------ MODULE SpillDirectoryProofs ------------------------
(***************************************************************************)
(* What holds of a spill directory for every policy and every bound.       *)
(* Nothing in the code compares a file with the write that is to produce   *)
(* it: that no file is written over, that none is read twice and that the  *)
(* counter is exact rest on the numbering, which the constructor resumes   *)
(* above the files it finds. The listing of recover() is stale when it is  *)
(* used, but no write can touch a file that was listed. With this, until   *)
(* its client leaves, a directory implements DiskSpillQueue.               *)
(***************************************************************************)
EXTENDS SpillDirectory, DataLemmas

FileStages == {"none", "settling", "reading", "unlinking", "done"}

\* A file holds a message, a write will, and a clear() knows names.
FilesTyped ==
  /\ DOMAIN tmp \subseteq Ids /\ \A s \in DOMAIN tmp : tmp[s] \in Ids
  /\ DOMAIN json \subseteq Ids /\ \A s \in DOMAIN json : json[s] \in Ids

WritesTyped ==
  /\ DOMAIN writes \subseteq Ids
  /\ \A s \in DOMAIN writes :
       writes[s] \in [id : Ids, stage : {"writing", "renaming"}]

RecoverTyped ==
  /\ stage \in FileStages
  /\ listing \in Seq(Ids) /\ taken \in Seq(Ids)
  /\ stage \in {"none", "settling"} => taken = <<>>
  /\ stage = "unlinking" => taken # <<>>
  /\ stage \in {"reading", "unlinking"} <=> listing # <<>>

ClearTyped ==
  /\ DOMAIN clear = IF left THEN {"awaited", "immediate"} ELSE {}
  /\ \A k \in DOMAIN clear :
       clear[k] \in [stage : {"waiting", "unlinking"}, waitFor : SUBSET Ids,
                     names : SUBSET ({"json", "tmp"} \X Ids)]

DirectoryTypes ==
  /\ policy \in Policies
  /\ up \in BOOLEAN /\ left \in BOOLEAN
  /\ nextId \in 1..(MaxMessages + 1) /\ nextSeq \in Nat /\ count \in Int
  /\ FilesTyped /\ WritesTyped /\ RecoverTyped /\ ClearTyped
  /\ reads \in [Ids -> Nat] /\ kept \in [Ids -> Nat]
  /\ strays \in Nat /\ crashes \in Nat

\* No number is used twice while a file or a write bears it, and what a write
\* renames is what it wrote.
NumbersInv ==
  /\ up => nextSeq \in 1..nextId
  /\ ~up => DOMAIN writes = {} /\ stage = "none" /\ ~left /\ crashes > 0
  /\ \A s \in DOMAIN json : s < nextId /\ (up => s < nextSeq)
  /\ \A s \in DOMAIN writes : s < nextSeq
  /\ DOMAIN json \cap DOMAIN writes = {}
  /\ flush = IF left THEN {} ELSE DOMAIN writes
  /\ \A s \in DOMAIN writes :
       writes[s].stage = "renaming" =>
         /\ s \in DOMAIN tmp => tmp[s] = writes[s].id
         /\ ~left => s \in DOMAIN tmp

\* recover() reads files that no write can touch, and unlinks what it read.
ListingInv ==
  /\ \A n \in Range(listing) : n < nextSeq /\ n \notin DOMAIN writes
  /\ stage = "unlinking" /\ Head(listing) \in DOMAIN json
       => json[Head(listing)] = Last(taken)

\* A message is in one file or one write, and only the file that recover() has
\* just read was read more often than it stayed.
BeingUnlinked(s) == stage = "unlinking" /\ s = Head(listing)

ReadsInv ==
  /\ \A s, t \in DOMAIN json : json[s] = json[t] => s = t
  /\ \A s, t \in DOMAIN writes : writes[s].id = writes[t].id => s = t
  /\ \A s \in DOMAIN json, t \in DOMAIN writes : json[s] # writes[t].id
  /\ \A s \in DOMAIN json :
       /\ json[s] < nextId
       /\ ~BeingUnlinked(s) => reads[json[s]] <= kept[json[s]]
  /\ \A t \in DOMAIN writes : writes[t].id < nextId /\ reads[writes[t].id] = 0
  /\ \A id \in Ids : id >= nextId => reads[id] = 0
  /\ ReadOnce

\* Once the writes are over, the awaited clear() knows every file.
ClearInv ==
  up /\ left /\ strays = 0 =>
    /\ clear["awaited"].stage = "waiting"
         => DOMAIN writes \subseteq clear["awaited"].waitFor
    /\ clear["awaited"].stage = "unlinking"
         => DOMAIN writes = {} /\ Names \subseteq clear["awaited"].names

\* In the first process the number of a file is its message, and recover()
\* holds files that exist, in the order of their numbers.
Pristine == crashes = 0 /\ ~left /\ strays = 0

PristineInv ==
  Pristine =>
    /\ nextSeq = nextId
    /\ \A s \in DOMAIN json : json[s] = s
    /\ \A s \in DOMAIN writes : writes[s].id = s
    /\ Range(listing) \subseteq DOMAIN json
    /\ Increasing(listing)

-----------------------------------------------------------------------------
(* Constants, finite sets, and the listing of recover().                   *)

LEMMA IdsFinite ==
  ASSUME NEW T \in SUBSET Ids
  PROVE  IsFiniteSet(T) /\ Cardinality(T) \in Nat
<1>1. IsFiniteSet(Ids)
  BY InstanceAssumption, FS_Interval DEF Ids
<1>2. QED
  BY <1>1, FS_Subset, FS_CardinalityType

LEMMA MaxQueuedType ==
  ASSUME policy \in Policies
  PROVE  MaxQueued \in Nat \ {0}
BY InstanceAssumption DEF ValidPolicy, MaxQueued

\* List takes the first MaxQueued files, in the order of their numbers.
LEMMA FirstFilesListed ==
  ASSUME policy \in Policies, FilesTyped
  PROVE  /\ FirstFiles \in Seq(Ids) /\ Increasing(FirstFiles)
         /\ Range(FirstFiles) \subseteq DOMAIN json
         /\ Range(FirstFiles) = Smallest(DOMAIN json, MaxQueued)
<1>1. MaxMessages \in Nat /\ DOMAIN json \in SUBSET (1..MaxMessages)
  BY InstanceAssumption DEF FilesTyped, Ids
<1>2. \E q \in [1..Cardinality(DOMAIN json) -> DOMAIN json] : Increasing(q)
  BY <1>1, SortedExists
<1>3. /\ SortedFiles \in [1..Cardinality(DOMAIN json) -> DOMAIN json]
      /\ Increasing(SortedFiles)
  BY <1>2 DEF SortedFiles, Increasing
<1>4. MaxQueued \in Nat
  BY MaxQueuedType
<1>5. /\ FirstFiles \in Seq(DOMAIN json) /\ Increasing(FirstFiles)
      /\ Range(FirstFiles) = Smallest(DOMAIN json, MaxQueued)
  <2>1. PICK S, q, m : S = DOMAIN json /\ q = SortedFiles /\ m = MaxQueued
    OBVIOUS
  <2>2. S \in SUBSET (1..MaxMessages) /\ m \in Nat
    BY <1>1, <1>4, <2>1
  <2>3. q \in [1..Cardinality(S) -> S] /\ Increasing(q)
    BY <1>3, <2>1
  <2>4. PICK k \in 0..Cardinality(S) :
           /\ k = Min({Len(q), m})
           /\ SubSeq(q, 1, k) \in Seq(S) /\ Increasing(SubSeq(q, 1, k))
           /\ Range(SubSeq(q, 1, k)) = Smallest(S, m)
    BY <1>1, <2>2, <2>3, FirstOfSorted, Zenon
  <2>5. /\ FirstFiles \in Seq(S) /\ Increasing(FirstFiles)
        /\ Range(FirstFiles) = Smallest(S, m)
    BY <2>1, <2>4, Zenon DEF FirstFiles
  <2>6. QED
    BY <2>1, <2>5
<1>6. FirstFiles \in Seq(Ids)
  BY <1>5, SeqMonotonic DEF FilesTyped
<1>7. QED
  BY <1>5, <1>6 DEF Smallest

\* The value that max[{0, .}] leaves of a counter.
LEMMA MaxWithZero ==
  ASSUME NEW n \in Int
  PROVE  Max({0, n}) = IF n < 0 THEN 0 ELSE n
<1>1. \E x \in {0, n} : \A y \in {0, n} : x >= y
  OBVIOUS
<1>2. /\ Max({0, n}) \in {0, n}
      /\ \A y \in {0, n} : Max({0, n}) >= y
  BY <1>1 DEF Max
<1>3. QED
  BY <1>2

\* The constructor numbers from above the files it finds.
LEMMA MaxOfFiles ==
  ASSUME NEW T \in SUBSET Ids
  PROVE  /\ Max(T \cup {0}) \in Nat
         /\ Max(T \cup {0}) \in T \cup {0}
         /\ \A s \in T : s <= Max(T \cup {0})
<1>1. CASE T = {}
  <2>1. \E x \in T \cup {0} : \A y \in T \cup {0} : x >= y
    BY <1>1
  <2>2. Max(T \cup {0}) \in T \cup {0}
    BY <2>1 DEF Max
  <2>3. QED
    BY <1>1, <2>2
<1>2. CASE T # {}
  <2>1. MaxMessages \in Nat /\ T \in SUBSET (1..MaxMessages)
    BY InstanceAssumption DEF Ids
  <2>2. PICK m \in T : \A y \in T : m >= y
    BY <1>2, <2>1, MaxIn
  <2>3. \A y \in T \cup {0} : m >= y
    BY <2>1, <2>2
  <2>4. /\ Max(T \cup {0}) \in T \cup {0}
        /\ \A y \in T \cup {0} : Max(T \cup {0}) >= y
    BY <2>2, <2>3 DEF Max
  <2>5. PICK x : x = Max(T \cup {0})
    OBVIOUS
  <2>6. x \in T \cup {0} /\ \A y \in T \cup {0} : x >= y
    BY <2>4, <2>5
  <2>7. x \in Nat /\ \A y \in T : y \in Nat
    BY <2>1, <2>6
  <2>8. \A y \in T : y <= x
    BY <2>6, <2>7
  <2>9. QED
    BY <2>5, <2>6, <2>7, <2>8, Zenon
<1>3. QED
  BY <1>1, <1>2

-----------------------------------------------------------------------------
(* Types and numbering.                                                    *)

DirectoryInv == DirectoryTypes /\ NumbersInv

LEMMA DirectoryInit ==
  Init => DirectoryInv
<1>1. SUFFICES ASSUME Init
               PROVE  DirectoryInv
  OBVIOUS
<1>2. DOMAIN <<>> = {} /\ <<>> \in Seq(Ids)
  OBVIOUS
<1>3. FilesTyped /\ WritesTyped /\ RecoverTyped /\ ClearTyped
  BY <1>1, <1>2 DEF Init, FilesTyped, WritesTyped, RecoverTyped, ClearTyped, FileStages
<1>4. nextId \in 1..(MaxMessages + 1)
  BY <1>1, InstanceAssumption DEF Init
<1>5. DirectoryTypes
  <2>1. reads \in [Ids -> Nat] /\ kept \in [Ids -> Nat]
    BY <1>1 DEF Init
  <2>2. policy \in Policies /\ up \in BOOLEAN /\ left \in BOOLEAN
    BY <1>1, Zenon DEF Init
  <2>3. nextSeq \in Nat /\ count \in Int /\ strays \in Nat /\ crashes \in Nat
    BY <1>1 DEF Init
  <2>4. QED
    BY <1>3, <1>4, <2>1, <2>2, <2>3 DEF DirectoryTypes
<1>6. NumbersInv
  BY <1>1, <1>2 DEF Init, NumbersInv
<1>7. QED
  BY <1>5, <1>6 DEF DirectoryInv

LEMMA FilesTypedStep ==
  ASSUME DirectoryInv, [Next]_vars
  PROVE  FilesTyped'
<1> USE DEF FilesTyped
<1>1. FilesTyped /\ WritesTyped
  BY DEF DirectoryInv, DirectoryTypes
<1>2. CASE UNCHANGED <<tmp, json>>
  BY <1>1, <1>2
<1>3. ASSUME NEW s \in Ids, WriteTmp(s)
      PROVE  FilesTyped'
  BY <1>1, <1>3 DEF WriteTmp, WritesTyped, Plus
<1>4. ASSUME NEW s \in Ids, Rename(s)
      PROVE  FilesTyped'
  BY <1>1, <1>4 DEF Rename, Plus, Minus
<1>5. ASSUME NEW s \in Ids, WriteFails(s)
      PROVE  FilesTyped'
  BY <1>1, <1>5 DEF WriteFails, WritesTyped, Plus
<1>6. CASE Unlink
  BY <1>1, <1>6 DEF Unlink, Minus, othersThanRecover
<1>7. ASSUME NEW k \in {"awaited", "immediate"},
             NEW name \in {"json", "tmp"} \X Ids, UnlinkName(k, name)
      PROVE  FilesTyped'
  BY <1>1, <1>7 DEF UnlinkName, Minus, fileVars
<1>8. QED
  BY <1>2, <1>3, <1>4, <1>5, <1>6, <1>7
     DEF Next, Recovering, Clearing, vars, Spill, StartRecover, List, ReaddirFails,
         Read, Skip, UnlinkFails, Return, StartClears, ListNames, Crash, Open,
         fileVars, othersThanRecover

LEMMA WritesTypedStep ==
  ASSUME DirectoryInv, [Next]_vars
  PROVE  WritesTyped'
<1> USE DEF WritesTyped
<1>1. WritesTyped
  BY DEF DirectoryInv, DirectoryTypes
<1>2. CASE UNCHANGED writes
  BY <1>1, <1>2
<1>3. CASE Spill
  <2>1. nextSeq \in Ids
    BY <1>3, InstanceAssumption
       DEF Spill, DirectoryInv, DirectoryTypes, NumbersInv, Ids
  <2>2. nextId \in Ids
    BY <1>3 DEF Spill
  <2>3. writes' = Plus(writes, nextSeq, [id |-> nextId, stage |-> "writing"])
    BY <1>3 DEF Spill
  <2>4. QED
    BY <1>1, <2>1, <2>2, <2>3 DEF Plus
<1>4. ASSUME NEW s \in Ids, WriteTmp(s)
      PROVE  WritesTyped'
  <2>1. /\ s \in DOMAIN writes
        /\ writes' = [writes EXCEPT ![s].stage = "renaming"]
    BY <1>4 DEF WriteTmp
  <2>2. QED
    BY <1>1, <2>1
<1>5. ASSUME NEW s \in Ids, Settled(s)
      PROVE  WritesTyped'
  BY <1>1, <1>5 DEF Settled, Minus
<1>6. CASE Crash
  BY <1>6 DEF Crash
<1>7. QED
  BY <1>2, <1>3, <1>4, <1>5, <1>6
     DEF Next, Recovering, Clearing, vars, Rename, WriteFails, StartRecover, List,
         ReaddirFails, Read, Skip, Unlink, UnlinkFails, Return, StartClears,
         ListNames, UnlinkName, Open, queueVars, othersThanRecover, othersThanClear

\* What NextFile leaves of the listing.
LEMMA NextFileStep ==
  ASSUME listing \in Seq(Ids), listing # <<>>, NextFile
  PROVE  /\ listing' \in Seq(Ids) /\ Range(listing') \subseteq Range(listing)
         /\ stage' \in {"done", "reading"}
         /\ stage' = "reading" <=> listing' # <<>>
BY TailOfSequence DEF NextFile

LEMMA RecoverTypedStep ==
  ASSUME DirectoryInv, [Next]_vars
  PROVE  RecoverTyped'
<1> USE DEF RecoverTyped, FileStages
<1>1. RecoverTyped /\ FilesTyped /\ policy \in Policies
  BY DEF DirectoryInv, DirectoryTypes
<1>2. CASE UNCHANGED recoverVars
  BY <1>1, <1>2 DEF recoverVars
<1>3. CASE Crash
  BY <1>3 DEF Crash
<1>4. CASE StartRecover
  BY <1>1, <1>4 DEF StartRecover
<1>5. CASE List
  <2>1. FirstFiles \in Seq(Ids)
    BY <1>1, FirstFilesListed
  <2>2. QED
    BY <1>1, <1>5, <2>1 DEF List
<1>6. CASE Read
  <2>1. Head(listing) \in DOMAIN json /\ taken' = Append(taken, json[Head(listing)])
        /\ stage' = "unlinking" /\ listing' = listing /\ listing # <<>>
    BY <1>1, <1>6 DEF Read
  <2>2. taken' \in Seq(Ids) /\ taken' # <<>>
    BY <1>1, <2>1, AppendProperties DEF FilesTyped
  <2>3. QED
    BY <1>1, <2>1, <2>2
<1>7. CASE Skip \/ Unlink \/ UnlinkFails
  <2>1. NextFile /\ listing # <<>> /\ taken' = taken
    BY <1>1, <1>7 DEF Skip, Unlink, UnlinkFails
  <2>2. QED
    BY <1>1, <2>1, NextFileStep
<1>8. CASE Return
  BY <1>1, <1>8 DEF Return
<1>9. QED
  BY <1>2, <1>3, <1>4, <1>5, <1>6, <1>7, <1>8
     DEF Next, Recovering, Clearing, vars, Spill, WriteTmp, Settled, Rename, WriteFails,
         ReaddirFails, StartClears, ListNames, UnlinkName, Open, othersThanClear

LEMMA ClearTypedStep ==
  ASSUME DirectoryInv, [Next]_vars
  PROVE  ClearTyped'
<1> USE DEF ClearTyped
<1>1. ClearTyped /\ FilesTyped /\ WritesTyped
  BY DEF DirectoryInv, DirectoryTypes
<1>2. CASE UNCHANGED clearVars
  BY <1>1, <1>2 DEF clearVars
<1>3. CASE Crash
  BY <1>3 DEF Crash
<1>4. CASE StartClears
  <2>1. flush \subseteq Ids
    BY <1>1 DEF DirectoryInv, NumbersInv, WritesTyped
  <2>2. QED
    BY <1>4, <2>1 DEF StartClears
<1>5. ASSUME NEW k \in {"awaited", "immediate"}, ListNames(k)
      PROVE  ClearTyped'
  <2>1. Names \in SUBSET ({"json", "tmp"} \X Ids)
    BY <1>1 DEF Names, FilesTyped
  <2>2. k \in DOMAIN clear /\ left' = left
    BY <1>5 DEF ListNames, othersThanClear
  <2>3. CASE clear' = [clear EXCEPT ![k].stage = "unlinking", ![k].names = Names]
    BY <1>1, <2>1, <2>2, <2>3
  <2>4. CASE clear' = [clear EXCEPT ![k].stage = "unlinking"]
    BY <1>1, <2>2, <2>4
  <2>5. QED
    BY <1>5, <2>3, <2>4 DEF ListNames
<1>6. ASSUME NEW k \in {"awaited", "immediate"},
             NEW name \in {"json", "tmp"} \X Ids, UnlinkName(k, name)
      PROVE  ClearTyped'
  <2>1. /\ k \in DOMAIN clear /\ left' = left
        /\ clear' = [clear EXCEPT ![k].names = @ \ {name}]
    BY <1>6 DEF UnlinkName, othersThanClear
  <2>2. QED
    BY <1>1, <2>1
<1>7. QED
  BY <1>2, <1>3, <1>4, <1>5, <1>6
     DEF Next, Recovering, Clearing, vars, Spill, WriteTmp, Settled, Rename, WriteFails,
         StartRecover, List, ReaddirFails, Read, Skip, Unlink, UnlinkFails, Return, Open,
         clearVars, othersThanRecover

LEMMA TypesStep ==
  ASSUME DirectoryInv, [Next]_vars
  PROVE  DirectoryTypes'
<1>1. FilesTyped' /\ WritesTyped' /\ RecoverTyped' /\ ClearTyped'
  BY FilesTypedStep, WritesTypedStep, RecoverTypedStep, ClearTypedStep
<1>2. DirectoryTypes
  BY DEF DirectoryInv
<1>3. policy' \in Policies /\ up' \in BOOLEAN /\ left' \in BOOLEAN
  BY <1>2
     DEF DirectoryTypes, Next, Recovering, Clearing, vars, Spill, WriteTmp, Settled, Rename,
         WriteFails, StartRecover, List, ReaddirFails, Read, Skip, Unlink, UnlinkFails,
         Return, StartClears, ListNames, UnlinkName, Crash, Open, clearVars,
         othersThanRecover, othersThanClear
<1>4. nextId' \in 1..(MaxMessages + 1)
  <2>1. CASE Spill
    BY <1>2, <2>1, InstanceAssumption DEF DirectoryTypes, Spill, Ids
  <2>2. CASE nextId' = nextId
    BY <1>2, <2>2 DEF DirectoryTypes
  <2>3. QED
    BY <2>1, <2>2
       DEF Next, Recovering, Clearing, vars, WriteTmp, Settled, Rename, WriteFails,
           StartRecover, List, ReaddirFails, Read, Skip, Unlink, UnlinkFails, Return,
           StartClears, ListNames, UnlinkName, Crash, Open, othersThanRecover, othersThanClear
<1>5. nextSeq' \in Nat /\ count' \in Int
  <2>1. DOMAIN json \in SUBSET Ids /\ Cardinality(DOMAIN json) \in Nat
    BY <1>2, IdsFinite DEF DirectoryTypes, FilesTyped
  <2>2. CASE Open
    BY <2>1, <2>2, MaxOfFiles DEF Open
  <2>3. ASSUME NEW s \in Ids, WriteFails(s)
        PROVE  nextSeq' \in Nat /\ count' \in Int
    <3>1. count \in Int /\ count - 1 \in Int
      BY <1>2 DEF DirectoryTypes
    <3>2. Max({0, count - 1}) \in Int
      BY <3>1, MaxWithZero
    <3>3. count' = Max({0, count - 1}) /\ nextSeq' = nextSeq
      BY <2>3 DEF WriteFails, Settled
    <3>4. QED
      BY <1>2, <3>2, <3>3 DEF DirectoryTypes
  <2>4. CASE Spill \/ Crash \/ Unlink \/ StartClears
    BY <1>2, <2>4 DEF DirectoryTypes, Spill, Crash, Unlink, StartClears, othersThanRecover
  <2>5. CASE UNCHANGED <<nextSeq, count>>
    BY <1>2, <2>5 DEF DirectoryTypes
  <2>6. QED
    BY <2>2, <2>3, <2>4, <2>5
       DEF Next, Recovering, Clearing, vars, WriteTmp, Settled, Rename, StartRecover, List,
           ReaddirFails, Read, Skip, UnlinkFails, Return, ListNames, UnlinkName,
           queueVars, othersThanRecover, othersThanClear
<1>6. reads' \in [Ids -> Nat] /\ kept' \in [Ids -> Nat]
  <2>1. stage = "unlinking" => Last(taken) \in Ids
    BY <1>2, EmptySeq, ElementOfSeq DEF DirectoryTypes, RecoverTyped, Last
  <2>2. CASE Read
    <3>1. json[Head(listing)] \in Ids
      BY <1>2, <2>2 DEF DirectoryTypes, FilesTyped, Read
    <3>2. QED
      BY <1>2, <2>2, <3>1 DEF DirectoryTypes, Read
  <2>3. CASE Crash \/ UnlinkFails
    BY <1>2, <2>1, <2>3 DEF DirectoryTypes, Crash, UnlinkFails
  <2>4. CASE UNCHANGED <<reads, kept>>
    BY <1>2, <2>4 DEF DirectoryTypes
  <2>5. QED
    BY <2>2, <2>3, <2>4
       DEF Next, Recovering, Clearing, vars, Spill, WriteTmp, Settled, Rename, WriteFails,
           StartRecover, List, ReaddirFails, Skip, Unlink, Return, StartClears,
           ListNames, UnlinkName, Open, othersThanClear
<1>7. strays' \in Nat /\ crashes' \in Nat
  BY <1>2
     DEF DirectoryTypes, Next, Recovering, Clearing, vars, Spill, WriteTmp, Settled, Rename,
         WriteFails, StartRecover, List, ReaddirFails, Read, Skip, Unlink, UnlinkFails,
         Return, StartClears, ListNames, UnlinkName, Crash, Open, Strays,
         othersThanRecover, othersThanClear
<1>8. QED
  BY <1>1, <1>3, <1>4, <1>5, <1>6, <1>7 DEF DirectoryTypes

\* Between a crash and the constructor nothing happens to the directory.
LEMMA DownOpens ==
  ASSUME DirectoryInv, [Next]_vars, ~up
  PROVE  Open \/ UNCHANGED vars
BY DEF DirectoryInv, DirectoryTypes, NumbersInv, ClearTyped, Next, Recovering, Clearing,
       Spill, WriteTmp, Rename, WriteFails, StartRecover, List, ReaddirFails, Read, Skip,
       Unlink, UnlinkFails, Return, StartClears, ListNames, UnlinkName, Crash

\* A clear() under way only takes files away.
LEMMA ClearOnlyUnlinks ==
  ASSUME NEW k, ListNames(k) \/ \E name \in {"json", "tmp"} \X Ids : UnlinkName(k, name)
  PROVE  /\ k \in DOMAIN clear /\ UNCHANGED othersThanClear
         /\ DOMAIN json' \subseteq DOMAIN json /\ DOMAIN tmp' \subseteq DOMAIN tmp
         /\ \A s \in DOMAIN json' : json'[s] = json[s]
         /\ \A s \in DOMAIN tmp' : tmp'[s] = tmp[s]
<1>1. CASE ListNames(k)
  BY <1>1 DEF ListNames, fileVars
<1>2. ASSUME NEW name \in {"json", "tmp"} \X Ids, UnlinkName(k, name)
      PROVE  /\ k \in DOMAIN clear /\ UNCHANGED othersThanClear
             /\ DOMAIN json' \subseteq DOMAIN json /\ DOMAIN tmp' \subseteq DOMAIN tmp
             /\ \A s \in DOMAIN json' : json'[s] = json[s]
             /\ \A s \in DOMAIN tmp' : tmp'[s] = tmp[s]
  <2>1. k \in DOMAIN clear /\ UNCHANGED othersThanClear
    BY <1>2 DEF UnlinkName
  <2>2. /\ json' = json \/ json' = Minus(json, name[2])
        /\ tmp' = tmp \/ tmp' = Minus(tmp, name[2])
    BY <1>2 DEF UnlinkName, fileVars
  <2>3. QED
    BY <2>1, <2>2 DEF Minus
<1>3. QED
  BY <1>1, <1>2

LEMMA NumbersStep ==
  ASSUME DirectoryInv, [Next]_vars
  PROVE  NumbersInv'
<1>1. /\ DirectoryTypes /\ NumbersInv /\ FilesTyped /\ WritesTyped /\ ClearTyped
      /\ nextSeq \in Nat /\ nextId \in Nat /\ nextId > 0
  BY InstanceAssumption DEF DirectoryInv, DirectoryTypes
<1>2. CASE UNCHANGED vars
  BY <1>1, <1>2
     DEF NumbersInv, vars, fileVars, queueVars, recoverVars, clearVars
<1>3. CASE Spill
  <2>1. PICK w : w = [id |-> nextId, stage |-> "writing"]
    OBVIOUS
  <2>2. /\ up /\ ~left /\ nextSeq \in 1..nextId
        /\ DOMAIN writes' = DOMAIN writes \cup {nextSeq}
        /\ \A s \in DOMAIN writes' : writes'[s] = IF s = nextSeq THEN w ELSE writes[s]
        /\ nextSeq' = nextSeq + 1 /\ nextId' = nextId + 1 /\ flush' = flush \cup {nextSeq}
        /\ UNCHANGED <<up, left, tmp, json, stage, crashes>>
    BY <1>1, <1>3, <2>1
       DEF Spill, Plus, NumbersInv, fileVars, recoverVars, clearVars
  <2>3. \A s \in DOMAIN json \cup DOMAIN writes : s \in Nat /\ s < nextSeq
    BY <1>1, <2>2 DEF NumbersInv, FilesTyped, WritesTyped, Ids
  <2>4. \A s \in DOMAIN writes' :
          writes'[s].stage = "renaming" => s \in DOMAIN writes /\ writes'[s] = writes[s]
    BY <2>1, <2>2
  <2>5. /\ nextSeq' \in 1..nextId'
        /\ \A s \in DOMAIN json' : s < nextId' /\ s < nextSeq'
        /\ \A s \in DOMAIN writes' : s < nextSeq'
        /\ DOMAIN json' \cap DOMAIN writes' = {}
    BY <1>1, <2>2, <2>3 DEF NumbersInv
  <2>6. flush' = DOMAIN writes'
    BY <1>1, <2>2 DEF NumbersInv
  <2>7. \A s \in DOMAIN writes' :
          writes'[s].stage = "renaming" =>
            s \in DOMAIN tmp' /\ tmp'[s] = writes'[s].id
    BY <1>1, <2>2, <2>4 DEF NumbersInv
  <2>8. QED
    BY <2>2, <2>5, <2>6, <2>7 DEF NumbersInv
<1>4. ASSUME NEW s \in Ids, WriteTmp(s)
      PROVE  NumbersInv'
  <2>1. /\ s \in DOMAIN writes
        /\ tmp' = Plus(tmp, s, writes[s].id)
        /\ writes' = [writes EXCEPT ![s].stage = "renaming"]
        /\ UNCHANGED <<up, json, nextSeq, flush, stage, left, nextId, crashes>>
    BY <1>4 DEF WriteTmp, recoverVars, clearVars
  <2>2. /\ DOMAIN writes' = DOMAIN writes
        /\ \A t \in DOMAIN writes :
             /\ writes'[t].id = writes[t].id
             /\ t # s => writes'[t] = writes[t]
    BY <1>1, <2>1 DEF WritesTyped
  <2>3. /\ s \in DOMAIN tmp' /\ tmp'[s] = writes[s].id
        /\ \A t : t # s => (t \in DOMAIN tmp' <=> t \in DOMAIN tmp)
        /\ \A t \in DOMAIN tmp : t # s => tmp'[t] = tmp[t]
    BY <2>1 DEF Plus
  <2>4. \A t \in DOMAIN writes' :
          writes'[t].stage = "renaming" =>
            /\ t \in DOMAIN tmp' => tmp'[t] = writes'[t].id
            /\ ~left' => t \in DOMAIN tmp'
    BY <1>1, <2>1, <2>2, <2>3 DEF NumbersInv
  <2>5. QED
    BY <1>1, <2>1, <2>2, <2>4 DEF NumbersInv
<1>5. ASSUME NEW s \in Ids, Rename(s) \/ WriteFails(s)
      PROVE  NumbersInv'
  <2>1. /\ s \in DOMAIN writes
        /\ writes' = Minus(writes, s) /\ flush' = flush \ {s}
        /\ DOMAIN json' \subseteq DOMAIN json \cup {s}
        /\ UNCHANGED <<up, nextSeq, stage, left, nextId, crashes>>
    BY <1>5 DEF Rename, WriteFails, Settled, Plus, recoverVars, clearVars
  <2>2. /\ \A t : t # s => (t \in DOMAIN tmp' <=> t \in DOMAIN tmp)
        /\ \A t \in DOMAIN tmp : t # s => tmp'[t] = tmp[t]
    BY <1>5 DEF Rename, WriteFails, Plus, Minus
  <2>3. /\ DOMAIN writes' = DOMAIN writes \ {s}
        /\ \A t \in DOMAIN writes' : writes'[t] = writes[t]
    BY <2>1 DEF Minus
  <2>4. up
    BY <1>1, <2>1 DEF NumbersInv
  <2>5. s \in Nat /\ s < nextSeq /\ nextSeq \in 1..nextId
    BY <1>1, <2>1, <2>4 DEF NumbersInv, Ids
  <2>6. \A t \in DOMAIN writes' :
          writes'[t].stage = "renaming" =>
            /\ t \in DOMAIN tmp' => tmp'[t] = writes'[t].id
            /\ ~left' => t \in DOMAIN tmp'
    BY <1>1, <2>1, <2>2, <2>3 DEF NumbersInv
  <2>7. \A t \in DOMAIN json' : t < nextId' /\ t < nextSeq'
    BY <1>1, <2>1, <2>4, <2>5 DEF NumbersInv
  <2>8. QED
    BY <1>1, <2>1, <2>3, <2>4, <2>6, <2>7 DEF NumbersInv
<1>6. CASE Crash
  <2>1. DOMAIN writes' = {} /\ flush' = {} /\ ~up' /\ stage' = "none" /\ ~left'
        /\ crashes' = crashes + 1 /\ json' = json /\ nextId' = nextId
    BY <1>6 DEF Crash, fileVars
  <2>2. crashes' > 0
    BY <1>1, <2>1 DEF DirectoryTypes
  <2>3. QED
    BY <1>1, <2>1, <2>2 DEF NumbersInv
<1>7. CASE Open
  <2>1. /\ ~up /\ up' /\ nextSeq' = Max(DOMAIN json \cup {0}) + 1
        /\ UNCHANGED <<tmp, json, writes, flush, stage, left, nextId, crashes>>
    BY <1>7 DEF Open, fileVars, recoverVars, clearVars
  <2>2. PICK m : m = Max(DOMAIN json \cup {0})
    OBVIOUS
  <2>3. m \in Nat /\ m \in DOMAIN json \cup {0} /\ \A s \in DOMAIN json : s <= m
    BY <1>1, <2>2, MaxOfFiles DEF FilesTyped
  <2>4. m < nextId
    BY <1>1, <2>3 DEF NumbersInv
  <2>5. nextSeq' \in 1..nextId' /\ \A s \in DOMAIN json' : s < nextSeq'
    BY <1>1, <2>1, <2>2, <2>3, <2>4 DEF FilesTyped, Ids
  <2>6. DOMAIN writes' = {}
    BY <1>1, <2>1 DEF NumbersInv
  <2>7. QED
    BY <1>1, <2>1, <2>5, <2>6 DEF NumbersInv
<1>8. CASE StartClears
  BY <1>1, <1>8 DEF StartClears, NumbersInv, fileVars, recoverVars
<1>9. ASSUME NEW k \in {"awaited", "immediate"},
             ListNames(k) \/ \E name \in {"json", "tmp"} \X Ids : UnlinkName(k, name)
      PROVE  NumbersInv'
  <2>1. /\ k \in DOMAIN clear
        /\ DOMAIN json' \subseteq DOMAIN json /\ DOMAIN tmp' \subseteq DOMAIN tmp
        /\ \A s \in DOMAIN tmp' : tmp'[s] = tmp[s]
        /\ UNCHANGED <<up, nextSeq, writes, flush, stage, left, nextId, crashes>>
    BY <1>9, ClearOnlyUnlinks DEF queueVars, recoverVars, othersThanClear
  <2>2. left
    BY <1>1, <2>1 DEF ClearTyped
  <2>3. QED
    BY <1>1, <2>1, <2>2 DEF NumbersInv
<1>10. CASE StartRecover \/ List \/ Read \/ Skip \/ Unlink \/ UnlinkFails \/ Return
  <2>1. /\ DOMAIN json' \subseteq DOMAIN json
        /\ UNCHANGED <<up, tmp, nextSeq, writes, flush, left, nextId, crashes>>
    BY <1>10 DEF StartRecover, List, Read, Skip, Unlink, UnlinkFails, Return, Minus,
                othersThanRecover, clearVars
  <2>2. up
    BY <1>1, <1>10 DEF NumbersInv, StartRecover, List, Read, Skip, Unlink, UnlinkFails, Return
  <2>3. QED
    BY <1>1, <2>1, <2>2 DEF NumbersInv
<1>11. QED
  BY <1>2, <1>3, <1>4, <1>5, <1>6, <1>7, <1>8, <1>9, <1>10
     DEF Next, Recovering, Clearing, ReaddirFails

\* The numbering of files and writes, across crashes and the constructor.
THEOREM DirectoryInvariant == Spec => []DirectoryInv
<1>1. DirectoryInv /\ [Next]_vars => DirectoryInv'
  BY TypesStep, NumbersStep DEF DirectoryInv
<1>2. QED
  BY <1>1, DirectoryInit, PTL DEF Spec

-----------------------------------------------------------------------------
(* The counter behind hasSpilled().                                        *)

LEMMA CountsFilesStep ==
  ASSUME DirectoryInv, CountsFiles, [Next]_vars
  PROVE  CountsFiles'
<1>1. /\ DirectoryTypes /\ NumbersInv /\ FilesTyped /\ WritesTyped
      /\ nextSeq \in Nat /\ count \in Int
  BY DEF DirectoryInv, DirectoryTypes
<1>2. PICK j, w : j = Cardinality(DOMAIN json) /\ w = Cardinality(DOMAIN writes)
  OBVIOUS
<1>3. /\ IsFiniteSet(DOMAIN json) /\ IsFiniteSet(DOMAIN writes)
      /\ j \in Nat /\ w \in Nat
  BY <1>1, <1>2, IdsFinite DEF FilesTyped, WritesTyped
<1>4. up /\ ~left => count = j + w
  BY <1>2 DEF CountsFiles
<1>5. SUFFICES ASSUME up', ~left'
               PROVE  count' = Cardinality(DOMAIN json') + Cardinality(DOMAIN writes')
  BY DEF CountsFiles
<1>6. CASE UNCHANGED <<up, left, count, json, writes>>
  BY <1>5, <1>6 DEF CountsFiles
<1>7. CASE Spill
  <2>1. /\ up /\ ~left /\ count' = count + 1 /\ json' = json
        /\ DOMAIN writes' = DOMAIN writes \cup {nextSeq}
    BY <1>7 DEF Spill, Plus, fileVars
  <2>2. nextSeq \notin DOMAIN writes
    BY <1>1 DEF NumbersInv
  <2>3. Cardinality(DOMAIN writes') = w + 1
    BY <1>2, <1>3, <2>1, <2>2, FS_AddElement
  <2>4. QED
    BY <1>2, <1>3, <1>4, <2>1, <2>3
<1>8. ASSUME NEW s \in Ids, Rename(s) \/ WriteFails(s)
      PROVE  count' = Cardinality(DOMAIN json') + Cardinality(DOMAIN writes')
  <2>1. /\ s \in DOMAIN writes /\ DOMAIN writes' = DOMAIN writes \ {s}
        /\ UNCHANGED <<up, left>>
    BY <1>8 DEF Rename, WriteFails, Settled, Minus, clearVars
  <2>2. Cardinality(DOMAIN writes') = w - 1 /\ w > 0
    <3>1. Cardinality(DOMAIN writes') = w - 1
      BY <1>2, <1>3, <2>1, FS_RemoveElement
    <3>2. w # 0
      BY <1>2, <1>3, <2>1, FS_EmptySet
    <3>3. QED
      BY <1>3, <3>1, <3>2
  <2>3. s \notin DOMAIN json
    BY <1>1, <2>1 DEF NumbersInv
  <2>4. CASE Rename(s)
    <3>1. DOMAIN json' = DOMAIN json \cup {s} /\ count' = count
      BY <2>4 DEF Rename, Plus
    <3>2. Cardinality(DOMAIN json') = j + 1
      BY <1>2, <1>3, <2>3, <3>1, FS_AddElement
    <3>3. QED
      BY <1>3, <1>4, <1>5, <2>1, <2>2, <3>1, <3>2
  <2>5. CASE WriteFails(s)
    <3>1. count' = Max({0, count - 1}) /\ json' = json
      BY <2>5 DEF WriteFails
    <3>2. count = j + w
      BY <1>4, <1>5, <2>1
    <3>3. count' = count - 1
      BY <1>1, <1>3, <2>2, <3>1, <3>2, MaxWithZero
    <3>4. QED
      BY <1>2, <1>3, <2>2, <3>1, <3>2, <3>3
  <2>6. QED
    BY <1>8, <2>4, <2>5
<1>9. CASE Open
  <2>1. count' = j /\ json' = json /\ writes' = writes /\ DOMAIN writes = {}
    BY <1>1, <1>2, <1>9 DEF Open, NumbersInv, fileVars
  <2>2. QED
    BY <1>2, <1>3, <2>1, FS_EmptySet
<1>10. CASE Unlink
  <2>1. /\ Head(listing) \in DOMAIN json
        /\ DOMAIN json' = DOMAIN json \ {Head(listing)}
        /\ count' = count - 1 /\ UNCHANGED <<up, left, writes>>
    BY <1>10 DEF Unlink, Minus, othersThanRecover, clearVars
  <2>2. Cardinality(DOMAIN json') = j - 1
    BY <1>2, <1>3, <2>1, FS_RemoveElement
  <2>3. QED
    BY <1>2, <1>3, <1>4, <1>5, <2>1, <2>2
<1>11. CASE Clearing
  <2>1. left'
    BY <1>1, <1>11
       DEF Clearing, StartClears, ListNames, UnlinkName, othersThanClear, DirectoryTypes,
           ClearTyped
  <2>2. QED
    BY <1>5, <2>1
<1>12. CASE Crash
  BY <1>5, <1>12 DEF Crash
<1>13. ASSUME NEW s \in Ids, WriteTmp(s)
       PROVE  count' = Cardinality(DOMAIN json') + Cardinality(DOMAIN writes')
  <2>1. DOMAIN writes' = DOMAIN writes /\ UNCHANGED <<up, left, count, json>>
    BY <1>13 DEF WriteTmp, clearVars
  <2>2. QED
    BY <1>5, <2>1 DEF CountsFiles
<1>14. QED
  BY <1>6, <1>7, <1>8, <1>9, <1>10, <1>11, <1>12, <1>13
     DEF Next, Recovering, vars, StartRecover, List, ReaddirFails, Read, Skip, UnlinkFails,
         Return, fileVars, queueVars, clearVars, othersThanRecover

\* As long as there is a file or a write under way hasSpilled() says so, and
\* when there is none it does not: the drain neither stops before the last
\* entry on disk nor asks for entries that are not there.
THEOREM CounterOfDirectory == Spec => []CountsFiles
<1>1. Init => CountsFiles
  <2>1. Cardinality(DOMAIN <<>>) = 0
    BY FS_EmptySet
  <2>2. QED
    BY <2>1 DEF Init, CountsFiles
<1>2. DirectoryInv /\ CountsFiles /\ [Next]_vars => CountsFiles'
  BY CountsFilesStep
<1>3. QED
  BY <1>1, <1>2, DirectoryInvariant, PTL DEF Spec

-----------------------------------------------------------------------------
(* The files that recover() has listed.                                    *)

LEMMA ListingStep ==
  ASSUME DirectoryInv, ListingInv, [Next]_vars
  PROVE  ListingInv'
<1>1. /\ DirectoryTypes /\ NumbersInv /\ FilesTyped /\ WritesTyped /\ RecoverTyped
      /\ policy \in Policies /\ nextSeq \in Nat
  BY DEF DirectoryInv, DirectoryTypes
<1>2. listing # <<>> => Head(listing) \in Range(listing)
  BY <1>1, TailOfSequence DEF RecoverTyped
<1>3. stage = "unlinking" => listing # <<>>
  BY <1>1 DEF RecoverTyped
<1>4. CASE UNCHANGED vars
  BY <1>4 DEF ListingInv, vars, fileVars, queueVars, recoverVars
<1>5. CASE Spill
  <2>1. /\ up /\ nextSeq' = nextSeq + 1 /\ DOMAIN writes' = DOMAIN writes \cup {nextSeq}
        /\ UNCHANGED <<json, listing, stage, taken>>
    BY <1>5 DEF Spill, Plus, fileVars, recoverVars
  <2>2. \A n \in Range(listing) : n \in Nat /\ n < nextSeq /\ n \notin DOMAIN writes
    <3>1. Range(listing) \in SUBSET Ids
      BY <1>1, RangeOfSeq DEF RecoverTyped
    <3>2. QED
      BY <3>1 DEF ListingInv, Ids
  <2>3. QED
    BY <1>1, <2>1, <2>2 DEF ListingInv
<1>6. ASSUME NEW s \in Ids, WriteTmp(s)
      PROVE  ListingInv'
  <2>1. DOMAIN writes' = DOMAIN writes /\ UNCHANGED <<nextSeq, json, listing, stage, taken>>
    BY <1>6 DEF WriteTmp, recoverVars
  <2>2. QED
    BY <2>1 DEF ListingInv
<1>7. ASSUME NEW s \in Ids, Rename(s) \/ WriteFails(s)
      PROVE  ListingInv'
  <2>1. /\ s \in DOMAIN writes /\ DOMAIN writes' \subseteq DOMAIN writes
        /\ \A t : t # s => (t \in DOMAIN json' <=> t \in DOMAIN json)
        /\ \A t \in DOMAIN json : t # s => json'[t] = json[t]
        /\ UNCHANGED <<nextSeq, listing, stage, taken>>
    BY <1>7 DEF Rename, WriteFails, Settled, Plus, Minus, recoverVars
  <2>2. stage = "unlinking" => Head(listing) # s
    BY <1>2, <1>3, <2>1 DEF ListingInv
  <2>3. QED
    BY <2>1, <2>2 DEF ListingInv
<1>8. CASE Crash
  BY <1>8 DEF Crash, ListingInv, Range
<1>9. CASE Open
  <2>1. listing' = <<>> /\ stage' = "none"
    BY <1>1, <1>9 DEF Open, NumbersInv, RecoverTyped, recoverVars
  <2>2. QED
    BY <2>1 DEF ListingInv, Range
<1>10. CASE Clearing
  <2>1. /\ DOMAIN json' \subseteq DOMAIN json /\ \A s \in DOMAIN json' : json'[s] = json[s]
        /\ UNCHANGED <<nextSeq, writes, listing, stage, taken>>
    BY <1>10, ClearOnlyUnlinks
       DEF Clearing, StartClears, othersThanClear, fileVars, queueVars, recoverVars
  <2>2. QED
    BY <2>1 DEF ListingInv
<1>11. CASE StartRecover \/ Return
  BY <1>11 DEF StartRecover, Return, ListingInv, othersThanRecover
<1>12. CASE List
  <2>1. /\ listing' = FirstFiles /\ stage' # "unlinking" /\ stage # "none"
        /\ UNCHANGED <<nextSeq, writes>>
    BY <1>12 DEF List, othersThanRecover
  <2>2. Range(listing') \subseteq DOMAIN json
    BY <1>1, <2>1, FirstFilesListed
  <2>3. \A n \in DOMAIN json : n < nextSeq /\ n \notin DOMAIN writes
    BY <1>1, <2>1 DEF NumbersInv
  <2>4. QED
    BY <2>1, <2>2, <2>3 DEF ListingInv
<1>13. CASE Read
  <2>1. /\ Head(listing) \in DOMAIN json /\ taken' = Append(taken, json[Head(listing)])
        /\ UNCHANGED <<nextSeq, writes, json, listing>>
    BY <1>13 DEF Read, othersThanRecover
  <2>2. Last(taken') = json[Head(listing)]
    BY <1>1, <2>1, LastOfAppend DEF FilesTyped, RecoverTyped
  <2>3. QED
    BY <2>1, <2>2 DEF ListingInv
<1>14. CASE Skip \/ Unlink \/ UnlinkFails
  <2>1. NextFile /\ listing # <<>> /\ UNCHANGED <<nextSeq, writes>>
    BY <1>1, <1>14 DEF Skip, Unlink, UnlinkFails, RecoverTyped, othersThanRecover
  <2>2. Range(listing') \subseteq Range(listing) /\ stage' # "unlinking"
    BY <1>1, <2>1, NextFileStep DEF RecoverTyped
  <2>3. QED
    BY <2>1, <2>2 DEF ListingInv
<1>15. QED
  BY <1>4, <1>5, <1>6, <1>7, <1>8, <1>9, <1>10, <1>11, <1>12, <1>13, <1>14
     DEF Next, Recovering, ReaddirFails

\* No write can touch a file that recover() has listed, and the file that it
\* unlinks is the one whose message it has just read.
THEOREM ListingInvariant == Spec => []ListingInv
<1>1. Init => ListingInv
  BY DEF Init, ListingInv, Range
<1>2. DirectoryInv /\ ListingInv /\ [Next]_vars => ListingInv'
  BY ListingStep
<1>3. QED
  BY <1>1, <1>2, DirectoryInvariant, PTL DEF Spec

\* A file that disappears while its client is there has been read.
LEMMA FilesAreKeptStep ==
  ASSUME DirectoryInv, ListingInv, [Next]_vars, ~left, NEW s \in DOMAIN json
  PROVE  IF s \in DOMAIN json' THEN json'[s] = json[s]
                               ELSE json[s] \in Range(taken)
<1>1. CASE json' = json
  BY <1>1
<1>2. ASSUME NEW n \in Ids, Rename(n)
      PROVE  s \in DOMAIN json' /\ json'[s] = json[s]
  <2>1. n \in DOMAIN writes /\ json' = Plus(json, n, tmp[n])
    BY <1>2 DEF Rename
  <2>2. s # n
    BY <2>1 DEF DirectoryInv, NumbersInv
  <2>3. QED
    BY <2>1, <2>2 DEF Plus
<1>3. CASE Unlink
  <2>1. stage = "unlinking" /\ Head(listing) \in DOMAIN json
        /\ json' = Minus(json, Head(listing))
    BY <1>3 DEF Unlink
  <2>2. CASE s = Head(listing)
    <3>1. json[s] = Last(taken)
      BY <2>1, <2>2 DEF ListingInv
    <3>2. taken \in Seq(Ids) /\ taken # <<>>
      BY <2>1 DEF DirectoryInv, DirectoryTypes, RecoverTyped
    <3>3. QED
      BY <2>1, <2>2, <3>1, <3>2, LastInRange DEF Minus
  <2>3. CASE s # Head(listing)
    BY <2>1, <2>3 DEF Minus
  <2>4. QED
    BY <2>2, <2>3
<1>4. CASE Clearing
  BY <1>1, <1>4
     DEF Clearing, StartClears, ListNames, UnlinkName, fileVars, DirectoryInv,
         DirectoryTypes, ClearTyped
<1>5. QED
  BY <1>1, <1>2, <1>3, <1>4
     DEF Next, Recovering, vars, Spill, WriteTmp, WriteFails, StartRecover, List, ReaddirFails,
         Read, Skip, UnlinkFails, Return, Crash, Open, fileVars

\* No spill, no write that overtakes another and no queue of a later process
\* writes over a file.
THEOREM FilesStay == Spec => FilesAreKept
<1>1. DirectoryInv /\ ListingInv /\ [Next]_vars
      => [~left => \A s \in DOMAIN json :
            IF s \in DOMAIN json' THEN json'[s] = json[s]
                                  ELSE json[s] \in Range(taken)]_vars
  BY FilesAreKeptStep
<1>2. QED
  BY <1>1, DirectoryInvariant, ListingInvariant, PTL DEF Spec, FilesAreKept

-----------------------------------------------------------------------------
(* How often a file is read.                                               *)

LEMMA ReadsStep ==
  ASSUME DirectoryInv, ListingInv, ReadsInv, [Next]_vars
  PROVE  ReadsInv'
<1>1. /\ NumbersInv /\ RecoverTyped
      /\ DOMAIN json \subseteq Ids /\ \A s \in DOMAIN json : json[s] \in Ids
      /\ DOMAIN writes \subseteq Ids /\ \A s \in DOMAIN writes : writes[s].id \in Ids
      /\ reads \in [Ids -> Nat] /\ kept \in [Ids -> Nat] /\ nextId \in Nat
      /\ Ids \subseteq Nat
  BY DEF DirectoryInv, DirectoryTypes, FilesTyped, WritesTyped, Ids
<1>2. stage = "unlinking" =>
        /\ Last(taken) \in Ids
        /\ \A s \in DOMAIN json : s = Head(listing) => json[s] = Last(taken)
  BY <1>1, LastInRange DEF RecoverTyped, ListingInv
<1>3. CASE UNCHANGED vars
  BY <1>3 DEF ReadsInv, ReadOnce, BeingUnlinked, vars, fileVars, queueVars, recoverVars
<1>4. CASE Spill
  <2>1. PICK w : w = [id |-> nextId, stage |-> "writing"]
    OBVIOUS
  <2>2. /\ nextId \in Ids /\ nextId' = nextId + 1
        /\ DOMAIN writes' = DOMAIN writes \cup {nextSeq}
        /\ \A t \in DOMAIN writes' : writes'[t] = IF t = nextSeq THEN w ELSE writes[t]
        /\ UNCHANGED <<json, stage, listing, reads, kept>>
    BY <1>4, <2>1 DEF Spill, Plus, fileVars, recoverVars
  <2>3. \A t \in DOMAIN writes' : writes'[t].id = IF t = nextSeq THEN nextId
                                                  ELSE writes[t].id
    BY <2>1, <2>2
  <2>4. \A s \in DOMAIN json : json[s] \in Nat /\ json[s] < nextId
    BY <1>1 DEF ReadsInv
  <2>5. \A t \in DOMAIN writes : writes[t].id \in Nat /\ writes[t].id < nextId
    BY <1>1 DEF ReadsInv
  <2>6. \A s, t \in DOMAIN writes' : writes'[s].id = writes'[t].id => s = t
    BY <1>1, <2>2, <2>3, <2>5 DEF ReadsInv
  <2>7. \A s \in DOMAIN json', t \in DOMAIN writes' : json'[s] # writes'[t].id
    BY <1>1, <2>2, <2>3, <2>4 DEF ReadsInv
  <2>8. \A t \in DOMAIN writes' : writes'[t].id < nextId' /\ reads'[writes'[t].id] = 0
    BY <1>1, <2>2, <2>3, <2>5 DEF ReadsInv
  <2>9. \A s \in DOMAIN json' :
          /\ json'[s] < nextId'
          /\ ~BeingUnlinked(s)' => reads'[json'[s]] <= kept'[json'[s]]
    BY <1>1, <2>2, <2>4 DEF ReadsInv, BeingUnlinked
  <2>10. \A id \in Ids : id >= nextId' => reads'[id] = 0
    BY <1>1, <2>2 DEF ReadsInv
  <2>11. QED
    BY <2>2, <2>6, <2>7, <2>8, <2>9, <2>10 DEF ReadsInv, ReadOnce
<1>5. ASSUME NEW s \in Ids, WriteTmp(s)
      PROVE  ReadsInv'
  <2>1. /\ s \in DOMAIN writes /\ writes' = [writes EXCEPT ![s].stage = "renaming"]
        /\ UNCHANGED <<nextId, json, stage, listing, reads, kept>>
    BY <1>5 DEF WriteTmp, recoverVars
  <2>2. DOMAIN writes' = DOMAIN writes /\ \A t \in DOMAIN writes : writes'[t].id = writes[t].id
    BY <2>1 DEF DirectoryInv, DirectoryTypes, WritesTyped
  <2>3. QED
    BY <2>1, <2>2 DEF ReadsInv, ReadOnce, BeingUnlinked
<1>6. ASSUME NEW s \in Ids, Rename(s)
      PROVE  ReadsInv'
  <2>1. /\ s \in DOMAIN writes /\ writes[s].stage = "renaming" /\ s \in DOMAIN tmp
        /\ json' = Plus(json, s, tmp[s]) /\ writes' = Minus(writes, s)
        /\ UNCHANGED <<nextId, stage, listing, reads, kept>>
    BY <1>6 DEF Rename, Settled, recoverVars
  <2>2. tmp[s] = writes[s].id
    BY <1>1, <2>1 DEF NumbersInv
  <2>3. /\ DOMAIN json' = DOMAIN json \cup {s}
        /\ \A t \in DOMAIN json' : json'[t] = IF t = s THEN writes[s].id ELSE json[t]
        /\ DOMAIN writes' = DOMAIN writes \ {s}
        /\ \A t \in DOMAIN writes' : writes'[t] = writes[t]
    BY <2>1, <2>2 DEF Plus, Minus
  <2>4. \A t, u \in DOMAIN json' : json'[t] = json'[u] => t = u
    BY <2>1, <2>3 DEF ReadsInv
  <2>5. \A t \in DOMAIN json', u \in DOMAIN writes' : json'[t] # writes'[u].id
    BY <2>1, <2>3 DEF ReadsInv
  <2>6. \A t \in DOMAIN json' :
          /\ json'[t] < nextId'
          /\ ~BeingUnlinked(t)' => reads'[json'[t]] <= kept'[json'[t]]
    BY <1>1, <2>1, <2>3 DEF ReadsInv, BeingUnlinked
  <2>7. QED
    BY <2>1, <2>3, <2>4, <2>5, <2>6 DEF ReadsInv, ReadOnce
<1>7. ASSUME NEW s \in Ids, WriteFails(s)
      PROVE  ReadsInv'
  <2>1. /\ DOMAIN writes' \subseteq DOMAIN writes
        /\ \A t \in DOMAIN writes' : writes'[t] = writes[t]
        /\ UNCHANGED <<nextId, json, stage, listing, reads, kept>>
    BY <1>7 DEF WriteFails, Settled, Minus, recoverVars
  <2>2. QED
    BY <2>1 DEF ReadsInv, ReadOnce, BeingUnlinked
<1>8. CASE Crash
  <2>1. /\ DOMAIN writes' = {} /\ stage' = "none"
        /\ kept' = IF stage = "unlinking" THEN [kept EXCEPT ![Last(taken)] = @ + 1] ELSE kept
        /\ UNCHANGED <<nextId, json, reads>>
    BY <1>8 DEF Crash, fileVars
  <2>2. \A id \in Ids :
          /\ kept'[id] \in Nat /\ kept[id] <= kept'[id]
          /\ stage = "unlinking" /\ id = Last(taken) => kept'[id] = kept[id] + 1
    BY <1>1, <1>2, <2>1
  <2>3. \A s \in DOMAIN json : reads[json[s]] <= kept'[json[s]]
    <3>1. TAKE s \in DOMAIN json
    <3>2. CASE BeingUnlinked(s)
      <4>1. json[s] = Last(taken) /\ stage = "unlinking"
        BY <1>2, <3>2 DEF BeingUnlinked
      <4>2. PICK id \in Ids : id = Last(taken) /\ id = json[s]
        BY <1>2, <4>1
      <4>3. kept'[id] = kept[id] + 1 /\ reads[id] <= 1 + kept[id]
        BY <1>2, <2>2, <4>1, <4>2 DEF ReadsInv, ReadOnce
      <4>4. reads[id] \in Nat /\ kept[id] \in Nat
        BY <1>1
      <4>5. QED
        BY <4>2, <4>3, <4>4
    <3>3. CASE ~BeingUnlinked(s)
      <4>1. PICK id \in Ids : id = json[s]
        BY <1>1
      <4>2. reads[id] <= kept[id]
        BY <3>3, <4>1 DEF ReadsInv
      <4>3. reads[id] \in Nat /\ kept[id] \in Nat /\ kept'[id] \in Nat /\ kept[id] <= kept'[id]
        BY <1>1, <2>2
      <4>4. QED
        BY <4>1, <4>2, <4>3
    <3>4. QED
      BY <3>2, <3>3
  <2>4. \A id \in Ids : reads[id] <= 1 + kept'[id]
    BY <1>1, <2>2 DEF ReadsInv, ReadOnce
  <2>5. QED
    BY <2>1, <2>3, <2>4 DEF ReadsInv, ReadOnce
<1>9. CASE Open
  BY <1>9 DEF Open, ReadsInv, ReadOnce, BeingUnlinked, fileVars, recoverVars
<1>10. CASE Clearing
  <2>1. /\ DOMAIN json' \subseteq DOMAIN json /\ \A s \in DOMAIN json' : json'[s] = json[s]
        /\ UNCHANGED <<writes, stage, listing, nextId, reads, kept>>
    BY <1>10, ClearOnlyUnlinks
       DEF Clearing, StartClears, othersThanClear, fileVars, queueVars, recoverVars
  <2>2. QED
    BY <2>1 DEF ReadsInv, ReadOnce, BeingUnlinked
<1>11. CASE StartRecover \/ List \/ Skip \/ Return
  <2>1. /\ stage # "unlinking" /\ stage' # "unlinking"
        /\ UNCHANGED <<json, writes, nextId, reads, kept>>
    BY <1>11 DEF StartRecover, List, Skip, Return, NextFile, othersThanRecover
  <2>2. QED
    BY <2>1 DEF ReadsInv, ReadOnce, BeingUnlinked
<1>12. CASE Read
  <2>1. PICK n : n = Head(listing)
    OBVIOUS
  <2>2. /\ n \in DOMAIN json /\ stage = "reading" /\ stage' = "unlinking"
        /\ reads' = [reads EXCEPT ![json[n]] = @ + 1]
        /\ UNCHANGED <<json, writes, listing, nextId, kept>>
    BY <1>12, <2>1 DEF Read, othersThanRecover
  <2>3. \A id \in Ids : reads'[id] = IF id = json[n] THEN reads[id] + 1 ELSE reads[id]
    BY <1>1, <2>2
  <2>4. \A s \in DOMAIN json : reads[json[s]] <= kept[json[s]]
    BY <2>2 DEF ReadsInv, BeingUnlinked
  <2>5. \A s \in DOMAIN json' :
          ~BeingUnlinked(s)' => reads'[json'[s]] <= kept'[json'[s]]
    BY <1>1, <2>1, <2>2, <2>3, <2>4 DEF ReadsInv, BeingUnlinked
  <2>6. \A t \in DOMAIN writes' : reads'[writes'[t].id] = 0
    BY <1>1, <2>2, <2>3 DEF ReadsInv
  <2>7. \A id \in Ids : id >= nextId' => reads'[id] = 0
    BY <1>1, <2>2, <2>3 DEF ReadsInv
  <2>8. \A id \in Ids : reads'[id] <= 1 + kept'[id]
    BY <1>1, <2>2, <2>3, <2>4 DEF ReadsInv, ReadOnce
  <2>9. QED
    BY <2>2, <2>5, <2>6, <2>7, <2>8 DEF ReadsInv, ReadOnce
<1>13. CASE Unlink
  <2>1. /\ stage' # "unlinking"
        /\ json' = Minus(json, Head(listing))
        /\ UNCHANGED <<writes, nextId, reads, kept>>
    BY <1>13 DEF Unlink, NextFile, othersThanRecover
  <2>2. /\ DOMAIN json' \subseteq DOMAIN json
        /\ \A s \in DOMAIN json' : s # Head(listing) /\ json'[s] = json[s]
    BY <2>1 DEF Minus
  <2>3. QED
    BY <2>1, <2>2 DEF ReadsInv, ReadOnce, BeingUnlinked
<1>14. CASE UnlinkFails
  <2>1. /\ stage = "unlinking" /\ stage' # "unlinking"
        /\ UNCHANGED <<json, writes, nextId, reads>>
        /\ \/ Head(listing) \notin DOMAIN json /\ kept' = kept
           \/ kept' = [kept EXCEPT ![Last(taken)] = @ + 1]
    BY <1>14 DEF UnlinkFails, NextFile, othersThanRecover
  <2>2. \A id \in Ids :
          /\ kept'[id] \in Nat /\ kept[id] <= kept'[id]
          /\ Head(listing) \in DOMAIN json /\ id = Last(taken) => kept'[id] = kept[id] + 1
    BY <1>1, <1>2, <2>1
  <2>3. \A s \in DOMAIN json : reads[json[s]] <= kept'[json[s]]
    <3>1. TAKE s \in DOMAIN json
    <3>2. CASE s = Head(listing)
      <4>1. json[s] = Last(taken)
        BY <1>2, <2>1, <3>2
      <4>2. PICK id \in Ids : id = Last(taken) /\ id = json[s]
        BY <1>2, <4>1, <2>1
      <4>3. kept'[id] = kept[id] + 1 /\ reads[id] <= 1 + kept[id]
        BY <1>2, <2>1, <2>2, <3>2, <4>2 DEF ReadsInv, ReadOnce
      <4>4. reads[id] \in Nat /\ kept[id] \in Nat
        BY <1>1
      <4>5. QED
        BY <4>2, <4>3, <4>4
    <3>3. CASE s # Head(listing)
      <4>1. PICK id \in Ids : id = json[s]
        BY <1>1
      <4>2. reads[id] <= kept[id]
        BY <3>3, <4>1 DEF ReadsInv, BeingUnlinked
      <4>3. reads[id] \in Nat /\ kept[id] \in Nat /\ kept'[id] \in Nat /\ kept[id] <= kept'[id]
        BY <1>1, <2>2
      <4>4. QED
        BY <4>1, <4>2, <4>3
    <3>4. QED
      BY <3>2, <3>3
  <2>4. \A id \in Ids : reads[id] <= 1 + kept'[id]
    BY <1>1, <2>2 DEF ReadsInv, ReadOnce
  <2>5. QED
    BY <2>1, <2>3, <2>4 DEF ReadsInv, ReadOnce
<1>15. QED
  BY <1>3, <1>4, <1>5, <1>6, <1>7, <1>8, <1>9, <1>10, <1>11, <1>12, <1>13, <1>14
     DEF Next, Recovering, ReaddirFails

\* The file of a message is read once more only after a crash or a failed
\* unlink between its reading and its removal.
THEOREM RepetitionsAreAccounted == Spec => []ReadOnce
<1>1. Init => ReadsInv
  <2>1. DOMAIN <<>> = {}
    OBVIOUS
  <2>2. QED
    BY <2>1 DEF Init, ReadsInv, ReadOnce
<1>2. DirectoryInv /\ ListingInv /\ ReadsInv /\ [Next]_vars => ReadsInv'
  BY ReadsStep
<1>3. ReadsInv => ReadOnce
  BY DEF ReadsInv
<1>4. QED
  BY <1>1, <1>2, <1>3, DirectoryInvariant, ListingInvariant, PTL DEF Spec

-----------------------------------------------------------------------------
(* What clear() leaves.                                                    *)

LEMMA ClearStep ==
  ASSUME DirectoryInv, ClearInv, [Next]_vars
  PROVE  ClearInv'
<1> DEFINE Knows(c) == /\ c.stage = "waiting" => DOMAIN writes \subseteq c.waitFor
                       /\ c.stage = "unlinking" => DOMAIN writes = {} /\ Names \subseteq c.names
<1>1. /\ NumbersInv /\ FilesTyped /\ WritesTyped /\ ClearTyped /\ strays \in Nat
  BY DEF DirectoryInv, DirectoryTypes
<1>2. SUFFICES ASSUME up', left', strays' = 0
               PROVE  Knows(clear["awaited"])'
  BY DEF ClearInv
<1>3. CASE StartClears
  <2>1. /\ clear'["awaited"] = [stage |-> "waiting", waitFor |-> flush, names |-> {}]
        /\ writes' = writes /\ ~left
    BY <1>3 DEF StartClears
  <2>2. flush = DOMAIN writes
    BY <1>1, <2>1 DEF NumbersInv
  <2>3. clear'["awaited"].stage = "waiting" /\ clear'["awaited"].waitFor = DOMAIN writes'
    BY <2>1, <2>2
  <2>4. QED
    BY <2>3
<1>4. CASE ~StartClears
  <2>1. left' = left /\ left
    BY <1>2, <1>4
       DEF Next, Recovering, Clearing, vars, Spill, WriteTmp, Rename, Settled, WriteFails,
           StartRecover, List, ReaddirFails, Read, Skip, Unlink, UnlinkFails, Return, ListNames,
           UnlinkName, Crash, Open, clearVars, othersThanRecover, othersThanClear
  <2>2. up
    BY <1>1, <2>1 DEF NumbersInv
  <2>3. strays = 0
    <3>1. strays' = strays \/ strays' = strays + 1
      BY DEF Next, Recovering, Clearing, vars, Spill, WriteTmp, Rename, Settled, WriteFails,
             StartRecover, List, ReaddirFails, Read, Skip, Unlink, UnlinkFails, Return,
             StartClears, ListNames, UnlinkName, Crash, Open, Strays
    <3>2. QED
      BY <1>1, <1>2, <3>1
  <2>4. Knows(clear["awaited"])
    BY <2>1, <2>2, <2>3 DEF ClearInv
  <2>5. ASSUME UNCHANGED <<writes, clear>>, DOMAIN json' \subseteq DOMAIN json,
               DOMAIN tmp' \subseteq DOMAIN tmp
        PROVE  Knows(clear["awaited"])'
    BY <2>4, <2>5 DEF Names
  <2>6. ASSUME NEW s \in DOMAIN writes, DOMAIN writes' \subseteq DOMAIN writes, clear' = clear
        PROVE  Knows(clear["awaited"])'
    BY <2>4, <2>6
  <2>7. ASSUME NEW s \in Ids, WriteTmp(s) \/ Rename(s) \/ WriteFails(s)
        PROVE  Knows(clear["awaited"])'
    <3>1. /\ s \in DOMAIN writes /\ DOMAIN writes' \subseteq DOMAIN writes /\ clear' = clear
      BY <2>7 DEF WriteTmp, Rename, WriteFails, Settled, Minus, clearVars
    <3>2. QED
      BY <2>6, <3>1
  <2>8. CASE StartRecover \/ List \/ Read \/ Skip \/ Unlink \/ UnlinkFails \/ Return \/ Open
             \/ UNCHANGED vars
    <3>1. /\ UNCHANGED <<writes, clear, tmp>> /\ DOMAIN json' \subseteq DOMAIN json
      BY <2>8
         DEF StartRecover, List, Read, Skip, Unlink, UnlinkFails, Return, Open, vars, Minus,
             fileVars, queueVars, clearVars, othersThanRecover
    <3>2. QED
      BY <2>5, <3>1
  <2>9. ASSUME NEW k \in {"awaited", "immediate"}, ListNames(k)
        PROVE  Knows(clear["awaited"])'
    <3>1. /\ k \in DOMAIN clear /\ clear[k].waitFor \cap DOMAIN writes = {}
          /\ clear[k].stage = "waiting"
          /\ UNCHANGED <<writes, json, tmp>>
          /\ clear' = [clear EXCEPT ![k].stage = "unlinking", ![k].names = Names]
      BY <1>2, <2>3, <2>9 DEF ListNames, othersThanClear, fileVars, queueVars
    <3>2. CASE k = "awaited"
      <4>1. DOMAIN writes = {}
        BY <2>4, <3>1, <3>2
      <4>2. clear'["awaited"].stage = "unlinking" /\ clear'["awaited"].names = Names
        BY <1>1, <3>1, <3>2 DEF ClearTyped
      <4>3. Names' = Names
        BY <3>1 DEF Names
      <4>4. QED
        BY <3>1, <4>1, <4>2, <4>3
    <3>3. CASE k # "awaited"
      <4>1. clear'["awaited"] = clear["awaited"]
        BY <1>1, <2>1, <3>1, <3>3 DEF ClearTyped
      <4>2. QED
        BY <2>4, <3>1, <4>1 DEF Names
    <3>4. QED
      BY <3>2, <3>3
  <2>10. ASSUME NEW k \in {"awaited", "immediate"}, NEW name \in {"json", "tmp"} \X Ids,
                UnlinkName(k, name)
         PROVE  Knows(clear["awaited"])'
    <3>1. /\ k \in DOMAIN clear /\ name \in clear[k].names
          /\ clear' = [clear EXCEPT ![k].names = @ \ {name}]
          /\ json' = IF name[1] = "json" THEN Minus(json, name[2]) ELSE json
          /\ tmp' = IF name[1] = "tmp" THEN Minus(tmp, name[2]) ELSE tmp
          /\ writes' = writes
      BY <1>2, <2>3, <2>10 DEF UnlinkName, Strays, othersThanClear, queueVars
    <3>2. Names' \subseteq Names \ {name}
      BY <3>1 DEF Names, Minus
    <3>3. \/ clear'["awaited"] = clear["awaited"]
          \/ /\ clear'["awaited"].stage = clear["awaited"].stage
             /\ clear'["awaited"].waitFor = clear["awaited"].waitFor
             /\ clear'["awaited"].names = clear["awaited"].names \ {name}
      BY <1>1, <2>1, <3>1 DEF ClearTyped
    <3>4. QED
      BY <2>4, <3>1, <3>2, <3>3
  <2>11. ~Spill /\ ~Crash
    BY <1>2, <2>1 DEF Spill, Crash
  <2>12. QED
    BY <1>4, <2>7, <2>8, <2>9, <2>10, <2>11 DEF Next, Recovering, Clearing, ReaddirFails
<1>5. QED
  BY <1>3, <1>4

\* When both calls of clear() are over, nothing is left in the directory of a
\* client that has gone, whatever writes and recover() it had under way.
THEOREM NothingIsLeftOnDisk == Spec => []NothingRemains
<1>1. Init => ClearInv
  BY DEF Init, ClearInv
<1>2. DirectoryInv /\ ClearInv /\ [Next]_vars => ClearInv'
  BY ClearStep
<1>3. DirectoryInv /\ ClearInv => NothingRemains
  <2>1. SUFFICES ASSUME DirectoryInv, ClearInv, up, left, strays = 0,
                        \A k \in DOMAIN clear :
                          clear[k].stage = "unlinking" /\ clear[k].names = {}
                 PROVE  DOMAIN json = {} /\ DOMAIN tmp = {}
    BY DEF NothingRemains
  <2>2. "awaited" \in DOMAIN clear
    BY <2>1 DEF DirectoryInv, DirectoryTypes, ClearTyped
  <2>3. Names = {}
    BY <2>1, <2>2 DEF ClearInv
  <2>4. /\ \A s \in DOMAIN json : <<"json", s>> \in Names
        /\ \A s \in DOMAIN tmp : <<"tmp", s>> \in Names
    BY DEF Names
  <2>5. QED
    BY <2>3, <2>4
<1>4. QED
  BY <1>1, <1>2, <1>3, DirectoryInvariant, PTL DEF Spec

-----------------------------------------------------------------------------
(* The first process, while its client is there.                           *)

LEMMA PristineStep ==
  ASSUME DirectoryInv, PristineInv, [Next]_vars
  PROVE  PristineInv'
<1>1. /\ NumbersInv /\ FilesTyped /\ WritesTyped /\ RecoverTyped /\ ClearTyped
      /\ policy \in Policies /\ strays \in Nat /\ crashes \in Nat
  BY DEF DirectoryInv, DirectoryTypes
<1>2. SUFFICES ASSUME Pristine'
               PROVE  PristineInv'
  BY DEF PristineInv
<1>3. ~Crash
  BY <1>1, <1>2 DEF Crash, Pristine
<1>4. Pristine
  <2>1. /\ strays' = strays \/ strays' = strays + 1
        /\ crashes' = crashes /\ (left' = left \/ left')
    BY <1>3
       DEF Next, Recovering, Clearing, vars, Spill, WriteTmp, Rename, Settled, WriteFails,
           StartRecover, List, ReaddirFails, Read, Skip, Unlink, UnlinkFails, Return,
           StartClears, ListNames, UnlinkName, Open, Strays, clearVars, othersThanRecover,
           othersThanClear
  <2>2. QED
    BY <1>1, <1>2, <2>1 DEF Pristine
<1>5. /\ up /\ nextSeq = nextId
      /\ \A s \in DOMAIN json : json[s] = s
      /\ \A s \in DOMAIN writes : writes[s].id = s
      /\ Range(listing) \subseteq DOMAIN json /\ Increasing(listing)
  BY <1>1, <1>4 DEF PristineInv, Pristine, NumbersInv
<1>6. CASE UNCHANGED vars
  BY <1>5, <1>6 DEF PristineInv, vars, fileVars, queueVars, recoverVars
<1>7. CASE Spill
  <2>1. PICK w : w = [id |-> nextId, stage |-> "writing"]
    OBVIOUS
  <2>2. /\ nextSeq' = nextSeq + 1 /\ nextId' = nextId + 1
        /\ DOMAIN writes' = DOMAIN writes \cup {nextSeq}
        /\ \A t \in DOMAIN writes' : writes'[t] = IF t = nextSeq THEN w ELSE writes[t]
        /\ UNCHANGED <<json, listing>>
    BY <1>7, <2>1 DEF Spill, Plus, fileVars, recoverVars
  <2>3. \A t \in DOMAIN writes' : writes'[t].id = t
    BY <1>5, <2>1, <2>2
  <2>4. QED
    BY <1>5, <2>2, <2>3 DEF PristineInv
<1>8. ASSUME NEW s \in Ids, WriteTmp(s)
      PROVE  PristineInv'
  <2>1. /\ s \in DOMAIN writes /\ writes' = [writes EXCEPT ![s].stage = "renaming"]
        /\ UNCHANGED <<nextSeq, nextId, json, listing>>
    BY <1>8 DEF WriteTmp, recoverVars
  <2>2. DOMAIN writes' = DOMAIN writes /\ \A t \in DOMAIN writes : writes'[t].id = writes[t].id
    BY <1>1, <2>1 DEF WritesTyped
  <2>3. QED
    BY <1>5, <2>1, <2>2 DEF PristineInv
<1>9. ASSUME NEW s \in Ids, Rename(s) \/ WriteFails(s)
      PROVE  PristineInv'
  <2>1. /\ s \in DOMAIN writes /\ writes' = Minus(writes, s)
        /\ UNCHANGED <<nextSeq, nextId, listing>>
        /\ json' = json \/ (json' = Plus(json, s, tmp[s]) /\ writes[s].stage = "renaming"
                              /\ s \in DOMAIN tmp)
    BY <1>9 DEF Rename, WriteFails, Settled, recoverVars
  <2>2. writes[s].stage = "renaming" /\ s \in DOMAIN tmp => tmp[s] = s
    BY <1>1, <1>5, <2>1 DEF NumbersInv
  <2>3. DOMAIN json \subseteq DOMAIN json' /\ \A t \in DOMAIN json' : json'[t] = t
    BY <1>5, <2>1, <2>2 DEF Plus
  <2>4. \A t \in DOMAIN writes' : writes'[t].id = t
    BY <1>5, <2>1 DEF Minus
  <2>5. QED
    BY <1>5, <2>1, <2>3, <2>4 DEF PristineInv
<1>10. CASE StartRecover \/ Read \/ Return
  BY <1>5, <1>10 DEF StartRecover, Read, Return, PristineInv, othersThanRecover
<1>11. CASE List
  <2>1. Range(FirstFiles) \subseteq DOMAIN json /\ Increasing(FirstFiles)
    BY <1>1, FirstFilesListed
  <2>2. QED
    BY <1>5, <1>11, <2>1 DEF List, PristineInv, othersThanRecover
<1>12. CASE Skip \/ Unlink \/ UnlinkFails
  <2>1. /\ listing # <<>> /\ listing' = Tail(listing) /\ listing \in Seq(Ids)
        /\ json' = json \/ json' = Minus(json, Head(listing))
        /\ UNCHANGED <<nextSeq, nextId, writes>>
    BY <1>1, <1>12 DEF Skip, Unlink, UnlinkFails, NextFile, RecoverTyped, othersThanRecover
  <2>2. Ids \in SUBSET Nat
    BY DEF Ids
  <2>3. /\ Increasing(listing') /\ Head(listing) \notin Range(listing')
        /\ Range(listing') \subseteq Range(listing)
    BY <1>5, <2>1, <2>2, TailOfSorted, TailOfSequence
  <2>4. Range(listing') \subseteq DOMAIN json' /\ \A s \in DOMAIN json' : json'[s] = s
    BY <1>5, <2>1, <2>3 DEF Minus
  <2>5. QED
    BY <1>5, <2>1, <2>3, <2>4 DEF PristineInv
<1>13. ~Clearing /\ ~Open
  BY <1>1, <1>2, <1>4, <1>5
     DEF Clearing, StartClears, ListNames, UnlinkName, Open, Pristine, ClearTyped
<1>14. QED
  BY <1>3, <1>6, <1>7, <1>8, <1>9, <1>10, <1>11, <1>12, <1>13
     DEF Next, Recovering, ReaddirFails

\* In the first process the files are numbered as the messages were.
THEOREM PristineInvariant == Spec => []PristineInv
<1>1. Init => PristineInv
  BY DEF Init, PristineInv, Range, Increasing
<1>2. DirectoryInv /\ PristineInv /\ [Next]_vars => PristineInv'
  BY PristineStep
<1>3. QED
  BY <1>1, <1>2, DirectoryInvariant, PTL DEF Spec

-----------------------------------------------------------------------------
(* The queue that the dispatcher sees.                                     *)

LEMMA QueueConstants ==
  /\ Queue!Lanes = Lanes /\ Queue!Ids = Ids /\ Queue!MaxQueued = MaxQueued
BY DEF Queue!Lanes, Lanes, Queue!Ids, Ids, Queue!MaxQueued, MaxQueued

LEMMA QueueOperators ==
  ASSUME NEW S
  PROVE  Queue!Cardinality(S) = Cardinality(S) /\ Queue!Min(S) = Min(S)
<1>1. Queue!Cardinality(S) = Cardinality(S)
  BY DEF Queue!Cardinality, Cardinality
<1>2. Queue!Min(S) = Min(S)
  BY DEF Queue!Min, Min
<1>3. QED
  BY <1>1, <1>2

LEMMA QueueStep ==
  ASSUME DirectoryInv, ListingInv, PristineInv, [Next]_vars,
         crashes' = 0, ~left', strays' = 0
  PROVE  Queue!SpillNext \/ UNCHANGED Queue!spillVars
<1>1. PICK l \in Lanes : Lanes = {l}
  BY DirectoryAssumption
<1>2. /\ NumbersInv /\ FilesTyped /\ WritesTyped /\ RecoverTyped /\ ClearTyped
      /\ policy \in Policies /\ strays \in Nat /\ crashes \in Nat /\ count \in Int
  BY DEF DirectoryInv, DirectoryTypes
<1>3. Pristine' /\ PristineInv' /\ ~Crash /\ ~StartClears
  BY <1>2, PristineStep DEF Pristine, Crash, StartClears
<1>4. Pristine /\ crashes' = crashes /\ left' = left
  <2>1. /\ strays' = strays \/ strays' = strays + 1
        /\ crashes' = crashes /\ left' = left
    BY <1>3
       DEF Next, Recovering, Clearing, vars, Spill, WriteTmp, Rename, Settled, WriteFails,
           StartRecover, List, ReaddirFails, Read, Skip, Unlink, UnlinkFails, Return,
           ListNames, UnlinkName, Open, Strays, clearVars, othersThanRecover,
           othersThanClear
  <2>2. QED
    BY <1>2, <1>3, <2>1 DEF Pristine
<1>5. /\ Writing = DOMAIN writes /\ Writing' = DOMAIN writes'
      /\ Stored = DOMAIN json /\ Stored' = DOMAIN json'
  <2>1. Writing = DOMAIN writes /\ Stored = DOMAIN json
    BY <1>4 DEF PristineInv, Writing, Stored, Range
  <2>2. Writing' = DOMAIN writes' /\ Stored' = DOMAIN json'
    BY <1>3 DEF PristineInv, Writing, Stored, Range
  <2>3. QED
    BY <2>1, <2>2
<1>6. /\ up /\ nextSeq = nextId /\ flush = DOMAIN writes
      /\ Range(listing) \subseteq DOMAIN json /\ Increasing(listing)
      /\ \A s \in DOMAIN json : json[s] = s
      /\ \A s \in DOMAIN writes : writes[s].id = s
  BY <1>2, <1>4 DEF PristineInv, Pristine, NumbersInv
<1>7. CASE Spill
  <2>1. /\ nextId \in Ids /\ count' = count + 1
        /\ DOMAIN writes' = DOMAIN writes \cup {nextId}
        /\ UNCHANGED <<json, lost, stage, waitFor, listing, taken>>
    BY <1>6, <1>7 DEF Spill, Plus, fileVars, recoverVars
  <2>2. Writing' = Writing \cup {nextId} /\ UNCHANGED <<Stored, Stage, Recovered>>
    BY <1>5, <2>1 DEF Stage, Recovered
  <2>3. Queue!SpillAll({l}, nextId)
    BY <1>1, <2>1, <2>2, QueueConstants DEF Queue!SpillAll
  <2>4. QED
    BY <1>1, <2>1, <2>3, QueueConstants, Zenon DEF Queue!SpillNext
<1>8. ASSUME NEW s \in Ids, WriteTmp(s)
      PROVE  UNCHANGED Queue!spillVars
  <2>1. /\ s \in DOMAIN writes /\ writes' = [writes EXCEPT ![s].stage = "renaming"]
        /\ UNCHANGED <<json, count, lost, stage, waitFor, listing, taken>>
    BY <1>8 DEF WriteTmp, recoverVars
  <2>2. DOMAIN writes' = DOMAIN writes
    BY <2>1
  <2>3. UNCHANGED <<Writing, Stored, Stage, Recovered>>
    BY <1>5, <2>1, <2>2 DEF Stage, Recovered
  <2>4. QED
    BY <2>1, <2>3 DEF Queue!spillVars
<1>9. ASSUME NEW s \in Ids, Rename(s)
      PROVE  Queue!SpillNext
  <2>1. /\ s \in DOMAIN writes /\ DOMAIN writes' = DOMAIN writes \ {s}
        /\ DOMAIN json' = DOMAIN json \cup {s}
        /\ UNCHANGED <<count, lost, stage, waitFor, listing, taken>>
    BY <1>9 DEF Rename, Settled, Plus, Minus, recoverVars
  <2>2. /\ s \in Writing /\ Writing' = Writing \ {s} /\ Stored' = Stored \cup {s}
        /\ UNCHANGED <<Stage, Recovered>>
    BY <1>5, <2>1 DEF Stage, Recovered
  <2>3. Queue!WriteDone(l, s)
    BY <1>1, <2>1, <2>2, QueueConstants DEF Queue!WriteDone
  <2>4. QED
    BY <1>1, <2>3, QueueConstants, Zenon DEF Queue!SpillNext
<1>10. ASSUME NEW s \in Ids, WriteFails(s)
       PROVE  Queue!SpillNext
  <2>1. /\ s \in DOMAIN writes /\ DOMAIN writes' = DOMAIN writes \ {s}
        /\ count' = Max({0, count - 1}) /\ lost' = lost \cup {writes[s].id}
        /\ "write" \in IoFaults \/ (writes[s].stage = "renaming" /\ s \notin DOMAIN tmp)
        /\ UNCHANGED <<json, stage, waitFor, listing, taken>>
    BY <1>10 DEF WriteFails, Settled, Minus, recoverVars
  <2>2. "write" \in IoFaults
    BY <1>2, <1>4, <2>1 DEF NumbersInv, Pristine
  <2>3. /\ s \in Writing /\ Writing' = Writing \ {s} /\ lost' = lost \cup {s}
        /\ UNCHANGED <<Stored, Stage, Recovered>>
    BY <1>5, <1>6, <2>1 DEF Stage, Recovered
  <2>4. count' = IF count - 1 < 0 THEN 0 ELSE count - 1
    BY <1>2, <2>1, MaxWithZero
  <2>5. Queue!Cardinality({s}) = 1
    BY FS_Singleton, QueueOperators
  <2>6. Queue!FailWrites(l, {s})
    BY <1>1, <2>3, <2>4, <2>5, QueueConstants DEF Queue!FailWrites
  <2>7. Queue!WriteFails(l, s)
    BY <1>1, <2>1, <2>2, <2>3, <2>6, QueueConstants DEF Queue!WriteFails
  <2>8. QED
    BY <1>1, <2>7, QueueConstants, Zenon DEF Queue!SpillNext
<1>11. CASE StartRecover
  <2>1. /\ stage = "none" /\ stage' = "settling" /\ waitFor' = flush
        /\ taken = <<>>
        /\ UNCHANGED <<json, writes, count, lost, listing, taken>>
    BY <1>2, <1>11 DEF StartRecover, RecoverTyped, othersThanRecover
  <2>2. /\ Stage = "none" /\ Stage' = "listing" /\ waitFor' = Writing
        /\ Recovered' = <<>>
        /\ UNCHANGED <<Writing, Stored>>
    BY <1>5, <1>6, <2>1 DEF Stage, Recovered
  <2>3. Queue!StartRecover(l)
    BY <1>1, <2>1, <2>2, QueueConstants DEF Queue!StartRecover
  <2>4. [k \in Lanes |-> Stage][l] = "none"
    BY <2>2
  <2>5. QED
    BY <1>1, <2>3, <2>4, QueueConstants, Zenon DEF Queue!SpillNext
<1>12. CASE List
  <2>1. /\ stage = "settling" /\ waitFor \cap DOMAIN writes = {} /\ waitFor' = {}
        /\ listing' = FirstFiles
        /\ stage' = IF listing' = <<>> THEN "done" ELSE "reading"
        /\ UNCHANGED <<json, writes, count, lost, taken>>
    BY <1>12 DEF List, othersThanRecover
  <2>2. /\ Stage = "listing" /\ waitFor \cap Writing = {}
        /\ UNCHANGED <<Writing, Stored, Recovered>>
    BY <1>5, <2>1 DEF Stage, Recovered
  <2>3. [k \in Lanes |-> Stored][l] = Stored
    OBVIOUS
  <2>4. Queue!Listed(l) = Smallest(Stored, MaxQueued)
    BY <2>3, QueueConstants, QueueOperators DEF Queue!Listed, Smallest
  <2>5. Range(listing') = Queue!Listed(l)
    BY <1>2, <1>5, <2>1, <2>4, FirstFilesListed
  <2>6. Stage' = IF Queue!Listed(l) = {} THEN "done" ELSE "reading"
    <3>1. listing' \in Seq(Ids)
      BY <1>2, <2>1, FirstFilesListed
    <3>2. listing' = <<>> <=> Range(listing') = {}
      BY <3>1, TailOfSequence DEF Range
    <3>3. QED
      BY <2>1, <2>5, <3>2 DEF Stage
  <2>7. Queue!ListFiles(l)
    BY <1>1, <2>1, <2>2, <2>5, <2>6, QueueConstants DEF Queue!ListFiles
  <2>8. QED
    BY <1>1, <2>7, QueueConstants, Zenon DEF Queue!SpillNext
<1>13. CASE Read
  <2>1. /\ stage = "reading" /\ stage' = "unlinking"
        /\ Head(listing) \in DOMAIN json /\ taken' = Append(taken, json[Head(listing)])
        /\ UNCHANGED <<json, writes, count, lost, waitFor, listing>>
    BY <1>13 DEF Read, othersThanRecover
  <2>2. Front(taken') = taken
    BY <1>2, <2>1, LastOfAppend DEF FilesTyped, RecoverTyped
  <2>3. UNCHANGED <<Writing, Stored, Stage, Recovered>>
    BY <1>5, <2>1, <2>2 DEF Stage, Recovered
  <2>4. UNCHANGED Queue!spillVars
    BY <2>1, <2>3 DEF Queue!spillVars
  <2>5. QED
    BY <2>4
<1>14. CASE Skip \/ Unlink \/ UnlinkFails
  <2>1. PICK n : n = Head(listing)
    OBVIOUS
  <2>2. /\ listing # <<>> /\ listing \in Seq(Ids) /\ listing' = Tail(listing)
        /\ stage' = IF Tail(listing) = <<>> THEN "done" ELSE "reading"
        /\ stage \in {"reading", "unlinking"}
        /\ UNCHANGED <<writes, lost, waitFor, taken>>
    BY <1>2, <1>14 DEF Skip, Unlink, UnlinkFails, NextFile, RecoverTyped, othersThanRecover
  <2>3. Ids \in SUBSET Nat
    BY DEF Ids
  <2>4. /\ n = Min(Range(listing)) /\ n \in Range(listing) /\ n \in DOMAIN json
        /\ Range(listing') = Range(listing) \ {n}
        /\ listing' \in Seq(Ids)
    BY <1>6, <2>1, <2>2, <2>3, TailOfSorted, TailOfSequence
  <2>5. [k \in Lanes |-> Range(listing)][l] = Range(listing)
    OBVIOUS
  <2>6. Queue!NextFile(l) = n
    BY <2>4, <2>5, QueueOperators DEF Queue!NextFile
  <2>7. Stage = "reading" /\ Stage' = IF Range(listing) = {n} THEN "done" ELSE "reading"
    <3>1. listing' = <<>> <=> Range(listing') = {}
      BY <2>4, TailOfSequence DEF Range
    <3>2. QED
      BY <2>2, <2>4, <3>1 DEF Stage
  <2>8. Queue!LeaveFile(l)
    BY <1>1, <2>4, <2>6, <2>7, QueueConstants DEF Queue!LeaveFile
  <2>9. CASE Skip
    <3>1. stage = "reading" /\ "read" \in IoFaults /\ UNCHANGED <<json, count>>
      BY <2>1, <2>4, <2>9 DEF Skip
    <3>2. UNCHANGED <<Writing, Stored, Recovered>>
      BY <1>5, <2>2, <3>1 DEF Recovered
    <3>3. Queue!SkipFile(l)
      BY <1>1, <2>2, <2>7, <2>8, <3>1, <3>2, QueueConstants DEF Queue!SkipFile
    <3>4. QED
      BY <1>1, <3>3, QueueConstants, Zenon DEF Queue!SpillNext
  <2>10. CASE Unlink
    <3>1. /\ stage = "unlinking" /\ DOMAIN json' = DOMAIN json \ {n} /\ count' = count - 1
      BY <2>1, <2>10 DEF Unlink, Minus
    <3>2. UNCHANGED Writing /\ n \in Stored /\ Stored' = Stored \ {n}
      BY <1>5, <2>2, <2>4, <3>1
    <3>3. /\ taken \in Seq(Ids) /\ taken # <<>> /\ Last(taken) = n
      BY <1>2, <1>6, <2>1, <2>4, <3>1 DEF RecoverTyped, ListingInv
    <3>4. Recovered' = Append(Recovered, n)
      <4>1. Recovered = Front(taken) /\ Recovered' = taken
        BY <2>2, <3>1 DEF Recovered
      <4>2. QED
        BY <3>3, <4>1, FrontAndLast
    <3>5. Queue!ReadFile(l)
      BY <1>1, <2>2, <2>6, <2>7, <2>8, <3>1, <3>2, <3>4, QueueConstants DEF Queue!ReadFile
    <3>6. QED
      BY <1>1, <3>5, QueueConstants, Zenon DEF Queue!SpillNext
  <2>11. ~UnlinkFails
    BY <1>2, <1>3, <1>4, <2>1, <2>4 DEF UnlinkFails, Strays, Pristine
  <2>12. QED
    BY <1>14, <2>9, <2>10, <2>11
<1>15. CASE Return
  <2>1. /\ stage = "done" /\ stage' = "none" /\ taken' = <<>>
        /\ UNCHANGED <<json, writes, count, lost, waitFor, listing>>
    BY <1>15 DEF Return, othersThanRecover
  <2>2. /\ Stage = "done" /\ Stage' = "none" /\ Recovered' = <<>>
        /\ UNCHANGED <<Writing, Stored>>
    BY <1>5, <2>1 DEF Stage, Recovered
  <2>3. Queue!EndRecover(l)
    BY <1>1, <2>1, <2>2, QueueConstants DEF Queue!EndRecover
  <2>4. [k \in Lanes |-> Stage][l] = "done"
    BY <2>2
  <2>5. QED
    BY <1>1, <2>3, <2>4, QueueConstants, Zenon DEF Queue!SpillNext
<1>16. CASE UNCHANGED vars
  <2>1. UNCHANGED <<Writing, Stored, Stage, Recovered, count, lost, waitFor, listing>>
    BY <1>16 DEF vars, fileVars, queueVars, recoverVars, Writing, Stored, Stage, Recovered
  <2>2. UNCHANGED Queue!spillVars
    BY <2>1 DEF Queue!spillVars
  <2>3. QED
    BY <2>2
<1>17. ~Clearing /\ ~Open
  BY <1>2, <1>3, <1>4, <1>6 DEF Clearing, ListNames, UnlinkName, Open, Pristine, ClearTyped
<1>18. QED
  BY <1>3, <1>7, <1>8, <1>9, <1>10, <1>11, <1>12, <1>13, <1>14, <1>15, <1>16, <1>17
     DEF Next, Recovering, ReaddirFails

\* Temporary files, renames and the gap between reading and unlinking a file
\* cannot be seen from a lane: the directory implements the queue.
THEOREM DirectoryImplementsQueue == Spec => ImplementsSpillQueue
<1>1. Init => Queue!SpillInit
  <2>1. SUFFICES ASSUME Init
                 PROVE  Queue!SpillInit
    OBVIOUS
  <2>2. /\ Writing = {} /\ Stored = {} /\ Stage = "none" /\ Recovered = <<>>
        /\ Range(listing) = {}
    BY <2>1 DEF Init, Writing, Stored, Stage, Recovered, Range
  <2>3. QED
    BY <2>1, <2>2, QueueConstants DEF Init, Queue!SpillInit
<1>2. DirectoryInv /\ ListingInv /\ PristineInv /\ [Next]_vars
      => [crashes' = 0 /\ ~left' /\ strays' = 0 => Queue!SpillNext]_(Queue!spillVars)
  BY QueueStep
<1>3. QED
  BY <1>1, <1>2, DirectoryInvariant, ListingInvariant, PristineInvariant, PTL
     DEF Spec, ImplementsSpillQueue
=============================================================================
