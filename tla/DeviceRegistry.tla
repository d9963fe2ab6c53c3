--------------------------- MODULE DeviceRegistry ----------------------------
(***************************************************************************)
(* devices.json, written by two processes: the worker (registry.js with     *)
(* stateFile.js) and the REST API (deviceRegistryRepo.js with                *)
(* registryFile.js).  Every change reads the file, edits the copy, writes    *)
(* it to one and the same `devices.json.tmp' and renames that over the file; *)
(* the calls are synchronous inside a process, but nothing holds back the    *)
(* other process between them.                                              *)
(*                                                                          *)
(* The file system is modelled by inodes: opening the temporary file         *)
(* truncates the inode it names or makes a new one, a write goes to the      *)
(* inode that was opened, and a rename moves the name.  A file of this size  *)
(* is one write(2), so an inode is either empty or holds one whole document. *)
(***************************************************************************)
EXTENDS Naturals

CONSTANTS
  Devices,
  MaxChanges, \* bound: changes in a behaviour
  Absent,   \* the entry of a device the document does not have
  Empty     \* the content of a truncated inode

Processes == {"worker", "api"}
Modes     == {"manual", "automatic"}
Entries   == [mode : Modes, online : BOOLEAN, relay : BOOLEAN]
Documents == [Devices -> Entries \union {Absent}]
Inodes    == 1 .. 3   \* the file, and one inode each process may hold open

\* The two sentinels stand for nothing else.
ASSUME ConstantsAssumption ==
  Absent \notin Entries /\ Empty \notin Documents /\ MaxChanges \in Nat

VARIABLES
  data,     \* the content of each inode
  fileName, \* the inode devices.json names
  tmpName,  \* the inode devices.json.tmp names, 0 when there is none
  step,     \* the next system call of each process, "idle" between changes
  fd,       \* the inode each process has open for writing, 0 when none
  mem,      \* the document in memory of each process; the worker keeps it
  target,   \* the change the API has under way: its device and outcome
  \* history
  promised, \* what the API last reported of each device
  happened, \* "raced": a change began while the other process was in one;
            \* "died": a process died in the middle of a change
  changes   \* count for the bound

disk  == <<data, fileName, tmpName>>
local == <<step, fd, mem, target>>
vars  == <<disk, local, promised, happened, changes>>

Outcomes == Modes \union {"removed"}

TypeOK ==
  /\ data \in [Inodes -> Documents \union {Empty}]
  /\ fileName \in Inodes /\ tmpName \in Inodes \union {0} /\ tmpName # fileName
  /\ step \in [Processes -> {"idle", "open", "write", "rename"}]
  /\ fd \in [Processes -> Inodes \union {0}]
  /\ \A p \in Processes : (fd[p] # 0) = (step[p] = "write")
  /\ mem \in [Processes -> Documents]
  /\ target \in [dev : Devices, outcome : Outcomes]
  /\ promised \in [Devices -> Outcomes \union {"unknown"}]
  /\ happened \subseteq {"raced", "died"}
  /\ changes \in 0 .. MaxChanges

NewEntry  == [mode |-> "manual", online |-> FALSE, relay |-> FALSE]
NoDevices == [d \in Devices |-> Absent]

Init ==
  /\ \E doc \in [Devices -> {Absent, NewEntry}] :
       /\ data = [i \in Inodes |-> IF i = 1 THEN doc ELSE Empty]
       /\ mem = [p \in Processes |-> IF p = "api" THEN NoDevices ELSE doc]
  /\ fileName = 1 /\ tmpName = 0
  /\ step = [p \in Processes |-> "idle"] /\ fd = [p \in Processes |-> 0]
  /\ target \in [dev : Devices, outcome : {"removed"}]
  /\ promised = [d \in Devices |-> "unknown"] /\ happened = {} /\ changes = 0

-----------------------------------------------------------------------------
(* Reading.  Both processes take an empty file for an empty registry.       *)

Stored == IF data[fileName] = Empty THEN NoDevices ELSE data[fileName]

Quiet == \A p \in Processes : step[p] = "idle"

\* p has read the file and edited its copy into doc.
Begin(p, doc) ==
  /\ mem' = [mem EXCEPT ![p] = doc]
  /\ step' = [step EXCEPT ![p] = "open"]
  /\ happened' = IF Quiet THEN happened ELSE happened \union {"raced"}
  /\ changes < MaxChanges /\ changes' = changes + 1
  /\ UNCHANGED <<disk, fd>>

-----------------------------------------------------------------------------
(* Changes of the worker.                                                   *)

\* Mutant of WorkerEdit: the copy in memory is edited without a fresh read.
EditCached(d, entry) ==
  /\ step["worker"] = "idle"
  /\ Stored[d] # Absent
  /\ Begin("worker", [mem["worker"] EXCEPT ![d] = entry])
  /\ UNCHANGED <<target, promised>>

\* touchSeen and setRelay read the file first, and edit it only when it has
\* the device; the copy in memory is refreshed in any case.
WorkerEdit(d, entry) ==
  /\ step["worker"] = "idle"
  /\ IF Stored[d] # Absent
     THEN Begin("worker", [Stored EXCEPT ![d] = entry])
     ELSE /\ mem' = [mem EXCEPT !["worker"] = Stored]
          /\ UNCHANGED <<disk, step, fd, happened, changes>>
  /\ UNCHANGED <<target, promised>>

TouchSeen(d, on) == WorkerEdit(d, [Stored[d] EXCEPT !.online = on])
SetRelay(d, on)  == WorkerEdit(d, [Stored[d] EXCEPT !.relay = on])

\* upsert, called by discovery for a device the copy in memory does not have.
Upsert(d) ==
  /\ step["worker"] = "idle"
  /\ mem["worker"][d] = Absent
  /\ Begin("worker",
           [Stored EXCEPT ![d] =
              [mode |-> "manual", online |-> TRUE,
               relay |-> IF @ = Absent THEN FALSE ELSE @.relay]])
  /\ promised' = [promised EXCEPT ![d] = IF @ = "removed" THEN "unknown" ELSE @]
  /\ UNCHANGED target

-----------------------------------------------------------------------------
(* Changes of the API; a device that is not there is answered with 404.     *)

ApiEdit(d, outcome, entry) ==
  /\ step["api"] = "idle"
  /\ Stored[d] # Absent
  /\ Begin("api", [Stored EXCEPT ![d] = entry])
  /\ target' = [dev |-> d, outcome |-> outcome]
  /\ promised' = [promised EXCEPT ![d] = "unknown"]

\* Mutant of Patch: the entry is written as a new one.
PatchAnew(d, m) == ApiEdit(d, m, [NewEntry EXCEPT !.mode = m])

Patch(d, m) == ApiEdit(d, m, [Stored[d] EXCEPT !.mode = m])
Remove(d)   == ApiEdit(d, "removed", Absent)

-----------------------------------------------------------------------------
(* saveJsonAtomic and writeRegistry.                                        *)

\* Mutant of OpenTmp: the file itself is opened for writing.
OpenInPlace(p) ==
  /\ step[p] = "open"
  /\ data' = [data EXCEPT ![fileName] = Empty]
  /\ fd' = [fd EXCEPT ![p] = fileName]
  /\ step' = [step EXCEPT ![p] = "write"]
  /\ UNCHANGED <<fileName, tmpName, mem, target, promised, happened, changes>>

\* open(tmp, O_CREAT | O_TRUNC)
OpenTmp(p) ==
  /\ step[p] = "open"
  /\ LET free == Inodes \ ({fileName} \union {fd[q] : q \in Processes})
         i    == IF tmpName # 0 THEN tmpName ELSE CHOOSE n \in free : TRUE
     IN  /\ data' = [data EXCEPT ![i] = Empty]
         /\ tmpName' = i
         /\ fd' = [fd EXCEPT ![p] = i]
  /\ step' = [step EXCEPT ![p] = "write"]
  /\ UNCHANGED <<fileName, mem, target, promised, happened, changes>>

\* write and close
WriteTmp(p) ==
  /\ step[p] = "write"
  /\ data' = [data EXCEPT ![fd[p]] = mem[p]]
  /\ fd' = [fd EXCEPT ![p] = 0]
  /\ step' = [step EXCEPT ![p] = "rename"]
  /\ UNCHANGED <<fileName, tmpName, mem, target, promised, happened, changes>>

\* The old file is gone with its last name, unless it is open.
FreeInode(i) == IF \E q \in Processes : fd[q] = i
                THEN data ELSE [data EXCEPT ![i] = Empty]

\* The worker keeps its document, the API reads a new one for each request.
DropCopy(p) == IF p = "api" THEN [mem EXCEPT ![p] = NoDevices] ELSE mem

\* rename(tmp, file); it throws when the other process has taken the name.
\* The API reports success only after a rename of its own.
Rename(p) ==
  /\ step[p] = "rename"
  /\ IF tmpName # 0
     THEN /\ fileName' = tmpName /\ tmpName' = 0
          /\ data' = FreeInode(fileName)
          /\ promised' = IF p = "api"
                         THEN [promised EXCEPT ![target.dev] = target.outcome]
                         ELSE promised
     ELSE UNCHANGED <<disk, promised>>
  /\ step' = [step EXCEPT ![p] = "idle"]
  /\ mem' = DropCopy(p)
  /\ UNCHANGED <<fd, target, happened, changes>>

\* The process dies and starts again; the worker loads the file.
Crash(p) ==
  /\ step[p] # "idle" /\ happened' = happened \union {"died"}
  /\ step' = [step EXCEPT ![p] = "idle"]
  /\ fd' = [fd EXCEPT ![p] = 0]
  /\ mem' = [mem EXCEPT ![p] = IF p = "api" THEN NoDevices ELSE Stored]
  /\ UNCHANGED <<disk, target, promised, changes>>

Next ==
  \/ \E d \in Devices : Upsert(d) \/ Remove(d)
  \/ \E d \in Devices, on \in BOOLEAN : TouchSeen(d, on) \/ SetRelay(d, on)
  \/ \E d \in Devices, m \in Modes : Patch(d, m)
  \/ \E p \in Processes : OpenTmp(p) \/ WriteTmp(p) \/ Rename(p) \/ Crash(p)

Spec == Init /\ [][Next]_vars

-----------------------------------------------------------------------------
(* The store of which the file is one implementation.                       *)

Store == INSTANCE RegistryStore
           WITH None <- Absent, doc <- Stored,
                overlapped <- ("raced" \in happened)

-----------------------------------------------------------------------------
(* Properties.                                                              *)

\* Whoever reads devices.json, at any moment and after any crash of a writer,
\* finds a whole document (stateFile.js:26-31; registryFile.js:4-5, 15-21),
\* unless the two processes saved at once, over the one temporary file; even then
\* it is whole again when both are done, if none of them died before its rename.
FileWhole ==
  /\ TypeOK
  /\ data[fileName] = Empty => "raced" \in happened /\ (Quiet => "died" \in happened)

\* What the API reported of a device stays in the file until the next API
\* change: the worker re-reads the file first so as not to overwrite it
\* (registry.js:52, 66; deviceRegistryRepo.js:46-65).  Not so when a change of
\* one process began while the other was in one.
ApiChangesKept ==
  Quiet /\ "raced" \notin happened => \A d \in Devices :
    /\ promised[d] \in Modes => Stored[d] # Absent /\ Stored[d].mode = promised[d]
    /\ promised[d] = "removed" => Stored[d] = Absent

\* To a reader of the file, all that opening, writing and renaming is one step
\* that changes one entry of the present document, in the fields its process owns:
\* neither process undoes what the other did before, a process that dies has
\* changed all or nothing, and only a device that is gone is registered anew.
\* So until changes overlap (registry.js:22-33, 51-76; stateFile.js:26-31;
\* deviceRegistryRepo.js:46-65).
ImplementsStore == Store!Spec
=============================================================================
