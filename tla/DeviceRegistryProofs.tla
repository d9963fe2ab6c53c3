------------------------- MODULE DeviceRegistryProofs -------------------------
(* Theorems about DeviceRegistry, for any set of devices and any number of    *)
(* changes.                                                                  *)
EXTENDS DeviceRegistry, TLAPS

-----------------------------------------------------------------------------
(* Types.                                                                   *)

\* What is read from the file is a document, even when the file is empty.
LEMMA StoredTyped ==
  ASSUME TypeOK
  PROVE  Stored \in Documents /\ NoDevices \in Documents
  BY DEF TypeOK, Stored, NoDevices, Documents

LEMMA StoredTypedNext ==
  ASSUME TypeOK'
  PROVE  Stored' \in Documents
  BY DEF TypeOK, Stored, NoDevices, Documents

\* The documents and the entries that changes make.
LEMMA Edited ==
  ASSUME NEW doc \in Documents, NEW d \in Devices, NEW entry \in Entries \union {Absent}
  PROVE  [doc EXCEPT ![d] = entry] \in Documents
  BY DEF Documents

LEMMA EditedEntry ==
  ASSUME NEW entry \in Entries, NEW on \in BOOLEAN, NEW m \in Modes
  PROVE  /\ [entry EXCEPT !.online = on] \in Entries
         /\ [entry EXCEPT !.relay = on] \in Entries
         /\ [entry EXCEPT !.mode = m] \in Entries
         /\ [entry EXCEPT !.online = on].mode = entry.mode
         /\ [entry EXCEPT !.relay = on].mode = entry.mode
         /\ [entry EXCEPT !.mode = m].mode = m
  BY DEF Entries

\* A step of a change leaves what the step does not name.
LEMMA BeginTyped ==
  ASSUME TypeOK, NEW p \in Processes, NEW doc \in Documents, step[p] = "idle", Begin(p, doc)
  PROVE  /\ UNCHANGED <<data, fileName, tmpName, fd>>
         /\ mem' = [mem EXCEPT ![p] = doc] /\ step' = [step EXCEPT ![p] = "open"]
         /\ mem' \in [Processes -> Documents]
         /\ step' \in [Processes -> {"idle", "open", "write", "rename"}]
         /\ \A q \in Processes : (fd'[q] # 0) = (step'[q] = "write")
         /\ happened' \subseteq {"raced", "died"} /\ changes' \in 0 .. MaxChanges
<1>1. /\ UNCHANGED <<data, fileName, tmpName, fd>>
      /\ mem' = [mem EXCEPT ![p] = doc] /\ step' = [step EXCEPT ![p] = "open"]
  BY DEF Begin, disk
<1>2. \A q \in Processes : (fd'[q] # 0) = (step'[q] = "write")
  BY <1>1 DEF TypeOK
<1>3. changes' \in 0 .. MaxChanges
  BY ConstantsAssumption DEF Begin, TypeOK
<1>4. happened' \subseteq {"raced", "died"}
  BY DEF Begin, TypeOK
<1> QED  BY <1>1, <1>2, <1>3, <1>4 DEF TypeOK

\* Edits of the worker: nothing but the copy in memory, or a change that begins.
LEMMA WorkerEdits ==
  ASSUME TypeOK, NEW d \in Devices, NEW on \in BOOLEAN, TouchSeen(d, on) \/ SetRelay(d, on)
  PROVE  /\ step["worker"] = "idle" /\ UNCHANGED <<target, promised>>
         /\ \/ \E entry \in Entries :
                 /\ Stored[d] # Absent /\ entry.mode = Stored[d].mode
                 /\ Begin("worker", [Stored EXCEPT ![d] = entry])
            \/ /\ mem' = [mem EXCEPT !["worker"] = Stored]
               /\ UNCHANGED <<disk, step, fd, happened, changes>>
<1>1. CASE Stored[d] # Absent
  <2>1. Stored[d] \in Entries
    BY <1>1, StoredTyped DEF Documents
  <2>2. CASE TouchSeen(d, on)
    BY <1>1, <2>1, <2>2, EditedEntry DEF TouchSeen, WorkerEdit, Modes
  <2>3. CASE SetRelay(d, on)
    BY <1>1, <2>1, <2>3, EditedEntry DEF SetRelay, WorkerEdit, Modes
  <2> QED  BY <2>2, <2>3
<1>2. CASE Stored[d] = Absent
  BY <1>2 DEF TouchSeen, SetRelay, WorkerEdit
<1> QED  BY <1>1, <1>2

\* Edits of the API: a change that begins with the outcome it aims at.
LEMMA ApiEdits ==
  ASSUME TypeOK, NEW d \in Devices, NEW m \in Modes, Patch(d, m) \/ Remove(d)
  PROVE  /\ step["api"] = "idle" /\ Stored[d] # Absent
         /\ promised' = [promised EXCEPT ![d] = "unknown"]
         /\ \E entry \in Entries \union {Absent}, outcome \in Outcomes :
              /\ Begin("api", [Stored EXCEPT ![d] = entry])
              /\ target' = [dev |-> d, outcome |-> outcome]
              /\ outcome \in Modes => entry # Absent /\ entry.mode = outcome
              /\ outcome = "removed" => entry = Absent
<1>1. CASE Patch(d, m)
  <2>1. Stored[d] \in Entries
    BY <1>1, StoredTyped DEF Patch, ApiEdit, Documents
  <2>2. [Stored[d] EXCEPT !.mode = m] \in Entries /\ [Stored[d] EXCEPT !.mode = m].mode = m
    BY <2>1, EditedEntry
  <2> QED  BY <1>1, <2>2, ConstantsAssumption DEF Patch, ApiEdit, Outcomes, Modes
<1>2. CASE Remove(d)
  BY <1>2 DEF Remove, ApiEdit, Outcomes, Modes
<1> QED  BY <1>1, <1>2

\* The entry of a device the worker has not seen before.
LEMMA Upserts ==
  ASSUME TypeOK, NEW d \in Devices, Upsert(d)
  PROVE  /\ step["worker"] = "idle" /\ mem["worker"][d] = Absent /\ target' = target
         /\ promised' = [promised EXCEPT ![d] = IF @ = "removed" THEN "unknown" ELSE @]
         /\ \E entry \in Entries : Begin("worker", [Stored EXCEPT ![d] = entry])
<1> DEFINE entry == [mode |-> "manual", online |-> TRUE,
                     relay |-> IF Stored[d] = Absent THEN FALSE ELSE Stored[d].relay]
<1>1. entry \in Entries
  BY StoredTyped DEF Documents, Entries, Modes
<1>2. Begin("worker", [Stored EXCEPT ![d] = entry])
  BY StoredTyped DEF Upsert, Documents
<1> QED  BY <1>1, <1>2 DEF Upsert

\* open(2) of the temporary file: an inode that is not the file, and that no one
\* else has open unless it was the temporary file before.
LEMMA Opened ==
  ASSUME TypeOK, NEW p \in Processes, OpenTmp(p)
  PROVE  /\ step[p] = "open" /\ tmpName' \in Inodes /\ tmpName' # fileName
         /\ data' = [data EXCEPT ![tmpName'] = Empty] /\ fd' = [fd EXCEPT ![p] = tmpName']
         /\ step' = [step EXCEPT ![p] = "write"]
         /\ UNCHANGED <<fileName, mem, target, promised, happened, changes>>
<1> DEFINE free == Inodes \ ({fileName} \union {fd[q] : q \in Processes})
<1>1. fd[p] = 0
  BY DEF OpenTmp, TypeOK
<1>2. \E n \in Inodes : n \in free
  <2>1. PICK q \in Processes : \A r \in Processes : r = p \/ r = q
    BY DEF Processes
  <2>2. \E n \in Inodes : n # fileName /\ n # fd[q] /\ n # 0
    BY DEF Inodes
  <2> QED  BY <1>1, <2>1, <2>2
<1>3. (CHOOSE n \in free : TRUE) \in free
  BY <1>2
<1>4. tmpName # 0 => tmpName \in Inodes /\ tmpName # fileName
  BY DEF TypeOK
<1> HIDE DEF free
<1>5. tmpName' = IF tmpName # 0 THEN tmpName ELSE CHOOSE n \in free : TRUE
  BY DEF OpenTmp, free
<1>6. tmpName' \in Inodes /\ tmpName' # fileName
  BY <1>3, <1>4, <1>5 DEF free
<1> QED  BY <1>6 DEF OpenTmp

\* rename(2) and the end of a process, by what they change.
LEMMA Renamed ==
  ASSUME TypeOK, NEW p \in Processes, Rename(p)
  PROVE  /\ step[p] = "rename" /\ step' = [step EXCEPT ![p] = "idle"]
         /\ mem' = DropCopy(p) /\ UNCHANGED <<fd, target, happened, changes>>
         /\ \/ /\ tmpName # 0 /\ fileName' = tmpName /\ tmpName' = 0
               /\ data' = data \/ data' = [data EXCEPT ![fileName] = Empty]
               /\ data' = data \/ \A q \in Processes : fd[q] # fileName
               /\ promised' = IF p = "api"
                              THEN [promised EXCEPT ![target.dev] = target.outcome]
                              ELSE promised
            \/ tmpName = 0 /\ UNCHANGED <<data, fileName, tmpName, promised>>
  BY DEF Rename, FreeInode, disk

\* Types of every variable, for any number of devices and changes.
THEOREM TypeCorrect == Spec => []TypeOK
<1>1. Init => TypeOK
  <2> SUFFICES ASSUME Init PROVE TypeOK
    OBVIOUS
  <2>1. PICK doc \in [Devices -> {Absent, NewEntry}] :
          /\ data = [i \in Inodes |-> IF i = 1 THEN doc ELSE Empty]
          /\ mem = [q \in Processes |-> IF q = "api" THEN NoDevices ELSE doc]
    BY DEF Init
  <2>2. doc \in Documents /\ NoDevices \in Documents
    <3>1. NewEntry \in Entries
      BY DEF NewEntry, Entries, Modes
    <3>2. \A d \in Devices : doc[d] \in Entries \union {Absent}
      BY <3>1
    <3> QED  BY <3>2 DEF Documents, NoDevices
  <2>3. data \in [Inodes -> Documents \union {Empty}] /\ mem \in [Processes -> Documents]
    BY <2>1, <2>2
  <2>4. fileName \in Inodes /\ tmpName \in Inodes \union {0} /\ tmpName # fileName
    BY DEF Init, Inodes
  <2>5. target \in [dev : Devices, outcome : Outcomes]
    BY DEF Init, Outcomes
  <2>6. changes \in 0 .. MaxChanges
    BY ConstantsAssumption DEF Init
  <2> QED  BY <2>3, <2>4, <2>5, <2>6 DEF Init, TypeOK
<1>2. ASSUME TypeOK, [Next]_vars PROVE TypeOK'
  <2> USE <1>2
  <2>1. ASSUME NEW d \in Devices, Upsert(d) PROVE TypeOK'
    <3>1. PICK entry \in Entries : Begin("worker", [Stored EXCEPT ![d] = entry])
      BY <2>1, Upserts
    <3>2. [Stored EXCEPT ![d] = entry] \in Documents /\ "worker" \in Processes
      BY StoredTyped, Edited DEF Processes
    <3>3. promised' \in [Devices -> Outcomes \union {"unknown"}] /\ target' = target
      BY <2>1, Upserts DEF TypeOK
    <3> QED  BY <2>1, <3>1, <3>2, <3>3, Upserts, BeginTyped DEF TypeOK
  <2>2. ASSUME NEW d \in Devices, NEW m \in Modes, Patch(d, m) \/ Remove(d) PROVE TypeOK'
    <3>1. PICK entry \in Entries \union {Absent}, outcome \in Outcomes :
            /\ Begin("api", [Stored EXCEPT ![d] = entry])
            /\ target' = [dev |-> d, outcome |-> outcome]
      BY <2>2, ApiEdits
    <3>2. [Stored EXCEPT ![d] = entry] \in Documents /\ "api" \in Processes
      BY StoredTyped, Edited DEF Processes
    <3>3. promised' \in [Devices -> Outcomes \union {"unknown"}]
      BY <2>2, ApiEdits DEF TypeOK
    <3> QED  BY <2>2, <3>1, <3>2, <3>3, ApiEdits, BeginTyped DEF TypeOK
  <2>3. ASSUME NEW d \in Devices, NEW on \in BOOLEAN, TouchSeen(d, on) \/ SetRelay(d, on)
        PROVE  TypeOK'
    <3>1. CASE \E entry \in Entries : Begin("worker", [Stored EXCEPT ![d] = entry])
      <4>1. PICK entry \in Entries : Begin("worker", [Stored EXCEPT ![d] = entry])
        BY <3>1
      <4>2. [Stored EXCEPT ![d] = entry] \in Documents /\ "worker" \in Processes
        BY StoredTyped, Edited DEF Processes
      <4> QED  BY <2>3, <4>1, <4>2, WorkerEdits, BeginTyped DEF TypeOK
    <3>2. CASE /\ mem' = [mem EXCEPT !["worker"] = Stored]
               /\ UNCHANGED <<disk, step, fd, happened, changes>>
      <4>1. UNCHANGED <<data, fileName, tmpName, step, fd, happened, changes, target, promised>>
        BY <2>3, <3>2, WorkerEdits DEF disk
      <4>2. mem' \in [Processes -> Documents]
        BY <3>2, StoredTyped DEF TypeOK
      <4>3. \A q \in Processes : (fd'[q] # 0) = (step'[q] = "write")
        BY <4>1 DEF TypeOK
      <4> QED  BY <4>1, <4>2, <4>3 DEF TypeOK
    <3> QED  BY <2>3, <3>1, <3>2, WorkerEdits
  <2>4. ASSUME NEW p \in Processes, OpenTmp(p) PROVE TypeOK'
    <3>1. 0 \notin Inodes
      BY DEF Inodes
    <3>2. \A q \in Processes : (fd'[q] # 0) = (step'[q] = "write")
      BY <2>4, <3>1, Opened DEF TypeOK
    <3>3. /\ data' \in [Inodes -> Documents \union {Empty}]
          /\ tmpName' \in Inodes \union {0} /\ tmpName' # fileName'
          /\ fd' \in [Processes -> Inodes \union {0}]
      BY <2>4, Opened DEF TypeOK
    <3>4. step' \in [Processes -> {"idle", "open", "write", "rename"}]
      BY <2>4, Opened DEF TypeOK
    <3> QED  BY <2>4, <3>2, <3>3, <3>4, Opened DEF TypeOK
  <2>5. ASSUME NEW p \in Processes, WriteTmp(p) PROVE TypeOK'
    BY <2>5 DEF WriteTmp, TypeOK
  <2>6. ASSUME NEW p \in Processes, Rename(p) PROVE TypeOK'
    <3>1. mem' \in [Processes -> Documents]
      BY <2>6, Renamed, StoredTyped DEF DropCopy, TypeOK
    <3>2. promised' \in [Devices -> Outcomes \union {"unknown"}]
      <4>1. target.dev \in Devices /\ target.outcome \in Outcomes
        BY DEF TypeOK
      <4> QED  BY <2>6, <4>1, Renamed DEF TypeOK
    <3>3. /\ data' \in [Inodes -> Documents \union {Empty}]
          /\ fileName' \in Inodes /\ tmpName' \in Inodes \union {0} /\ tmpName' # fileName'
      BY <2>6, Renamed DEF TypeOK, Inodes
    <3>4. \A q \in Processes : (fd'[q] # 0) = (step'[q] = "write")
      BY <2>6, Renamed DEF TypeOK
    <3> QED  BY <2>6, <3>1, <3>2, <3>3, <3>4, Renamed DEF TypeOK
  <2>7. ASSUME NEW p \in Processes, Crash(p) PROVE TypeOK'
    <3>1. \A q \in Processes : (fd'[q] # 0) = (step'[q] = "write")
      BY <2>7 DEF Crash, TypeOK
    <3> QED  BY <2>7, <3>1, StoredTyped DEF Crash, TypeOK, disk
  <2>8. CASE UNCHANGED vars
    BY <2>8 DEF vars, disk, local, TypeOK
  <2> QED  BY <2>1, <2>2, <2>3, <2>4, <2>5, <2>6, <2>7, <2>8 DEF Next, Modes
<1> QED  BY <1>1, <1>2, PTL DEF Spec

-----------------------------------------------------------------------------
(* The file is whole.                                                       *)

\* A process that has had the files to itself finds its document in the temporary
\* file and the file complete.
Alone ==
  "raced" \notin happened =>
    /\ data[fileName] # Empty
    /\ \A p, q \in Processes : p # q => step[p] = "idle" \/ step[q] = "idle"
    /\ \A p \in Processes : step[p] = "write" => fd[p] = tmpName
    /\ \A p \in Processes : step[p] = "rename" => tmpName # 0 /\ data[tmpName] = mem[p]

\* Whoever truncated a named inode is about to fill it, or has died.
Healing ==
  \A i \in {fileName, tmpName} \ {0} :
    data[i] = Empty => "died" \in happened \/ \E p \in Processes : fd[p] = i

\* A change that begins keeps both: it is alone, or the race is remembered.
LEMMA BeginAlone ==
  ASSUME TypeOK, Alone, Healing, NEW p \in Processes, NEW doc \in Documents,
         step[p] = "idle", Begin(p, doc)
  PROVE  /\ Alone' /\ Healing' /\ happened \subseteq happened'
         /\ "raced" \notin happened' => Quiet
<1>1. happened \subseteq happened' /\ ("raced" \notin happened' => Quiet)
  BY DEF Begin
<1>2. Alone'
  <2> SUFFICES ASSUME "raced" \notin happened' PROVE Alone'
    BY DEF Alone
  <2>1. "raced" \notin happened /\ \A q \in Processes : step[q] = "idle"
    BY <1>1 DEF Quiet
  <2>2. \A q \in Processes : step'[q] = IF q = p THEN "open" ELSE "idle"
    BY <2>1, BeginTyped DEF TypeOK
  <2> QED  BY <2>1, <2>2, BeginTyped DEF Alone
<1>3. Healing'
  BY <1>1, BeginTyped DEF Healing
<1> QED  BY <1>1, <1>2, <1>3

\* What a writer has left behind, whatever the other process and crashes did.
LEMMA AloneInvariant == Spec => [](Alone /\ Healing)
<1>1. Init => Alone /\ Healing
  <2> SUFFICES ASSUME Init PROVE Alone /\ Healing
    OBVIOUS
  <2>1. data[1] \in Documents /\ fileName = 1 /\ tmpName = 0 /\ 1 \in Inodes
    <3>1. NewEntry \in Entries
      BY DEF NewEntry, Entries, Modes
    <3>2. PICK doc \in [Devices -> {Absent, NewEntry}] :
            data = [i \in Inodes |-> IF i = 1 THEN doc ELSE Empty]
      BY DEF Init
    <3>3. \A d \in Devices : doc[d] \in Entries \union {Absent}
      BY <3>1
    <3> QED  BY <3>2, <3>3 DEF Init, Inodes, Documents
  <2>2. \A p \in Processes : step[p] = "idle"
    BY DEF Init
  <2> QED  BY <2>1, <2>2, ConstantsAssumption DEF Alone, Healing
<1>2. ASSUME TypeOK, TypeOK', Alone, Healing, [Next]_vars PROVE Alone' /\ Healing'
  <2> USE <1>2
  <2>1. ASSUME NEW d \in Devices, Upsert(d) PROVE Alone' /\ Healing'
    <3>1. PICK entry \in Entries : Begin("worker", [Stored EXCEPT ![d] = entry])
      BY <2>1, Upserts
    <3>2. [Stored EXCEPT ![d] = entry] \in Documents /\ "worker" \in Processes
      BY StoredTyped, Edited DEF Processes
    <3> QED  BY <2>1, <3>1, <3>2, Upserts, BeginAlone
  <2>2. ASSUME NEW d \in Devices, NEW m \in Modes, Patch(d, m) \/ Remove(d)
        PROVE  Alone' /\ Healing'
    <3>1. PICK entry \in Entries \union {Absent} : Begin("api", [Stored EXCEPT ![d] = entry])
      BY <2>2, ApiEdits
    <3>2. [Stored EXCEPT ![d] = entry] \in Documents /\ "api" \in Processes
      BY StoredTyped, Edited DEF Processes
    <3> QED  BY <2>2, <3>1, <3>2, ApiEdits, BeginAlone
  <2>3. ASSUME NEW d \in Devices, NEW on \in BOOLEAN, TouchSeen(d, on) \/ SetRelay(d, on)
        PROVE  Alone' /\ Healing'
    <3>1. CASE \E entry \in Entries : Begin("worker", [Stored EXCEPT ![d] = entry])
      <4>1. PICK entry \in Entries : Begin("worker", [Stored EXCEPT ![d] = entry])
        BY <3>1
      <4>2. [Stored EXCEPT ![d] = entry] \in Documents /\ "worker" \in Processes
        BY StoredTyped, Edited DEF Processes
      <4> QED  BY <2>3, <4>1, <4>2, WorkerEdits, BeginAlone
    <3>2. CASE /\ mem' = [mem EXCEPT !["worker"] = Stored]
               /\ UNCHANGED <<disk, step, fd, happened, changes>>
      <4>1. UNCHANGED <<data, fileName, tmpName, step, fd, happened>> /\ step["worker"] = "idle"
        BY <2>3, <3>2, WorkerEdits DEF disk
      <4>2. \A p \in Processes : step[p] = "rename" => mem'[p] = mem[p]
        BY <3>2, <4>1 DEF TypeOK
      <4> QED  BY <4>1, <4>2 DEF Alone, Healing
    <3> QED  BY <2>3, <3>1, <3>2, WorkerEdits
  <2>4. ASSUME NEW p \in Processes, OpenTmp(p) PROVE Alone' /\ Healing'
    <3>1. /\ tmpName' # fileName /\ tmpName' \in Inodes /\ UNCHANGED <<fileName, happened, mem>>
          /\ data' = [data EXCEPT ![tmpName'] = Empty] /\ fd' = [fd EXCEPT ![p] = tmpName']
          /\ step[p] = "open" /\ step' = [step EXCEPT ![p] = "write"]
      BY <2>4, Opened
    <3>2. data'[fileName] = data[fileName] /\ fd[p] = 0
      BY <3>1 DEF TypeOK
    <3>3. Alone'
      BY <3>1, <3>2 DEF Alone, TypeOK
    <3>4. Healing'
      <4>1. fileName # 0 /\ fd'[p] = tmpName'
        BY <3>1 DEF TypeOK, Inodes
      <4>2. \A q \in Processes : fd[q] = fileName => fd'[q] = fileName
        BY <3>1, <3>2, <4>1 DEF TypeOK
      <4> QED  BY <3>1, <3>2, <4>1, <4>2 DEF Healing
    <3> QED  BY <3>3, <3>4
  <2>5. ASSUME NEW p \in Processes, WriteTmp(p) PROVE Alone' /\ Healing'
    <3>1. /\ step[p] = "write" /\ step' = [step EXCEPT ![p] = "rename"]
          /\ data' = [data EXCEPT ![fd[p]] = mem[p]] /\ fd' = [fd EXCEPT ![p] = 0]
          /\ UNCHANGED <<fileName, tmpName, mem, happened>>
      BY <2>5 DEF WriteTmp
    <3>2. fd[p] \in Inodes /\ mem[p] # Empty
      BY <3>1, ConstantsAssumption DEF TypeOK
    <3>3. Alone'
      BY <3>1, <3>2 DEF Alone, TypeOK
    <3>4. Healing'
      BY <3>1, <3>2 DEF Healing, TypeOK
    <3> QED  BY <3>3, <3>4
  <2>6. ASSUME NEW p \in Processes, Rename(p) PROVE Alone' /\ Healing'
    <3>1. /\ step[p] = "rename" /\ step' = [step EXCEPT ![p] = "idle"]
          /\ UNCHANGED <<fd, happened>>
      BY <2>6, Renamed
    <3>2. \A q \in Processes : q # p /\ step[q] # "idle" => mem'[q] = mem[q]
      BY <2>6, Renamed DEF DropCopy, TypeOK
    <3>3. CASE tmpName = 0 /\ UNCHANGED <<data, fileName, tmpName>>
      BY <3>1, <3>2, <3>3 DEF Alone, Healing, TypeOK
    <3>4. CASE tmpName # 0 /\ fileName' = tmpName /\ tmpName' = 0
      <4>1. data'[tmpName] = data[tmpName]
        BY <2>6, <3>4, Renamed DEF TypeOK
      <4>2. Alone'
        <5> SUFFICES ASSUME "raced" \notin happened PROVE Alone'
          BY <3>1 DEF Alone
        <5>1. data'[fileName'] # Empty
          BY <3>1, <3>4, <4>1, ConstantsAssumption DEF Alone, TypeOK
        <5>2. \A q \in Processes : step'[q] = "idle"
          BY <3>1 DEF Alone, TypeOK
        <5> QED  BY <5>1, <5>2 DEF Alone
      <4>3. Healing'
        BY <3>1, <3>4, <4>1 DEF Healing, TypeOK
      <4> QED  BY <4>2, <4>3
    <3> QED  BY <2>6, <3>3, <3>4, Renamed
  <2>7. ASSUME NEW p \in Processes, Crash(p) PROVE Alone' /\ Healing'
    <3>1. /\ "died" \in happened' /\ happened' = happened \union {"died"}
          /\ step' = [step EXCEPT ![p] = "idle"] /\ fd' = [fd EXCEPT ![p] = 0]
          /\ UNCHANGED <<data, fileName, tmpName>>
          /\ \A q \in Processes : q # p => mem'[q] = mem[q]
      BY <2>7 DEF Crash, disk, TypeOK
    <3>2. \A q \in Processes : step'[q] # "idle" => q # p /\ step'[q] = step[q] /\ fd'[q] = fd[q]
      BY <3>1 DEF TypeOK
    <3> QED  BY <3>1, <3>2 DEF Alone, Healing
  <2>8. CASE UNCHANGED vars
    BY <2>8 DEF vars, disk, local, Alone, Healing
  <2> QED  BY <2>1, <2>2, <2>3, <2>4, <2>5, <2>6, <2>7, <2>8 DEF Next, Modes
<1> QED  BY <1>1, <1>2, TypeCorrect, PTL DEF Spec

\* FileWhole for any number of devices and changes: whoever reads devices.json
\* finds a document, unless two saves overlapped, and then again when both are done
\* and none died (stateFile.js:26-31; registryFile.js:15-21).
THEOREM FileStaysWhole == Spec => []FileWhole
<1>1. ASSUME TypeOK, Alone, Healing PROVE FileWhole
  <2> SUFFICES ASSUME data[fileName] = Empty
               PROVE  "raced" \in happened /\ (Quiet => "died" \in happened)
    BY <1>1 DEF FileWhole
  <2>1. "raced" \in happened
    BY <1>1 DEF Alone
  <2>2. fileName \in {fileName, tmpName} \ {0} /\ 0 \notin Inodes
    BY <1>1 DEF TypeOK, Inodes
  <2>3. ASSUME NEW p \in Processes, fd[p] = fileName, Quiet PROVE FALSE
    BY <1>1, <2>2, <2>3 DEF TypeOK, Quiet
  <2> QED  BY <1>1, <2>1, <2>2, <2>3 DEF Healing
<1> QED  BY <1>1, TypeCorrect, AloneInvariant, PTL

-----------------------------------------------------------------------------
(* What the API reported stays.                                             *)

\* The document agrees with what was reported of each device.
Keeps(doc, reports) ==
  \A d \in Devices :
    /\ reports[d] \in Modes => doc[d] # Absent /\ doc[d].mode = reports[d]
    /\ reports[d] = "removed" => doc[d] = Absent

\* While no changes overlap, the file keeps what was reported, and so does the
\* document each process is about to put in its place; what the API is about to
\* report is in its document.  A device the worker misses is not in the file.
Promise ==
  "raced" \notin happened =>
    /\ Keeps(Stored, promised)
    /\ \A d \in Devices : mem["worker"][d] = Absent => Stored[d] = Absent
    /\ step["worker"] # "idle" => Keeps(mem["worker"], promised)
    /\ step["api"] # "idle" =>
         /\ Keeps(mem["api"], [promised EXCEPT ![target.dev] = target.outcome])
         /\ \A d \in Devices : Stored[d] = Absent => mem["api"][d] = Absent

\* An edit of one entry, by the report it leaves on the device.
LEMMA KeepsEdited ==
  ASSUME NEW doc \in Documents, NEW reports \in [Devices -> Outcomes \union {"unknown"}],
         NEW later \in [Devices -> Outcomes \union {"unknown"}],
         NEW d \in Devices, NEW entry \in Entries \union {Absent},
         Keeps(doc, reports), \A e \in Devices : e # d => later[e] = reports[e],
         later[d] \in Modes => entry # Absent /\ entry.mode = later[d],
         later[d] = "removed" => entry = Absent
  PROVE  Keeps([doc EXCEPT ![d] = entry], later)
<1>1. \A e \in Devices : [doc EXCEPT ![d] = entry][e] = IF e = d THEN entry ELSE doc[e]
  BY DEF Documents
<1> SUFFICES ASSUME NEW e \in Devices
             PROVE  LET now == [doc EXCEPT ![d] = entry][e]
                    IN /\ later[e] \in Modes => now # Absent /\ now.mode = later[e]
                       /\ later[e] = "removed" => now = Absent
  BY DEF Keeps
<1>2. CASE e = d
  BY <1>1, <1>2
<1>3. CASE e # d
  BY <1>1, <1>3 DEF Keeps
<1> QED  BY <1>2, <1>3

\* The worker begins a change while all is quiet.
LEMMA WorkerBegins ==
  ASSUME TypeOK, TypeOK', Promise, NEW d \in Devices, NEW entry \in Entries,
         "raced" \notin happened', step["worker"] = "idle",
         Begin("worker", [Stored EXCEPT ![d] = entry]),
         Keeps(Stored, promised'), Keeps([Stored EXCEPT ![d] = entry], promised')
  PROVE  Promise'
<1>1. "worker" \in Processes /\ "api" \in Processes
  BY DEF Processes
<1>2. "raced" \notin happened /\ step["api"] = "idle"
  BY <1>1 DEF Begin, Quiet
<1>3. [Stored EXCEPT ![d] = entry] \in Documents
  BY StoredTyped, Edited
<1>4. /\ UNCHANGED <<data, fileName>> /\ mem'["worker"] = [Stored EXCEPT ![d] = entry]
      /\ step'["api"] = "idle"
  BY <1>1, <1>2, <1>3, BeginTyped DEF TypeOK
<1>5. Stored' = Stored
  BY <1>4 DEF Stored
<1>6. \A e \in Devices : [Stored EXCEPT ![d] = entry][e] = IF e = d THEN entry ELSE Stored[e]
  BY StoredTyped DEF Documents
<1>7. \A e \in Devices : mem'["worker"][e] = Absent => Stored[e] = Absent
  BY <1>4, <1>6, ConstantsAssumption
<1> QED  BY <1>4, <1>5, <1>7 DEF Promise

\* The reports hold of the file and of every document under way.
LEMMA PromiseInvariant == Spec => []Promise
<1>1. Init => Promise
  <2> SUFFICES ASSUME Init PROVE Promise
    OBVIOUS
  <2>1. PICK doc \in [Devices -> {Absent, NewEntry}] :
          /\ data = [i \in Inodes |-> IF i = 1 THEN doc ELSE Empty]
          /\ mem = [q \in Processes |-> IF q = "api" THEN NoDevices ELSE doc]
    BY DEF Init
  <2>2. fileName = 1 /\ 1 \in Inodes /\ "worker" \in Processes /\ "api" \in Processes
    BY DEF Init, Inodes, Processes
  <2>3. Stored = doc \/ Stored = NoDevices
    BY <2>1, <2>2 DEF Stored
  <2>4. \A d \in Devices : mem["worker"][d] = Absent => Stored[d] = Absent
    BY <2>1, <2>2, <2>3 DEF NoDevices
  <2>5. Keeps(Stored, promised)
    BY DEF Init, Keeps, Modes
  <2> QED  BY <2>2, <2>4, <2>5 DEF Promise, Init
<1>2. ASSUME TypeOK, TypeOK', Alone, Promise, [Next]_vars PROVE Promise'
  <2> SUFFICES ASSUME "raced" \notin happened' PROVE Promise'
    BY DEF Promise
  <2> USE <1>2
  <2>w. "worker" \in Processes /\ "api" \in Processes /\ Processes = {"worker", "api"}
    BY DEF Processes
  <2>1. ASSUME NEW d \in Devices, Upsert(d) PROVE Promise'
    <3>1. PICK entry \in Entries : Begin("worker", [Stored EXCEPT ![d] = entry])
      BY <2>1, Upserts
    <3>2. "raced" \notin happened
      BY <3>1 DEF Begin
    <3>3. promised[d] \notin Modes /\ promised'[d] = "unknown"
      BY <2>1, <3>2, Upserts DEF Promise, Keeps, TypeOK, Outcomes
    <3>4. \A e \in Devices : e # d => promised'[e] = promised[e]
      BY <2>1, Upserts DEF TypeOK
    <3>5. Keeps(Stored, promised')
      BY <3>2, <3>3, <3>4 DEF Promise, Keeps, Modes
    <3>6. Keeps([Stored EXCEPT ![d] = entry], promised')
      <4>1. Keeps(Stored, promised) /\ Stored \in Documents
        BY <3>2, StoredTyped DEF Promise
      <4>2. /\ promised \in [Devices -> Outcomes \union {"unknown"}]
            /\ promised' \in [Devices -> Outcomes \union {"unknown"}]
            /\ promised'[d] \notin Modes /\ promised'[d] # "removed"
        BY <3>3 DEF TypeOK, Modes
      <4> QED  BY <3>4, <4>1, <4>2, KeepsEdited
    <3> QED  BY <2>1, <3>1, <3>5, <3>6, Upserts, WorkerBegins
  <2>2. ASSUME NEW d \in Devices, NEW m \in Modes, Patch(d, m) \/ Remove(d) PROVE Promise'
    <3>1. PICK entry \in Entries \union {Absent}, outcome \in Outcomes :
            /\ Begin("api", [Stored EXCEPT ![d] = entry])
            /\ target' = [dev |-> d, outcome |-> outcome]
            /\ outcome \in Modes => entry # Absent /\ entry.mode = outcome
            /\ outcome = "removed" => entry = Absent
      BY <2>2, ApiEdits
    <3>2. "raced" \notin happened /\ step["worker"] = "idle"
      BY <3>1, <2>w DEF Begin, Quiet
    <3>3. promised' = [promised EXCEPT ![d] = "unknown"] /\ Stored[d] # Absent /\ step["api"] = "idle"
      BY <2>2, ApiEdits
    <3>4. /\ [Stored EXCEPT ![d] = entry] \in Documents
          /\ \A e \in Devices : [Stored EXCEPT ![d] = entry][e] = IF e = d THEN entry ELSE Stored[e]
      BY StoredTyped, Edited DEF Documents
    <3>5. /\ UNCHANGED <<data, fileName>> /\ mem'["worker"] = mem["worker"]
          /\ mem'["api"] = [Stored EXCEPT ![d] = entry] /\ step'["worker"] = "idle"
      BY <3>1, <3>2, <3>3, <3>4, <2>w, BeginTyped DEF TypeOK
    <3>6. Stored' = Stored
      BY <3>5 DEF Stored
    <3>7. Keeps(Stored, promised')
      BY <3>2, <3>3 DEF Promise, Keeps, TypeOK, Modes
    <3>8. Keeps(mem'["api"], [promised' EXCEPT ![target'.dev] = target'.outcome])
      <4> DEFINE later == [promised' EXCEPT ![d] = outcome]
      <4>1. /\ later \in [Devices -> Outcomes \union {"unknown"}] /\ later[d] = outcome
            /\ \A e \in Devices : e # d => later[e] = promised[e]
        BY <3>3 DEF TypeOK
      <4>2. Keeps([Stored EXCEPT ![d] = entry], later)
        <5> HIDE DEF later
        <5>1. Keeps(Stored, promised) /\ Stored \in Documents
          BY <3>2, StoredTyped DEF Promise
        <5>2. promised \in [Devices -> Outcomes \union {"unknown"}]
          BY DEF TypeOK
        <5> QED  BY <4>1, <3>1, <5>1, <5>2, KeepsEdited
      <4> QED  BY <4>2, <3>1, <3>5
    <3>9. \A e \in Devices : Stored[e] = Absent => mem'["api"][e] = Absent
      BY <3>3, <3>4, <3>5
    <3> QED  BY <3>2, <3>5, <3>6, <3>7, <3>8, <3>9 DEF Promise
  <2>3. ASSUME NEW d \in Devices, NEW on \in BOOLEAN, TouchSeen(d, on) \/ SetRelay(d, on)
        PROVE  Promise'
    <3>1. CASE \E entry \in Entries :
                 /\ Stored[d] # Absent /\ entry.mode = Stored[d].mode
                 /\ Begin("worker", [Stored EXCEPT ![d] = entry])
      <4>1. PICK entry \in Entries :
                 /\ Stored[d] # Absent /\ entry.mode = Stored[d].mode
                 /\ Begin("worker", [Stored EXCEPT ![d] = entry])
        BY <3>1
      <4>2. "raced" \notin happened /\ promised' = promised /\ step["worker"] = "idle"
        BY <2>3, <4>1, WorkerEdits DEF Begin
      <4>3. Keeps(Stored, promised)
        BY <4>2 DEF Promise
      <4>4. /\ promised[d] \in Modes => entry # Absent /\ entry.mode = promised[d]
            /\ promised[d] # "removed"
        BY <4>1, <4>3, ConstantsAssumption DEF Keeps
      <4>5. Keeps([Stored EXCEPT ![d] = entry], promised)
        BY <4>3, <4>4, KeepsEdited, StoredTyped DEF TypeOK
      <4> QED  BY <4>1, <4>2, <4>3, <4>5, WorkerBegins
    <3>2. CASE /\ mem' = [mem EXCEPT !["worker"] = Stored]
               /\ UNCHANGED <<disk, step, fd, happened, changes>>
      <4>1. /\ UNCHANGED <<data, fileName, step, happened, target, promised>>
            /\ step["worker"] = "idle"
        BY <2>3, <3>2, WorkerEdits DEF disk
      <4>2. Stored' = Stored /\ mem'["worker"] = Stored /\ mem'["api"] = mem["api"]
        BY <3>2, <4>1, <2>w DEF Stored, TypeOK
      <4> QED  BY <4>1, <4>2 DEF Promise
    <3> QED  BY <2>3, <3>1, <3>2, WorkerEdits
  <2>4. ASSUME NEW p \in Processes, OpenTmp(p) PROVE Promise'
    <3>1. /\ UNCHANGED <<fileName, mem, target, promised, happened>>
          /\ data'[fileName] = data[fileName]
          /\ step[p] = "open" /\ step' = [step EXCEPT ![p] = "write"]
      BY <2>4, Opened DEF TypeOK
    <3>2. Stored' = Stored /\ \A q \in Processes : step'[q] # "idle" => step[q] # "idle"
      BY <3>1 DEF Stored, TypeOK
    <3> QED  BY <3>1, <3>2, <2>w DEF Promise
  <2>5. ASSUME NEW p \in Processes, WriteTmp(p) PROVE Promise'
    <3>1. /\ UNCHANGED <<fileName, tmpName, mem, target, promised, happened>>
          /\ data' = [data EXCEPT ![fd[p]] = mem[p]]
          /\ step[p] = "write" /\ step' = [step EXCEPT ![p] = "rename"]
      BY <2>5 DEF WriteTmp
    <3>2. fd[p] = tmpName /\ tmpName # fileName /\ data'[fileName] = data[fileName]
      BY <3>1 DEF Alone, TypeOK
    <3>3. Stored' = Stored /\ \A q \in Processes : step'[q] # "idle" => step[q] # "idle"
      BY <3>1, <3>2 DEF Stored, TypeOK
    <3> QED  BY <3>1, <3>3, <2>w DEF Promise
  <2>6. ASSUME NEW p \in Processes, Rename(p) PROVE Promise'
    <3>1. /\ step[p] = "rename" /\ step' = [step EXCEPT ![p] = "idle"]
          /\ UNCHANGED <<target, happened>> /\ mem' = DropCopy(p)
          /\ tmpName # 0 /\ data[tmpName] = mem[p]
      BY <2>6, Renamed DEF Alone
    <3>2. /\ fileName' = tmpName
          /\ promised' = IF p = "api" THEN [promised EXCEPT ![target.dev] = target.outcome]
                         ELSE promised
          /\ data' = data \/ data' = [data EXCEPT ![fileName] = Empty]
      BY <2>6, <3>1, Renamed
    <3>3. mem[p] \in Documents /\ data'[tmpName] = mem[p]
      BY <3>1, <3>2 DEF TypeOK
    <3>4. Stored' = mem[p]
      BY <3>2, <3>3, ConstantsAssumption DEF Stored
    <3>5. \A q \in Processes : step'[q] = "idle"
      BY <3>1 DEF Alone, TypeOK
    <3>6. mem'["worker"] = mem["worker"]
      BY <3>1, <2>w DEF DropCopy, TypeOK
    <3>7. CASE p = "api"
      <4>1. Keeps(mem["api"], promised') /\ \A d \in Devices : Stored[d] = Absent => mem["api"][d] = Absent
        BY <3>1, <3>2, <3>7 DEF Promise
      <4>2. \A d \in Devices : mem["worker"][d] = Absent => mem["api"][d] = Absent
        BY <3>1, <4>1 DEF Promise
      <4> QED  BY <3>4, <3>5, <3>6, <3>7, <4>1, <4>2, <2>w DEF Promise
    <3>8. CASE p = "worker"
      <4>1. Keeps(mem["worker"], promised')
        BY <3>1, <3>2, <3>8 DEF Promise
      <4> QED  BY <3>4, <3>5, <3>6, <3>8, <4>1, <2>w DEF Promise
    <3> QED  BY <3>7, <3>8, <2>w
  <2>7. ASSUME NEW p \in Processes, Crash(p) PROVE Promise'
    <3>1. /\ UNCHANGED <<data, fileName, target, promised>>
          /\ step' = [step EXCEPT ![p] = "idle"] /\ "raced" \notin happened
          /\ mem' = [mem EXCEPT ![p] = IF p = "api" THEN NoDevices ELSE Stored]
      BY <2>7 DEF Crash, disk
    <3>2. Stored' = Stored
      BY <3>1 DEF Stored
    <3>3. CASE p = "api"
      <4>1. mem'["worker"] = mem["worker"] /\ step'["worker"] = step["worker"] /\ step'["api"] = "idle"
        BY <3>1, <3>3, <2>w DEF TypeOK
      <4> QED  BY <3>1, <3>2, <4>1 DEF Promise
    <3>4. CASE p = "worker"
      <4>1. /\ mem'["worker"] = Stored /\ mem'["api"] = mem["api"]
            /\ step'["api"] = step["api"] /\ step'["worker"] = "idle"
        BY <3>1, <3>4, <2>w DEF TypeOK
      <4> QED  BY <3>1, <3>2, <4>1 DEF Promise
    <3> QED  BY <3>3, <3>4, <2>w
  <2>8. CASE UNCHANGED vars
    BY <2>8 DEF vars, disk, local, Promise, Keeps, Stored
  <2> QED  BY <2>1, <2>2, <2>3, <2>4, <2>5, <2>6, <2>7, <2>8 DEF Next, Modes
<1> QED  BY <1>1, <1>2, TypeCorrect, AloneInvariant, PTL DEF Spec

\* ApiChangesKept for any number of devices and changes: while no two changes
\* overlap, what the API reported of a device is what the file says of it
\* (registry.js:52, 66; deviceRegistryRepo.js:46-65).
THEOREM ChangesAreKept == Spec => []ApiChangesKept
<1>1. Promise => ApiChangesKept
  BY DEF Promise, Keeps, ApiChangesKept
<1> QED  BY <1>1, PromiseInvariant, PTL

-----------------------------------------------------------------------------
(* The file implements the store.                                           *)

\* What a process may make of an entry, see RegistryStore.
Allowed(old, new) ==
  \/ old = Absent /\ new = Store!NewEntry(TRUE)
  \/ old # Absent /\ \/ \E on \in BOOLEAN : \/ new = [old EXCEPT !.online = on]
                                            \/ new = [old EXCEPT !.relay = on]
                     \/ \E m \in Modes : new = [old EXCEPT !.mode = m]
                     \/ new = Absent

OneEdit(doc) ==
  \E d \in Devices, entry \in Entries \union {Absent} :
    Allowed(Stored[d], entry) /\ doc = [Stored EXCEPT ![d] = entry]

\* While no changes overlap, whoever is in the middle of one holds the document
\* of the file but for one entry.
Prepared ==
  "raced" \notin happened => \A p \in Processes : step[p] # "idle" => OneEdit(mem[p])

\* Such an edit, made in one step, is a step of the store.
LEMMA OneEditIsStep ==
  ASSUME TypeOK, OneEdit(Stored'), UNCHANGED happened
  PROVE  Store!Next
<1>1. PICK d \in Devices, entry \in Entries \union {Absent} :
        Allowed(Stored[d], entry) /\ Stored' = [Stored EXCEPT ![d] = entry]
  BY DEF OneEdit
<1>2. CASE Stored[d] = Absent /\ entry = Store!NewEntry(TRUE)
  BY <1>1, <1>2 DEF Store!Next, Store!Register, Store!Becomes
<1>3. ASSUME Stored[d] # Absent, NEW on \in BOOLEAN,
             entry = [Stored[d] EXCEPT !.online = on] \/ entry = [Stored[d] EXCEPT !.relay = on]
      PROVE  Store!Next
  BY <1>1, <1>3 DEF Store!Next, Store!Report, Store!Becomes
<1>4. ASSUME Stored[d] # Absent,
             (\E m \in Modes : entry = [Stored[d] EXCEPT !.mode = m]) \/ entry = Absent
      PROVE  Store!Next
  BY <1>1, <1>4 DEF Store!Next, Store!Choose, Store!Becomes
<1> QED  BY <1>1, <1>2, <1>3, <1>4 DEF Allowed

\* A change that begins alone has made one edit.
LEMMA BeginPrepared ==
  ASSUME TypeOK, Prepared, NEW p \in Processes, NEW d \in Devices,
         NEW entry \in Entries \union {Absent},
         Allowed(Stored[d], entry), step[p] = "idle",
         Begin(p, [Stored EXCEPT ![d] = entry])
  PROVE  Prepared' /\ Stored' = Stored
<1>1. [Stored EXCEPT ![d] = entry] \in Documents
  BY StoredTyped, Edited
<1>2. /\ UNCHANGED <<data, fileName>> /\ step' = [step EXCEPT ![p] = "open"]
      /\ mem' = [mem EXCEPT ![p] = [Stored EXCEPT ![d] = entry]]
  BY <1>1, BeginTyped
<1>3. Stored' = Stored
  BY <1>2 DEF Stored
<1>4. ASSUME "raced" \notin happened', NEW q \in Processes, step'[q] # "idle"
      PROVE  OneEdit(mem[q])'
  <2>1. \A r \in Processes : step[r] = "idle"
    BY <1>4 DEF Begin, Quiet
  <2>2. q = p
    BY <1>2, <1>4, <2>1 DEF TypeOK
  <2>3. mem'[q] = [Stored' EXCEPT ![d] = entry] /\ Allowed(Stored'[d], entry)
    BY <1>2, <1>3, <2>2 DEF TypeOK
  <2> QED  BY <2>3 DEF OneEdit
<1> QED  BY <1>3, <1>4 DEF Prepared


\* The edits of those still at work are edits of the file as long as it is the same.
LEMMA StaysPrepared ==
  ASSUME Prepared, Stored' = Stored, "raced" \notin happened,
         \A q \in Processes : step'[q] # "idle" => step[q] # "idle" /\ mem'[q] = mem[q]
  PROVE  Prepared'
<1> SUFFICES ASSUME NEW q \in Processes, step'[q] # "idle"
             PROVE  OneEdit(mem[q])'
  BY DEF Prepared
<1>1. PICK d \in Devices, entry \in Entries \union {Absent} :
        Allowed(Stored[d], entry) /\ mem[q] = [Stored EXCEPT ![d] = entry]
  BY DEF Prepared, OneEdit
<1>2. Allowed(Stored'[d], entry) /\ mem'[q] = [Stored' EXCEPT ![d] = entry]
  BY <1>1
<1> QED  BY <1>2 DEF OneEdit

\* What a change that begins does to the store: nothing, unless it overlaps.
LEMMA BeginIsStep ==
  ASSUME TypeOK, TypeOK', Prepared, NEW p \in Processes, NEW d \in Devices,
         NEW entry \in Entries \union {Absent},
         "raced" \notin happened => Allowed(Stored[d], entry), step[p] = "idle",
         Begin(p, [Stored EXCEPT ![d] = entry])
  PROVE  Prepared' /\ [Store!Next]_<<Stored, "raced" \in happened>>
<1>1. CASE "raced" \in happened'
  <2>1. Prepared'
    BY <1>1 DEF Prepared
  <2>2. Store!Overlap
    BY <1>1, StoredTyped, StoredTypedNext DEF Store!Overlap, Store!Documents, Documents
  <2> QED  BY <2>1, <2>2 DEF Store!Next
<1>2. CASE "raced" \notin happened'
  <2>1. "raced" \notin happened
    BY <1>2 DEF Begin
  <2>2. Prepared' /\ Stored' = Stored
    BY <2>1, BeginPrepared
  <2> QED  BY <1>2, <2>1, <2>2
<1> QED  BY <1>1, <1>2

\* The steps of the file system and the end of a process.
LEMMA CallIsStep ==
  ASSUME TypeOK, TypeOK', Alone, Prepared, NEW p \in Processes,
         OpenTmp(p) \/ WriteTmp(p) \/ Rename(p) \/ Crash(p)
  PROVE  Prepared' /\ [Store!Next]_<<Stored, "raced" \in happened>>
<1>1. ("raced" \in happened') = ("raced" \in happened)
  BY DEF OpenTmp, WriteTmp, Rename, Crash
<1>2. CASE "raced" \in happened
  <2>1. Prepared'
    BY <1>1, <1>2 DEF Prepared
  <2>2. Store!Overlap
    BY <1>1, <1>2, StoredTypedNext DEF Store!Overlap, Store!Documents, Documents
  <2> QED  BY <2>1, <2>2 DEF Store!Next
<1>3. CASE "raced" \notin happened
  <2> USE <1>3
  <2>1. \A q, r \in Processes : q # r => step[q] = "idle" \/ step[r] = "idle"
    BY DEF Alone
  <2>2. CASE OpenTmp(p) \/ WriteTmp(p)
    <3>1. /\ UNCHANGED <<fileName, mem>> /\ data'[fileName] = data[fileName]
          /\ \A q \in Processes : step'[q] # "idle" => step[q] # "idle"
      <4>1. CASE OpenTmp(p)
        BY <4>1, Opened DEF TypeOK
      <4>2. CASE WriteTmp(p)
        <5>1. fd[p] = tmpName /\ tmpName # fileName
          BY <4>2 DEF WriteTmp, Alone, TypeOK
        <5> QED  BY <4>2, <5>1 DEF WriteTmp, TypeOK
      <4> QED  BY <2>2, <4>1, <4>2
    <3>2. Stored' = Stored
      BY <3>1 DEF Stored
    <3>3. Prepared'
      BY <3>1, <3>2, StaysPrepared
    <3> QED  BY <1>1, <3>2, <3>3
  <2>3. CASE Rename(p)
    <3>1. /\ step[p] = "rename" /\ step' = [step EXCEPT ![p] = "idle"]
          /\ tmpName # 0 /\ data[tmpName] = mem[p] /\ happened' = happened
      BY <2>3, Renamed DEF Alone
    <3>2. fileName' = tmpName /\ (data' = data \/ data' = [data EXCEPT ![fileName] = Empty])
      BY <2>3, <3>1, Renamed
    <3>3. mem[p] \in Documents /\ data'[tmpName] = mem[p]
      BY <3>1, <3>2 DEF TypeOK
    <3>4. Stored' = mem[p]
      BY <3>2, <3>3, ConstantsAssumption DEF Stored
    <3>5. OneEdit(Stored')
      BY <3>1, <3>4 DEF Prepared
    <3>6. \A q \in Processes : step'[q] = "idle"
      BY <2>1, <3>1 DEF TypeOK
    <3>7. Prepared'
      BY <3>6 DEF Prepared
    <3> QED  BY <3>1, <3>5, <3>7, OneEditIsStep
  <2>4. CASE Crash(p)
    <3>1. /\ UNCHANGED <<data, fileName>> /\ step' = [step EXCEPT ![p] = "idle"]
          /\ \A q \in Processes : q # p => mem'[q] = mem[q]
      BY <2>4 DEF Crash, disk, TypeOK
    <3>2. Stored' = Stored
      BY <3>1 DEF Stored
    <3>3. \A q \in Processes : step'[q] # "idle" => q # p /\ step[q] # "idle"
      BY <3>1 DEF TypeOK
    <3>4. Prepared'
      BY <3>1, <3>2, <3>3, StaysPrepared
    <3> QED  BY <1>1, <3>2, <3>4
  <2> QED  BY <2>2, <2>3, <2>4
<1> QED  BY <1>2, <1>3

\* ImplementsStore for any devices and any number of changes: to a reader, worker
\* and API change one register, an entry at a time, until two changes overlap
\* (registry.js:22-76; stateFile.js:26-31; deviceRegistryRepo.js:46-65).
THEOREM FileIsStore == Spec => ImplementsStore
<1>1. Init => Store!Init /\ Prepared
  <2> SUFFICES ASSUME Init PROVE Store!Init /\ Prepared
    OBVIOUS
  <2>1. PICK doc \in [Devices -> {Absent, NewEntry}] :
          data = [n \in Inodes |-> IF n = 1 THEN doc ELSE Empty]
    BY DEF Init
  <2>2. Stored \in [Devices -> {Absent, NewEntry}]
    BY <2>1 DEF Init, Stored, NoDevices, Inodes
  <2> QED  BY <2>2 DEF Init, Store!Init, Store!NewEntry, NewEntry, Prepared
<1>2. ASSUME TypeOK, TypeOK', Alone, Promise, Prepared, [Next]_vars
      PROVE  Prepared' /\ [Store!Next]_<<Stored, "raced" \in happened>>
  <2> USE <1>2
  <2>1. ASSUME NEW d \in Devices, Upsert(d)
        PROVE  Prepared' /\ [Store!Next]_<<Stored, "raced" \in happened>>
    <3> DEFINE entry == [mode |-> "manual", online |-> TRUE,
                         relay |-> IF Stored[d] = Absent THEN FALSE ELSE Stored[d].relay]
    <3>1. entry \in Entries /\ "worker" \in Processes
      BY StoredTyped DEF Documents, Entries, Modes, Processes
    <3>2. Begin("worker", [Stored EXCEPT ![d] = entry]) /\ step["worker"] = "idle"
      BY <2>1, StoredTyped DEF Upsert, Documents
    <3>3. "raced" \notin happened => Allowed(Stored[d], entry)
      <4>1. "raced" \notin happened => Stored[d] = Absent
        BY <2>1 DEF Upsert, Promise
      <4>2. ASSUME Stored[d] = Absent PROVE entry = Store!NewEntry(TRUE)
        BY <4>2 DEF Store!NewEntry
      <4> HIDE DEF entry
      <4> QED  BY <4>1, <4>2 DEF Allowed
    <3> QED  BY <3>1, <3>2, <3>3, BeginIsStep
  <2>2. ASSUME NEW d \in Devices, NEW m \in Modes, Patch(d, m)
        PROVE  Prepared' /\ [Store!Next]_<<Stored, "raced" \in happened>>
    <3> DEFINE entry == [Stored[d] EXCEPT !.mode = m]
    <3>1. Stored[d] # Absent /\ step["api"] = "idle" /\ Begin("api", [Stored EXCEPT ![d] = entry])
      BY <2>2 DEF Patch, ApiEdit
    <3>2. entry \in Entries /\ Allowed(Stored[d], entry) /\ "api" \in Processes
      BY <3>1, StoredTyped, EditedEntry DEF Documents, Allowed, Processes
    <3> QED  BY <3>1, <3>2, BeginIsStep
  <2>3. ASSUME NEW d \in Devices, Remove(d)
        PROVE  Prepared' /\ [Store!Next]_<<Stored, "raced" \in happened>>
    <3>1. /\ Stored[d] # Absent /\ step["api"] = "idle"
          /\ Begin("api", [Stored EXCEPT ![d] = Absent])
      BY <2>3 DEF Remove, ApiEdit
    <3>2. Allowed(Stored[d], Absent) /\ "api" \in Processes
      BY <3>1 DEF Allowed, Processes
    <3> QED  BY <3>1, <3>2, BeginIsStep
  <2>4. ASSUME NEW d \in Devices, NEW on \in BOOLEAN, TouchSeen(d, on) \/ SetRelay(d, on)
        PROVE  Prepared' /\ [Store!Next]_<<Stored, "raced" \in happened>>
    <3>1. PICK entry \in {[Stored[d] EXCEPT !.online = on], [Stored[d] EXCEPT !.relay = on]} :
            WorkerEdit(d, entry)
      BY <2>4 DEF TouchSeen, SetRelay
    <3>2. CASE Stored[d] # Absent
      <4>1. entry \in Entries /\ Allowed(Stored[d], entry) /\ "worker" \in Processes
        <5>1. Stored[d] \in Entries
          BY <3>2, StoredTyped DEF Documents
        <5>2. /\ [Stored[d] EXCEPT !.online = on] \in Entries
              /\ [Stored[d] EXCEPT !.relay = on] \in Entries
          BY <5>1, EditedEntry DEF Modes
        <5>3. entry \in Entries
          BY <3>1, <5>2
        <5> QED  BY <3>1, <3>2, <5>3 DEF Allowed, Processes
      <4>2. step["worker"] = "idle" /\ Begin("worker", [Stored EXCEPT ![d] = entry])
        BY <3>1, <3>2 DEF WorkerEdit
      <4> QED  BY <4>1, <4>2, BeginIsStep
    <3>3. CASE Stored[d] = Absent
      <4>1. /\ UNCHANGED <<data, fileName, step, happened>> /\ step["worker"] = "idle"
            /\ mem' = [mem EXCEPT !["worker"] = Stored]
        BY <3>1, <3>3 DEF WorkerEdit, disk
      <4>2. Stored' = Stored
        BY <4>1 DEF Stored
      <4>3. \A q \in Processes : q # "worker" => mem'[q] = mem[q]
        BY <4>1 DEF TypeOK
      <4>4. CASE "raced" \notin happened
        <5>1. \A q \in Processes : step'[q] # "idle" => q # "worker" /\ step[q] # "idle"
          BY <4>1
        <5>2. Prepared'
          BY <4>2, <4>3, <4>4, <5>1, StaysPrepared
        <5> QED  BY <4>1, <4>2, <5>2
      <4>5. CASE "raced" \in happened
        BY <4>1, <4>2, <4>5 DEF Prepared
      <4> QED  BY <4>1, <4>2, <4>4, <4>5
    <3> QED  BY <3>2, <3>3
  <2>5. ASSUME NEW p \in Processes, OpenTmp(p) \/ WriteTmp(p) \/ Rename(p) \/ Crash(p)
        PROVE  Prepared' /\ [Store!Next]_<<Stored, "raced" \in happened>>
    BY <2>5, CallIsStep
  <2>6. CASE UNCHANGED vars
    BY <2>6 DEF vars, disk, local, Prepared, OneEdit, Stored
  <2> QED  BY <2>1, <2>2, <2>3, <2>4, <2>5, <2>6 DEF Next
<1> QED
  BY <1>1, <1>2, TypeCorrect, AloneInvariant, PromiseInvariant, PTL
  DEF Spec, ImplementsStore, Store!Spec

=============================================================================
