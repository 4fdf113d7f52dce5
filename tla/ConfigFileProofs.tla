-------------------------- MODULE ConfigFileProofs --------------------------
(* Type correctness of ConfigFile; where the configuration is as long as no  *)
(* crash and no failure disturbs a Save; and what crashes and failures leave *)
(* of it as long as every Save is of one format.                             *)
EXTENDS ConfigFile, SequenceTheorems, FiniteSetTheorems, TLAPS

\* The files a start reads have the type of files.
LEMMA OnStartType ==
    ASSUME TypeOK
    PROVE  findConfigFile \in Names /\ OnStart \in Contents
BY DEF TypeOK, findConfigFile, OnStart, readFileOrTemporaryBackup, Names

\* Stopping leaves a program with nothing in memory.
LEMMA StopType ==
    ASSUME TypeOK, Stop, mishaps' \in 0 .. MaxMishaps
    PROVE  TypeOK'
<1> USE ConfigAssumption
<1>1. Absent \in Contents /\ 0 \in Versions
    BY DEF Absent, Contents, Versions
<1>2. up' \in BOOLEAN /\ shouldEncrypt' \in BOOLEAN /\ written' \in BOOLEAN /\ cached' \in BOOLEAN
    BY Zenon DEF Stop
<1> QED BY <1>1, <1>2 DEF TypeOK, Stop, Names, Steps, disk

\* Turning encryption on or off keeps the names well-formed.
LEMMA ToggleType ==
    ASSUME TypeOK, turnOnEncryption \/ turnOffEncryption
    PROVE  shouldEncrypt' \in BOOLEAN /\ filename' \in Names /\ afterSave' \in Seq(Names)
<1>1. shouldEncrypt' \in BOOLEAN
    BY Zenon DEF turnOnEncryption, turnOffEncryption
<1>2. filename' \in Names
    BY DEF TypeOK, Names, turnOnEncryption, turnOffEncryption
<1>3. Append(afterSave, filename) \in Seq(Names)
    BY DEF TypeOK
<1> QED BY <1>1, <1>2, <1>3
        DEF TypeOK, turnOnEncryption, turnOffEncryption, removeOldFileOnNextSave

\* Asking for a format, or for none, keeps the types.
LEMMA SetEncryptedType ==
    ASSUME TypeOK, NEW val \in BOOLEAN, SetShouldSaveFileEncrypted(val)
    PROVE  shouldEncrypt' \in BOOLEAN /\ filename' \in Names /\ afterSave' \in Seq(Names)
<1>1. CASE turnOnEncryption \/ turnOffEncryption
    BY <1>1, ToggleType
<1>2. CASE UNCHANGED <<shouldEncrypt, filename, afterSave>>
    BY <1>2 DEF TypeOK
<1> QED BY <1>1, <1>2 DEF SetShouldSaveFileEncrypted

\* The failing branch of a step of safeWrite.
LEMMA FailType ==
    ASSUME TypeOK, Fail, UNCHANGED disk
    PROVE  TypeOK'
<1> USE ConfigAssumption
<1>1. written' \in BOOLEAN
    BY Zenon DEF Fail
<1>2. mishaps' \in 0 .. MaxMishaps
    BY DEF TypeOK, Fail, Mishap
<1> QED BY <1>1, <1>2 DEF TypeOK, Fail, disk, process, supplier, Steps

\* The branch that goes on, with files of the right type.
LEMMA ContinueType ==
    ASSUME TypeOK, NEW next \in Steps, Continue(next),
           main' \in [Names -> Contents], backup' \in [Names -> Contents],
           temp' \in [Names -> Contents]
    PROVE  TypeOK'
BY DEF TypeOK, Continue, process, supplier, history

\* Every variable keeps its type, for any bounds.
THEOREM ConfigTypeCorrect == Spec => []TypeOK
<1> USE ConfigAssumption
<1>1. Init => TypeOK
    <2>1. Absent \in Contents /\ 0 \in Versions
        BY DEF Absent, Contents, Versions
    <2>2. Init => written \in BOOLEAN /\ cached \in BOOLEAN /\ up \in BOOLEAN /\ shouldEncrypt \in BOOLEAN
        BY Zenon DEF Init
    <2>3. Init => expected \subseteq Versions /\ formats \subseteq BOOLEAN /\ kept \subseteq Names
        BY <2>1 DEF Init
    <2> QED BY <2>1, <2>2, <2>3 DEF Init, TypeOK, Names, Steps
<1>2. TypeOK /\ [Next]_vars => TypeOK'
    <2> SUFFICES ASSUME TypeOK, [Next]_vars PROVE TypeOK'
        OBVIOUS
    <2>a. Absent \in Contents /\ Torn \in Contents /\ 0 \in Versions
        BY DEF Absent, Torn, Contents, Versions
    <2>b. filename \in Names /\ main \in [Names -> Contents]
          /\ backup \in [Names -> Contents] /\ temp \in [Names -> Contents]
        BY DEF TypeOK
    <2>1. CASE LoadConfig
        <3>1. OnStart.ver \in Versions /\ OnStart.encrypted \in BOOLEAN
            BY OnStartType DEF Contents
        <3>2. up' \in BOOLEAN /\ shouldEncrypt' \in BOOLEAN /\ cached' \in BOOLEAN
            BY Zenon, <2>1, <3>1 DEF LoadConfig, Start
        <3> QED BY <2>1, <3>1, <3>2, OnStartType
                DEF TypeOK, LoadConfig, Start, disk, saving
    <2>2. CASE LoadInvalid
        <3>1. OnStart.ver \in Versions /\ OnStart.encrypted \in BOOLEAN
            BY OnStartType DEF Contents
        <3>2. up' \in BOOLEAN /\ shouldEncrypt' \in BOOLEAN /\ cached' \in BOOLEAN
            BY Zenon, <2>2, <3>1 DEF LoadInvalid, Start
        <3> QED BY <2>2, <3>1, <3>2, OnStartType
                DEF TypeOK, LoadInvalid, Start, disk, saving
    <2>3. CASE Quit
        <3>1. mishaps' \in 0 .. MaxMishaps
            BY <2>3 DEF Quit, TypeOK
        <3> QED BY <2>3, <3>1, StopType DEF Quit
    <2>4. CASE Crash
        <3>1. mishaps' \in 0 .. MaxMishaps
            BY <2>4 DEF Crash, Mishap, TypeOK
        <3> QED BY <2>4, <3>1, StopType DEF Crash
    <2>5. CASE Edit
        <3>1. mem' \in Versions
            BY <2>5 DEF Edit, TypeOK, Versions
        <3> QED BY <2>5, <3>1 DEF TypeOK, Edit, disk, saving, supplier, history
    <2>6. ASSUME NEW encrypt \in BOOLEAN, InitialSetup(encrypt)
          PROVE  TypeOK'
        <3>1. shouldEncrypt' \in BOOLEAN /\ filename' \in Names /\ afterSave' \in Seq(Names)
            BY <2>6, SetEncryptedType DEF InitialSetup
        <3>2. pc' = pc
            BY <2>6 DEF InitialSetup, saving
        <3> QED BY <2>6, <3>1, <3>2 DEF TypeOK, InitialSetup, disk, saving, history
    <2>7. CASE ToggleEncryptedConfig
        <3>1. shouldEncrypt' \in BOOLEAN /\ filename' \in Names /\ afterSave' \in Seq(Names)
            BY <2>7, ToggleType DEF ToggleEncryptedConfig
        <3>2. toggles' \in 0 .. MaxToggles /\ asking' \in Nat
            BY <2>7 DEF ToggleEncryptedConfig, TypeOK
        <3> QED BY <2>7, <3>1, <3>2 DEF TypeOK, ToggleEncryptedConfig, disk, saving
    <2>8. CASE ChoosePassword
        <3>1. asking' \in Nat /\ onetime' \in Nat
            BY <2>8 DEF ChoosePassword, TypeOK
        <3>2. setup' \in {"none", "offered", "dialog"}
            BY <2>8 DEF ChoosePassword, TypeOK
        <3> QED BY <2>8, <3>1, <3>2 DEF TypeOK, ChoosePassword, disk, process, saving, history
    <2>9. CASE CancelPassword
        <3>1. shouldEncrypt' \in BOOLEAN /\ filename' \in Names /\ afterSave' \in Seq(Names)
            <4>1. CASE SetShouldSaveFileEncrypted(FALSE)
                BY <4>1, SetEncryptedType
            <4>2. CASE UNCHANGED <<shouldEncrypt, filename, afterSave>>
                BY <4>2 DEF TypeOK
            <4> QED BY <2>9, <4>1, <4>2 DEF CancelPassword
        <3>2. asking' \in Nat /\ setup' \in {"none", "offered", "dialog"}
            <4>1. CASE asking > 0 /\ asking' = asking - 1 /\ setup' = setup
                BY <4>1 DEF TypeOK
            <4>2. CASE setup' = "none" /\ asking' = asking
                BY <4>2 DEF TypeOK
            <4> QED BY Zenon, <2>9, <4>1, <4>2 DEF CancelPassword
        <3>3. onetime' = onetime /\ cached' = cached /\ UNCHANGED <<disk, up, mem, saving, history>>
            BY Zenon, <2>9 DEF CancelPassword
        <3> QED BY <3>1, <3>2, <3>3 DEF TypeOK, disk, saving, history
    <2>10. CASE SavePlain
        <3>1. Doc(mem, FALSE) \in Contents
            BY DEF Doc, Contents, TypeOK
        <3>2. written' \in BOOLEAN
            BY Zenon, <2>10 DEF SavePlain, Serialise
        <3> QED BY <2>10, <3>1, <3>2
                DEF TypeOK, SavePlain, Serialise, disk, process, supplier, Steps
    <2>11. CASE SaveEncrypted
        <3>1. Doc(mem, TRUE) \in Contents
            BY DEF Doc, Contents, TypeOK
        <3>2. written' \in BOOLEAN
            BY Zenon, <2>11 DEF SaveEncrypted, Serialise
        <3>3. onetime' \in Nat
            BY <2>11 DEF SaveEncrypted, GenerateKey, TypeOK
        <3>4. cached' \in BOOLEAN
            <4>1. cached \in BOOLEAN
                BY DEF TypeOK
            <4> QED BY Zenon, <2>11, <4>1 DEF SaveEncrypted, GenerateKey
        <3> QED BY <2>11, <3>1, <3>2, <3>3, <3>4
                DEF TypeOK, SaveEncrypted, Serialise, disk, Steps, Names
    <2>12. CASE SaveRefused
        <3>1. written' \in BOOLEAN
            BY Zenon, <2>12 DEF SaveRefused
        <3>2. mishaps' \in 0 .. MaxMishaps
            BY <2>12 DEF TypeOK, SaveRefused, Mishap
        <3> QED BY <2>12, <3>1, <3>2 DEF TypeOK, SaveRefused, disk, supplier, Steps, Names
    <2>13. CASE RemoveBackup
        <3>1. backup' \in [Names -> Contents]
            BY <2>13, <2>a, <2>b DEF RemoveBackup
        <3> QED BY <2>13, <2>b, <3>1, ContinueType DEF RemoveBackup, Steps
    <2>14. CASE RenameToBackup
        <3>1. CASE Fail /\ UNCHANGED disk
            BY <3>1, FailType
        <3>2. CASE Continue("create") /\ UNCHANGED disk
            BY <3>2, <2>b, ContinueType DEF disk, Steps
        <3>3. CASE BackUp /\ UNCHANGED temp /\ Continue("create")
            BY <3>3, <2>a, <2>b, ContinueType DEF BackUp, Steps
        <3> QED BY <2>14, <3>1, <3>2, <3>3 DEF RenameToBackup
    <2>15. CASE CreateTemp
        <3>1. CASE Fail /\ UNCHANGED temp
            BY <2>15, <3>1, FailType DEF CreateTemp, disk
        <3>2. CASE temp' = [temp EXCEPT ![filename] = Torn] /\ Continue("write")
            BY <2>15, <3>2, <2>a, <2>b, ContinueType DEF CreateTemp, Steps
        <3> QED BY <2>15, <3>1, <3>2 DEF CreateTemp
    <2>16. CASE WriteTemp
        <3>1. CASE Fail /\ UNCHANGED temp
            BY <2>16, <3>1, FailType DEF WriteTemp, disk
        <3>2. CASE temp' = [temp EXCEPT ![filename] = doc] /\ Continue("install")
            <4>1. doc \in Contents
                BY DEF TypeOK
            <4> QED BY <2>16, <3>2, <4>1, <2>b, ContinueType DEF WriteTemp, Steps
        <3> QED BY <2>16, <3>1, <3>2 DEF WriteTemp
    <2>17. CASE Install
        <3>1. CASE Fail /\ UNCHANGED <<main, temp>>
            BY <2>17, <3>1, FailType DEF Install, disk
        <3>2. CASE /\ main' = [main EXCEPT ![filename] = temp[filename]]
                   /\ temp' = [temp EXCEPT ![filename] = Absent]
                   /\ Continue("after")
            BY <2>17, <3>2, <2>a, <2>b, ContinueType DEF Install, Steps
        <3> QED BY <2>17, <3>1, <3>2 DEF Install
    <2>18. CASE RemoveOld
        <3>1. Head(afterSave) \in Names /\ Tail(afterSave) \in Seq(Names)
            BY <2>18 DEF RemoveOld, TypeOK
        <3>2. main' \in [Names -> Contents] /\ kept' \subseteq Names
            BY <2>18, <2>a, <2>b, <3>1 DEF RemoveOld, IsOld, TypeOK
        <3> QED BY <2>18, <3>1, <3>2 DEF TypeOK, RemoveOld, saving, supplier
    <2>19. CASE SaveEnd
        <3>1. doc.ver \in Versions
            BY DEF TypeOK, Contents
        <3>2. written' \in BOOLEAN
            BY Zenon, <2>19 DEF SaveEnd
        <3>3. expected' \subseteq Versions /\ kept' \subseteq Names
            BY <2>19, <2>b, <3>1 DEF SaveEnd, TypeOK
        <3> QED BY <2>19, <2>a, <3>2, <3>3 DEF TypeOK, SaveEnd, disk, process, supplier, Steps
    <2>20. CASE UNCHANGED vars
        BY <2>20 DEF TypeOK, vars, disk, process, saving, supplier, history
    <2> QED BY <2>1, <2>2, <2>3, <2>4, <2>5, <2>6, <2>7, <2>8, <2>9, <2>10, <2>11, <2>12,
               <2>13, <2>14, <2>15, <2>16, <2>17, <2>18, <2>19, <2>20 DEF Next, Save
<1> QED BY <1>1, <1>2, PTL DEF Spec

-----------------------------------------------------------------------------

\* What a start reads when nothing is being saved and no temporary file is left
LEMMA RestingFile ==
    ASSUME TypeOK, pc = "idle", Clean
    PROVE  /\ \A n \in Names : Exists(main[n]) => findConfigFile = n /\ OnStart = main[n]
           /\ (\A n \in Names : ~Exists(main[n])) => findConfigFile = "plain" /\ OnStart = Absent
           /\ OnStart.encrypted = (findConfigFile = "enc")
<1> USE DEF Names
<1>1. \A n \in Names : temp[n] = Absent /\ FileIsWhole(n)
    BY DEF Clean, OnDisk
<1>2. ~Exists(Absent) /\ Absent.encrypted = FALSE
    BY DEF Exists, Absent
<1>3. ~Exists(main["enc"]) \/ ~Exists(main["plain"])
    BY DEF Clean, AtRest
<1>4. CASE Exists(main["enc"])
    BY <1>1, <1>2, <1>3, <1>4 DEF findConfigFile, OnStart, readFileOrTemporaryBackup, FileIsWhole
<1>5. CASE ~Exists(main["enc"]) /\ Exists(main["plain"])
    BY <1>1, <1>2, <1>3, <1>5 DEF findConfigFile, OnStart, readFileOrTemporaryBackup, FileIsWhole
<1>6. CASE ~Exists(main["enc"]) /\ ~Exists(main["plain"])
    BY <1>1, <1>2, <1>3, <1>6 DEF findConfigFile, OnStart, readFileOrTemporaryBackup, FileIsWhole
<1> QED BY <1>4, <1>5, <1>6

\* The two steps that start the program, whatever they find
LEMMA StartClean ==
    ASSUME TypeOK, pc = "idle", Clean, Start, expected' = expected
    PROVE  Clean'
<1> USE DEF Names
<1>1. findConfigFile' = findConfigFile /\ UNCHANGED <<main, temp, pc>> /\ filename' = findConfigFile
    BY DEF Start, disk, saving, findConfigFile
<1>2. shouldEncrypt' = (filename' = "enc")
    BY <1>1, RestingFile DEF Start
<1>3. \A n \in Names : OnDisk(n)'
    <2> SUFFICES ASSUME NEW n \in Names PROVE OnDisk(n)'
        OBVIOUS
    <2>1. FileIsWhole(n)' /\ temp'[n] = Absent
        BY <1>1 DEF Clean, OnDisk, FileIsWhole
    <2>2. Exists(main[n]) => n = filename'
        BY <1>1, RestingFile
    <2> QED BY <1>1, <2>1, <2>2 DEF OnDisk
<1>4. AtRest'
    BY <1>1 DEF Clean, AtRest
<1> QED BY <1>1, <1>2, <1>3, <1>4 DEF Clean

\* Turning encryption on or off changes what afterSave will remove
LEMMA ToggleClean ==
    ASSUME TypeOK, Clean, up, up', UNCHANGED <<main, temp, pc, expected>>,
           turnOnEncryption \/ turnOffEncryption
    PROVE  Clean'
<1> USE DEF Names
<1>1. pc = "idle" /\ shouldEncrypt = (filename = "enc") /\ filename \in Names
    BY DEF turnOnEncryption, turnOffEncryption, Clean, TypeOK
<1>2. shouldEncrypt' = (filename' = "enc") /\ afterSave' = Append(afterSave, filename)
    BY <1>1 DEF turnOnEncryption, turnOffEncryption, removeOldFileOnNextSave
<1>3. \A n \in Names : OnDisk(n)'
    <2> SUFFICES ASSUME NEW n \in Names PROVE OnDisk(n)'
        OBVIOUS
    <2>1. FileIsWhole(n)' /\ temp'[n] = Absent
        BY <1>1 DEF Clean, OnDisk, FileIsWhole
    <2>2. Exists(main[n]) => Pending(n)'
        <3> SUFFICES ASSUME Exists(main[n]) PROVE Pending(n)'
            OBVIOUS
        <3>1. afterSave \in Seq(Names)
            BY DEF TypeOK
        <3>2. CASE n = filename
            <4>1. Len(afterSave') = Len(afterSave) + 1 /\ afterSave'[Len(afterSave) + 1] = n
                BY <1>1, <1>2, <3>1, <3>2
            <4>2. Len(afterSave) + 1 \in 1 .. Len(afterSave')
                BY <3>1, <4>1
            <4> QED BY <4>1, <4>2 DEF Pending
        <3>3. CASE n # filename
            <4>1. PICK i \in 1 .. Len(afterSave) : afterSave[i] = n
                BY <3>3 DEF Clean, OnDisk, Pending
            <4>2. i \in 1 .. Len(afterSave') /\ afterSave'[i] = n
                BY <1>1, <1>2, <3>1, <4>1
            <4> QED BY <4>2 DEF Pending
        <3> QED BY <3>2, <3>3
    <2> QED BY <1>1, <2>1, <2>2 DEF OnDisk
<1>4. AtRest'
    BY <1>1 DEF Clean, AtRest
<1> QED BY <1>1, <1>2, <1>3, <1>4 DEF Clean

\* Asking for another format queues the file of the old one for removal.
LEMMA SetEncryptedClean ==
    ASSUME TypeOK, Clean, up, up', UNCHANGED <<main, temp, pc, expected, doc, written>>,
           NEW val \in BOOLEAN, SetShouldSaveFileEncrypted(val)
    PROVE  Clean'
<1>1. CASE turnOnEncryption \/ turnOffEncryption
    BY <1>1, ToggleClean
<1>2. CASE UNCHANGED <<shouldEncrypt, filename, afterSave>>
    BY <1>2 DEF Clean, OnDisk, FileIsWhole, Pending, AtRest, InSave
<1> QED BY <1>1, <1>2 DEF SetShouldSaveFileEncrypted

\* A step that changes nothing Clean speaks of
LEMMA CleanUnchanged ==
    ASSUME Clean, UNCHANGED <<main, temp, up, shouldEncrypt, filename, afterSave, pc, doc, written, expected>>
    PROVE  Clean'
BY DEF Clean, OnDisk, FileIsWhole, Pending, AtRest, InSave

\* Without mishaps the file is where CleanInv says at every step of a Save.
LEMMA CleanStep ==
    ASSUME TypeOK, TypeOK', CleanInv, [Next]_vars
    PROVE  CleanInv'
<1> USE ConfigAssumption DEF Names
<1>0. SUFFICES ASSUME mishaps' = 0 PROVE Clean'
    BY DEF CleanInv
<1>a. mishaps \in Nat /\ filename \in Names /\ main \in [Names -> Contents]
      /\ temp \in [Names -> Contents]
    BY DEF TypeOK
<1>b. ~Mishap
    BY <1>0, <1>a DEF Mishap
<1>c. ~Fail
    BY <1>b DEF Fail
<1>d. mishaps = 0 => Clean
    BY DEF CleanInv
<1>e. ~Exists(Absent)
    BY DEF Exists, Absent
<1>1. CASE LoadConfig
    <2>1. mishaps = 0 /\ Clean /\ Start
        BY <1>1, <1>0, <1>d DEF LoadConfig, Start
    <2>2. pc = "idle"
        BY <1>1, <2>1 DEF Clean, LoadConfig, InSave, TypeOK
    <2>3. expected' = expected
        <3>1. OnStart.ver # 0 /\ Exists(OnStart)
            BY <1>1 DEF LoadConfig, Valid, Exists
        <3>2. PICK n \in Names : Exists(main[n])
            BY <2>1, <2>2, <3>1, <1>e, RestingFile
        <3> QED BY <1>1, <2>1, <2>2, <3>2, RestingFile DEF Clean, AtRest, LoadConfig
    <2> QED BY <2>1, <2>2, <2>3, StartClean
<1>2. CASE LoadInvalid
    <2>1. mishaps = 0 /\ Clean /\ Start /\ expected' = expected
        BY <1>2, <1>0, <1>d DEF LoadInvalid, Start
    <2>2. pc = "idle"
        BY <1>2, <2>1 DEF Clean, LoadInvalid, InSave, TypeOK
    <2> QED BY <2>1, <2>2, StartClean
<1>3. CASE Quit
    <2>1. Clean /\ pc = "idle" /\ pc' = "idle" /\ ~up' /\ UNCHANGED <<main, temp, expected>>
        BY <1>3, <1>0, <1>d DEF Quit, Stop, disk
    <2> QED BY <2>1 DEF Clean, OnDisk, FileIsWhole, AtRest
<1>4. CASE Crash
    BY <1>4, <1>b DEF Crash
<1>5. CASE Edit
    BY <1>5, <1>0, <1>d, CleanUnchanged DEF Edit, disk, saving, supplier, history
<1>6. ASSUME NEW encrypt \in BOOLEAN, InitialSetup(encrypt)
      PROVE  Clean'
    BY <1>6, <1>0, <1>d, SetEncryptedClean DEF InitialSetup, disk, saving, history
<1>7. CASE ToggleEncryptedConfig
    BY <1>7, <1>0, <1>d, ToggleClean DEF ToggleEncryptedConfig, disk, saving
<1>8. CASE ChoosePassword
    BY <1>8, <1>0, <1>d, CleanUnchanged DEF ChoosePassword, disk, process, saving, history
<1>9. CASE CancelPassword
    <2>1. Clean /\ up /\ up' /\ UNCHANGED <<main, temp, pc, expected, doc, written>>
        BY <1>9, <1>0, <1>d DEF CancelPassword, disk, saving, history
    <2>2. CASE SetShouldSaveFileEncrypted(FALSE)
        BY <2>1, <2>2, SetEncryptedClean
    <2>3. CASE UNCHANGED <<shouldEncrypt, filename, afterSave>>
        BY <2>1, <2>3, CleanUnchanged
    <2> QED BY <1>9, <2>2, <2>3 DEF CancelPassword
<1>10. CASE SavePlain \/ SaveEncrypted
    <2>0. up /\ up' = up /\ pc = "idle" /\ pc' = "unbackup" /\ mishaps' = mishaps
        BY Zenon, <1>10 DEF SavePlain, SaveEncrypted, Serialise, process
    <2>1. Clean /\ pc = "idle" /\ pc' = "unbackup" /\ up /\ up'
        BY <2>0, <1>0, <1>d
    <2>2. UNCHANGED <<main, temp, shouldEncrypt, filename, afterSave>>
        BY <1>10, <2>1 DEF SavePlain, SaveEncrypted, process, disk, Clean
    <2>3. written'
        BY Zenon, <1>10 DEF SavePlain, SaveEncrypted, Serialise
    <2>4. doc' = Doc(mem, shouldEncrypt)
        <3>1. CASE SavePlain
            <4>1. shouldEncrypt = FALSE
                BY <3>1 DEF SavePlain, TypeOK
            <4> QED BY <3>1, <4>1 DEF SavePlain, Serialise
        <3>2. CASE SaveEncrypted
            <4>1. shouldEncrypt = TRUE
                BY <3>2 DEF SaveEncrypted, TypeOK
            <4> QED BY <3>2, <4>1 DEF SaveEncrypted, Serialise
        <3> QED BY <1>10, <3>1, <3>2
    <2>5. doc'.kind = "doc" /\ doc'.encrypted = shouldEncrypt
        BY <2>4 DEF Doc
    <2> QED BY <2>1, <2>2, <2>3, <2>5 DEF Clean, OnDisk, FileIsWhole, Pending, InSave
<1>12. CASE SaveRefused
    BY <1>12, <1>b DEF SaveRefused
<1>13. CASE RemoveBackup
    <2>1. Clean /\ pc = "unbackup" /\ pc' = "rename" /\ UNCHANGED <<main, temp, process, doc, written, expected>>
        BY <1>13, <1>0, <1>d DEF RemoveBackup, Continue, history
    <2> QED BY <2>1 DEF Clean, OnDisk, FileIsWhole, Pending, InSave, process
<1>14. CASE RenameToBackup
    <2>1. Clean /\ pc = "rename" /\ pc' = "create" /\ UNCHANGED <<temp, process, doc, written>>
        BY <1>14, <1>0, <1>c, <1>d DEF RenameToBackup, BackUp, Continue, history, disk
    <2>2. \A n \in Names : main'[n] = main[n] \/ main'[n] = Absent
        BY <1>14, <1>a, <1>c DEF RenameToBackup, BackUp, disk
    <2>3. \A n \in Names : OnDisk(n)'
        BY <2>1, <2>2, <1>e DEF Clean, OnDisk, FileIsWhole, Pending, process
    <2> QED BY <2>1, <2>3 DEF Clean, InSave, process
<1>15. CASE CreateTemp
    <2>1. Clean /\ pc = "create" /\ pc' = "write" /\ UNCHANGED <<main, process, doc, written>>
        BY <1>15, <1>0, <1>c, <1>d DEF CreateTemp, Continue, history
    <2>2. \A n \in Names : n # filename => temp'[n] = temp[n]
        BY <1>15, <1>a, <1>c DEF CreateTemp
    <2>3. \A n \in Names : OnDisk(n)'
        BY <2>1, <2>2 DEF Clean, OnDisk, FileIsWhole, Pending, process
    <2> QED BY <2>1, <2>3 DEF Clean, InSave, process
<1>16. CASE WriteTemp
    <2>1. Clean /\ pc = "write" /\ pc' = "install" /\ UNCHANGED <<main, process, doc, written>>
        BY <1>16, <1>0, <1>c, <1>d DEF WriteTemp, Continue, history
    <2>2. temp'[filename] = doc /\ \A n \in Names : n # filename => temp'[n] = temp[n]
        BY <1>16, <1>a, <1>c DEF WriteTemp
    <2>3. \A n \in Names : OnDisk(n)'
        BY <2>1, <2>2 DEF Clean, OnDisk, FileIsWhole, Pending, process
    <2> QED BY <2>1, <2>2, <2>3 DEF Clean, InSave, process
<1>17. CASE Install
    <2>1. Clean /\ pc = "install" /\ pc' = "after" /\ UNCHANGED <<process, doc, written>>
        BY <1>17, <1>0, <1>c, <1>d DEF Install, Continue, history
    <2>2. /\ main'[filename] = temp[filename] /\ temp'[filename] = Absent
          /\ \A n \in Names : n # filename => main'[n] = main[n] /\ temp'[n] = temp[n]
        BY <1>17, <1>a, <1>c DEF Install
    <2>3. temp[filename] = doc /\ doc.kind = "doc" /\ doc.encrypted = (filename = "enc")
        BY <2>1 DEF Clean, InSave
    <2>4. \A n \in Names : OnDisk(n)'
        BY <2>1, <2>2, <2>3 DEF Clean, OnDisk, FileIsWhole, Pending, process
    <2> QED BY <2>1, <2>2, <2>3, <2>4 DEF Clean, InSave, process
<1>18. CASE RemoveOld
    <2>1. /\ Clean /\ pc = "after" /\ afterSave # <<>> /\ afterSave' = Tail(afterSave)
          /\ UNCHANGED <<temp, up, shouldEncrypt, filename, pc, doc, written>>
        BY <1>18, <1>0, <1>d DEF RemoveOld, saving
    <2>2. afterSave \in Seq(Names) /\ Head(afterSave) \in Names
        BY <2>1 DEF TypeOK
    <2>3. /\ main'[filename] = main[filename]
          /\ \A n \in Names : main'[n] = main[n] \/ main'[n] = Absent
          /\ Head(afterSave) # filename => main'[Head(afterSave)] = Absent
        BY <1>18, <1>a, <2>2 DEF RemoveOld, IsOld
    <2>4. ASSUME NEW n \in Names PROVE OnDisk(n)'
        <3>1. FileIsWhole(n)' /\ temp'[n] = Absent
            BY <2>1, <2>3, <1>e DEF Clean, OnDisk, FileIsWhole
        <3>2. n # filename /\ Exists(main'[n]) => Pending(n)'
            <4> SUFFICES ASSUME n # filename, Exists(main'[n]) PROVE Pending(n)'
                OBVIOUS
            <4>1. n # Head(afterSave) /\ Exists(main[n])
                BY <2>3, <1>e
            <4>2. PICK i \in 1 .. Len(afterSave) : afterSave[i] = n
                BY <4>1, <2>1 DEF Clean, OnDisk, Pending, InSave
            <4>3. i # 1
                BY <4>1, <4>2, <2>2
            <4>4. i - 1 \in 1 .. Len(afterSave') /\ afterSave'[i - 1] = n
                BY <4>2, <4>3, <2>1, <2>2
            <4> QED BY <4>4 DEF Pending
        <3> QED BY <2>1, <3>1, <3>2 DEF OnDisk
    <2> QED BY <2>1, <2>3, <2>4 DEF Clean, InSave
<1>19. CASE SaveEnd
    <2>1. /\ Clean /\ pc = "after" /\ afterSave = <<>> /\ pc' = "idle"
          /\ UNCHANGED <<disk, process>>
          /\ written /\ expected' = {doc.ver}
        BY <1>19, <1>0, <1>d DEF SaveEnd, Clean, InSave
    <2>2. main[filename] = doc /\ Exists(doc)
        BY <2>1 DEF Clean, InSave, Exists
    <2>3. \A n \in Names : n # filename => ~Exists(main[n])
        <3>1. \A n \in Names : ~Pending(n)
            BY <2>1 DEF Pending
        <3> QED BY <2>1, <3>1 DEF Clean, OnDisk, InSave
    <2>4. AtRest'
        BY <2>1, <2>2, <2>3, <1>a DEF AtRest, disk
    <2>5. \A n \in Names : OnDisk(n)'
        BY <2>1 DEF Clean, OnDisk, FileIsWhole, Pending, disk, process
    <2> QED BY <2>1, <2>4, <2>5 DEF Clean, process
<1>20. CASE UNCHANGED vars
    BY <1>20, <1>0, <1>d, CleanUnchanged DEF vars, disk, process, saving, history
<1> QED BY <1>1, <1>2, <1>3, <1>4, <1>5, <1>6, <1>7, <1>8, <1>9, <1>10, <1>12, <1>13,
           <1>14, <1>15, <1>16, <1>17, <1>18, <1>19, <1>20 DEF Next, Save

\* For any number of edits, format changes and saves none of which goes wrong,
\* the invariant holds.
THEOREM CleanAlways == Spec => []CleanInv
<1>1. Init => CleanInv
    <2> SUFFICES ASSUME Init PROVE Clean
        BY DEF CleanInv
    <2>1. ~Exists(Absent)
        BY DEF Exists, Absent
    <2>2. \A n \in Names : main[n] = Absent /\ temp[n] = Absent
        BY DEF Init
    <2> QED BY <2>1, <2>2 DEF Init, Clean, OnDisk, FileIsWhole, AtRest
<1> QED BY <1>1, ConfigTypeCorrect, CleanStep, PTL DEF Spec

\* ... so what was saved last is what the next start reads ...
THEOREM LastSaveIsFound == Spec => []SavedIsFound
<1>1. TypeOK /\ CleanInv => SavedIsFound
    <2> SUFFICES ASSUME TypeOK, CleanInv, mishaps = 0, pc = "idle", expected # {0}
                 PROVE  Valid(OnStart) /\ {OnStart.ver} = expected
        BY DEF SavedIsFound
    <2>1. Clean
        BY DEF CleanInv
    <2>2. PICK n \in Names : Exists(main[n])
        BY <2>1 DEF Clean, AtRest
    <2>3. OnStart = main[n] /\ expected = {main[n].ver} /\ main[n].kind = "doc"
        BY <2>1, <2>2, RestingFile DEF Clean, AtRest, OnDisk, FileIsWhole
    <2> QED BY <2>3 DEF Valid
<1> QED BY <1>1, ConfigTypeCorrect, CleanAlways, PTL

\* ... in the format the user asked for, with no file of the other format left.
THEOREM FormatFollows == Spec => []OneFormatRemains
<1>1. TypeOK /\ CleanInv => OneFormatRemains
    <2> SUFFICES ASSUME TypeOK, CleanInv, mishaps = 0, up, pc = "idle",
                        afterSave = <<>>, expected # {0}
                 PROVE  /\ OnStart.encrypted = shouldEncrypt
                        /\ \A n \in Names : Exists(main[n]) => n = filename
        BY DEF OneFormatRemains
    <2>1. Clean
        BY DEF CleanInv
    <2>2. \A n \in Names : ~Pending(n)
        BY DEF Pending
    <2>3. \A n \in Names : Exists(main[n]) => n = filename
        BY <2>1, <2>2 DEF Clean, OnDisk
    <2>4. PICK n \in Names : Exists(main[n])
        BY <2>1 DEF Clean, AtRest
    <2> QED BY <2>1, <2>3, <2>4, RestingFile DEF Clean
<1> QED BY <1>1, ConfigTypeCorrect, CleanAlways, PTL

-----------------------------------------------------------------------------

\* What a start reads when only one name was ever written: the file, else its
\* temporary file, else nothing.
LEMMA OnStartOnly ==
    ASSUME NEW n \in Names, OnlyOf(n)
    PROVE  /\ Exists(main[n]) => OnStart = main[n]
           /\ ~Exists(main[n]) => OnStart = temp[n] \/ (~Exists(OnStart) /\ ~Exists(temp[n]))
           /\ n = "plain" => findConfigFile = "plain"
<1>1. ~Exists(Absent)
    BY DEF Exists, Absent
<1>2. \A m \in Names \ {n} : ~Exists(main[m]) /\ ~Exists(temp[m])
    BY <1>1 DEF OnlyOf
<1>3. CASE n = "plain"
    <2>1. ~Exists(main["enc"]) /\ ~Exists(temp["enc"])
        BY <1>2, <1>3 DEF Names
    <2>2. findConfigFile = "plain"
        BY <2>1 DEF findConfigFile
    <2> QED BY <1>3, <2>2 DEF OnStart, readFileOrTemporaryBackup
<1>4. CASE n = "enc"
    <2>1. ~Exists(main["plain"]) /\ ~Exists(temp["plain"])
        BY <1>2, <1>4 DEF Names
    <2>2. CASE Exists(main["enc"]) \/ Exists(temp["enc"])
        <3>1. findConfigFile = "enc"
            BY <2>2 DEF findConfigFile
        <3> QED BY <1>4, <3>1 DEF OnStart, readFileOrTemporaryBackup
    <2>3. CASE ~Exists(main["enc"]) /\ ~Exists(temp["enc"])
        <3>1. findConfigFile = "plain"
            BY <2>3 DEF findConfigFile
        <3> QED BY <1>4, <2>1, <2>3, <3>1 DEF OnStart, readFileOrTemporaryBackup
    <2> QED BY <1>4, <2>2, <2>3
<1> QED BY <1>3, <1>4 DEF Names

\* A step that leaves the files alone and the Save where it is, or ends it by
\* ending the program
LEMMA OnlyUnchanged ==
    ASSUME NEW n \in Names, OnlyOf(n), UNCHANGED <<main, temp, expected>>,
           pc' = "idle" \/ UNCHANGED <<up, filename, pc, doc, written>>,
           n = "plain" /\ ~shouldEncrypt' => filename' = n
    PROVE  OnlyOf(n)'
<1>1. CASE pc' = "idle"
    BY <1>1 DEF OnlyOf, Whole
<1>2. CASE UNCHANGED <<up, filename, pc, doc, written>>
    BY <1>2 DEF OnlyOf, Whole
<1> QED BY <1>1, <1>2

\* Turning encryption off makes the name of the plain file the current one.
LEMMA SetEncryptedOnly ==
    ASSUME TypeOK, NEW n \in Names, OnlyOf(n), UNCHANGED <<main, temp, expected, pc>>,
           \/ turnOnEncryption
           \/ turnOffEncryption
           \/ \E val \in BOOLEAN : SetShouldSaveFileEncrypted(val)
    PROVE  OnlyOf(n)'
<1>1. CASE turnOnEncryption
    BY <1>1, OnlyUnchanged DEF turnOnEncryption
<1>2. CASE turnOffEncryption
    BY <1>2, OnlyUnchanged DEF turnOffEncryption
<1>3. CASE pc = "idle" /\ UNCHANGED <<shouldEncrypt, filename, afterSave>>
    <2>1. n = "plain" /\ ~shouldEncrypt' => filename' = n
        BY <1>3 DEF OnlyOf
    <2> QED BY <1>3, <2>1, OnlyUnchanged
<1> QED BY <1>1, <1>2, <1>3 DEF SetShouldSaveFileEncrypted

\* The failing branch of a step of safeWrite, the files as they were
LEMMA OnlyFail ==
    ASSUME NEW n \in Names, OnlyOf(n), pc # "idle", Fail, UNCHANGED <<main, temp>>
    PROVE  OnlyOf(n)'
BY DEF OnlyOf, Whole, Fail, process

\* As long as every Save is of one format, only files of its name are there and
\* every whole one is of an expected version.
LEMMA OnlyStep ==
    ASSUME TypeOK, NEW e \in BOOLEAN, formats' \subseteq {e}, OnlyOf(NameOf(e)), [Next]_vars
    PROVE  OnlyOf(NameOf(e))'
<1> DEFINE n == NameOf(e)
<1>a. n \in Names /\ OnlyOf(n)
    BY DEF NameOf, Names
<1>b. main \in [Names -> Contents] /\ temp \in [Names -> Contents]
    BY DEF TypeOK
<1>c. ~Exists(Absent)
    BY DEF Exists, Absent
<1>d. n = "plain" => e = FALSE
    BY DEF NameOf
<1> HIDE DEF n
<1>0. SUFFICES OnlyOf(n)'
    BY DEF n
<1>1. CASE LoadConfig
    <2>1. pc' = "idle" /\ UNCHANGED <<main, temp>>
        BY <1>1, <1>a DEF LoadConfig, Start, disk, saving, OnlyOf
    <2>2. expected' = {OnStart.ver} /\ Valid(OnStart) /\ filename' = findConfigFile
        BY <1>1 DEF LoadConfig, Start
    <2>3. main[n] # Absent => Whole(main[n])'
        <3> SUFFICES ASSUME main[n] # Absent PROVE Whole(main[n])'
            OBVIOUS
        <3>1. Whole(main[n])
            BY <1>a DEF OnlyOf
        <3>2. Exists(main[n])
            BY <3>1 DEF Whole, Exists
        <3>3. OnStart = main[n]
            BY <1>a, <3>2, OnStartOnly
        <3> QED BY <2>1, <2>2, <3>1, <3>3 DEF Whole
    <2>4. temp[n].kind = "doc" => Whole(temp[n])'
        <3> SUFFICES ASSUME temp[n].kind = "doc" PROVE Whole(temp[n])'
            OBVIOUS
        <3>1. temp[n] # Absent /\ Exists(temp[n])
            BY DEF Absent, Exists
        <3>2. ~Exists(main[n])
            BY <1>a, <1>c, <3>1 DEF OnlyOf
        <3>3. OnStart = temp[n]
            BY <1>a, <3>1, <3>2, OnStartOnly
        <3> QED BY <2>1, <2>2, <3>3 DEF Whole
    <2>5. n = "plain" => filename' = n
        BY <2>2, <1>a, OnStartOnly
    <2> QED BY <2>1, <2>3, <2>4, <2>5, <1>a DEF OnlyOf
<1>2. CASE LoadInvalid
    <2>1. pc' = "idle" /\ UNCHANGED <<main, temp, expected>>
        BY <1>2, <1>a DEF LoadInvalid, Start, disk, saving, OnlyOf
    <2>2. n = "plain" => filename' = n
        BY <1>2, <1>a, OnStartOnly DEF LoadInvalid, Start
    <2> QED BY <2>1, <2>2, <1>a, OnlyUnchanged
<1>3. CASE Quit \/ Crash
    <2>1. Stop
        BY <1>3 DEF Quit, Crash
    <2>2. pc' = "idle" /\ filename' = "plain" /\ UNCHANGED <<main, temp, expected>>
        BY <2>1 DEF Stop, disk
    <2> QED BY <2>2, <1>a, OnlyUnchanged
<1>5. CASE Edit
    <2>1. UNCHANGED <<main, temp, expected, up, shouldEncrypt, filename, pc, doc, written>>
        BY <1>5 DEF Edit, disk, saving, history
    <2>2. n = "plain" /\ ~shouldEncrypt' => filename' = n
        BY <2>1, <1>a DEF OnlyOf
    <2> QED BY <2>1, <2>2, <1>a, OnlyUnchanged
<1>6. ASSUME NEW encrypt \in BOOLEAN, InitialSetup(encrypt)
      PROVE  OnlyOf(n)'
    BY <1>6, <1>a, SetEncryptedOnly DEF InitialSetup, disk, saving, history
<1>7. CASE ToggleEncryptedConfig
    <2>1. UNCHANGED <<main, temp, expected, pc>> /\ (turnOnEncryption \/ turnOffEncryption)
        BY <1>7 DEF ToggleEncryptedConfig, disk, saving
    <2> QED BY <2>1, <1>a, SetEncryptedOnly
<1>8. CASE ChoosePassword
    <2>1. UNCHANGED <<main, temp, expected, up, shouldEncrypt, filename, pc, doc, written>>
        BY <1>8 DEF ChoosePassword, disk, process, saving, history
    <2>2. n = "plain" /\ ~shouldEncrypt' => filename' = n
        BY <2>1, <1>a DEF OnlyOf
    <2> QED BY <2>1, <2>2, <1>a, OnlyUnchanged
<1>9. CASE CancelPassword
    <2>1. UNCHANGED <<main, temp, expected, up, pc, doc, written>>
        BY <1>9 DEF CancelPassword, disk, saving, history
    <2>2. CASE SetShouldSaveFileEncrypted(FALSE)
        BY <2>1, <2>2, <1>a, SetEncryptedOnly
    <2>3. CASE UNCHANGED <<shouldEncrypt, filename>>
        <3>1. n = "plain" /\ ~shouldEncrypt' => filename' = n
            BY <2>3, <1>a DEF OnlyOf
        <3> QED BY <2>1, <2>3, <3>1, <1>a, OnlyUnchanged
    <2> QED BY <1>9, <2>2, <2>3 DEF CancelPassword
<1>10. CASE SavePlain
    <2>1. e = FALSE /\ ~shouldEncrypt /\ pc = "idle" /\ up
        BY <1>10 DEF SavePlain, Serialise
    <2>2. filename = n
        BY <2>1, <1>a DEF OnlyOf, NameOf, n
    <2>3. Serialise(FALSE) /\ UNCHANGED <<main, temp, up, filename>>
        BY <1>10 DEF SavePlain, disk, process
    <2> QED BY <2>1, <2>2, <2>3, <1>a DEF Serialise, Doc, OnlyOf, Whole
<1>11. CASE SaveEncrypted
    <2>1. e = TRUE /\ pc = "idle" /\ up /\ filename' = "enc"
        BY <1>11 DEF SaveEncrypted, Serialise
    <2>2. filename' = n /\ n # "plain"
        BY <2>1 DEF NameOf, n
    <2>3. Serialise(TRUE) /\ UNCHANGED <<main, temp, up>>
        BY <1>11 DEF SaveEncrypted, disk
    <2> QED BY <2>1, <2>2, <2>3, <1>a DEF Serialise, Doc, OnlyOf, Whole
<1>12. CASE SaveRefused
    <2>1. e = TRUE /\ up' /\ filename' = "enc" /\ pc' = "after" /\ ~written'
        BY <1>12 DEF SaveRefused
    <2>2. filename' = n /\ n # "plain"
        BY <2>1 DEF NameOf, n
    <2>3. pc = "idle" /\ UNCHANGED <<main, temp, expected, doc>>
        BY <1>12 DEF SaveRefused, disk
    <2> QED BY <2>1, <2>2, <2>3, <1>a DEF OnlyOf, Whole
<1>13. CASE RemoveBackup
    <2>1. pc = "unbackup" /\ pc' = "rename"
          /\ UNCHANGED <<main, temp, up, shouldEncrypt, filename, doc, written, expected>>
        BY <1>13 DEF RemoveBackup, Continue, process, history
    <2> QED BY <2>1, <1>a DEF OnlyOf, Whole
<1>14. CASE RenameToBackup
    <2>1. pc = "rename" /\ filename = n
        BY <1>14, <1>a DEF RenameToBackup, OnlyOf
    <2>2. CASE Fail /\ UNCHANGED disk
        BY <2>1, <2>2, <1>a, OnlyFail DEF disk
    <2>3. CASE BackUp /\ UNCHANGED temp /\ Continue("create")
        <3>1. main' = [main EXCEPT ![n] = Absent]
            BY <2>1, <2>3 DEF BackUp
        <3>2. main'[n] = Absent /\ \A m \in Names \ {n} : main'[m] = main[m]
            BY <3>1, <1>a, <1>b
        <3>3. pc' = "create" /\ UNCHANGED <<temp, up, shouldEncrypt, filename, doc, written, expected>>
            BY <2>3 DEF Continue, process, history
        <3> QED BY <2>1, <3>2, <3>3, <1>a, <1>c DEF OnlyOf, Whole
    <2>4. CASE ~Exists(main[n]) /\ UNCHANGED disk /\ Continue("create")
        <3>1. pc' = "create" /\ UNCHANGED <<main, temp, up, shouldEncrypt, filename, doc, written, expected>>
            BY <2>4 DEF Continue, process, history, disk
        <3> QED BY <2>1, <2>4, <3>1, <1>a DEF OnlyOf, Whole
    <2> QED BY <1>14, <2>1, <2>2, <2>3, <2>4 DEF RenameToBackup
<1>15. CASE CreateTemp
    <2>1. pc = "create" /\ filename = n /\ UNCHANGED main /\ main[n] = Absent
        BY <1>15, <1>a DEF CreateTemp, OnlyOf, Whole, Exists
    <2>2. CASE Fail /\ UNCHANGED temp
        BY <2>1, <2>2, <1>a, OnlyFail
    <2>3. CASE temp' = [temp EXCEPT ![filename] = Torn] /\ Continue("write")
        <3>1. temp'[n] = Torn /\ \A m \in Names \ {n} : temp'[m] = temp[m]
            BY <2>1, <2>3, <1>a, <1>b
        <3>2. pc' = "write" /\ UNCHANGED <<up, shouldEncrypt, filename, doc, written, expected>>
            BY <2>3 DEF Continue, process, history
        <3>3. Torn.kind # "doc"
            BY DEF Torn
        <3> QED BY <2>1, <3>1, <3>2, <3>3, <1>a, <1>c DEF OnlyOf, Whole
    <2> QED BY <1>15, <2>2, <2>3 DEF CreateTemp
<1>16. CASE WriteTemp
    <2>1. pc = "write" /\ filename = n /\ UNCHANGED main /\ main[n] = Absent
        BY <1>16, <1>a DEF WriteTemp, OnlyOf, Whole, Exists
    <2>2. CASE Fail /\ UNCHANGED temp
        BY <2>1, <2>2, <1>a, OnlyFail
    <2>3. CASE temp' = [temp EXCEPT ![filename] = doc] /\ Continue("install")
        <3>1. temp'[n] = doc /\ \A m \in Names \ {n} : temp'[m] = temp[m]
            BY <2>1, <2>3, <1>a, <1>b
        <3>2. pc' = "install" /\ UNCHANGED <<up, shouldEncrypt, filename, doc, written, expected>>
            BY <2>3 DEF Continue, process, history
        <3> QED BY <2>1, <3>1, <3>2, <1>a, <1>c DEF OnlyOf, Whole
    <2> QED BY <1>16, <2>2, <2>3 DEF WriteTemp
<1>17. CASE Install
    <2>1. pc = "install" /\ filename = n /\ temp[n] = doc /\ Whole(doc)
        BY <1>17, <1>a DEF Install, OnlyOf
    <2>2. CASE Fail /\ UNCHANGED <<main, temp>>
        BY <2>1, <2>2, <1>a, OnlyFail
    <2>3. CASE /\ main' = [main EXCEPT ![filename] = temp[filename]]
               /\ temp' = [temp EXCEPT ![filename] = Absent]
               /\ Continue("after")
        <3>1. /\ main'[n] = doc /\ temp'[n] = Absent
              /\ \A m \in Names \ {n} : main'[m] = main[m] /\ temp'[m] = temp[m]
            BY <2>1, <2>3, <1>a, <1>b
        <3>2. pc' = "after" /\ UNCHANGED <<up, shouldEncrypt, filename, doc, written, expected>>
            BY <2>3 DEF Continue, process, history
        <3>3. Absent.kind # "doc"
            BY DEF Absent
        <3> QED BY <2>1, <3>1, <3>2, <3>3, <1>a DEF OnlyOf, Whole
    <2> QED BY <1>17, <2>2, <2>3 DEF Install
<1>18. CASE RemoveOld
    <2>1. /\ pc = "after" /\ filename = n
          /\ UNCHANGED <<temp, up, shouldEncrypt, filename, pc, doc, written, expected>>
        BY <1>18, <1>a DEF RemoveOld, OnlyOf, saving
    <2>2. Head(afterSave) \in Names
        BY <1>18 DEF RemoveOld, TypeOK
    <2>3. main'[n] = main[n] /\ \A m \in Names \ {n} : main'[m] = main[m] \/ main'[m] = Absent
        BY <1>18, <2>1, <2>2, <1>a, <1>b DEF RemoveOld, IsOld
    <2> QED BY <2>1, <2>3, <1>a DEF OnlyOf, Whole
<1>19. CASE SaveEnd
    <2>1. pc = "after" /\ pc' = "idle" /\ filename = n
          /\ UNCHANGED <<main, temp, up, shouldEncrypt, filename>>
        BY <1>19, <1>a DEF SaveEnd, OnlyOf, disk, process
    <2>2. CASE written
        <3>1. expected' = {doc.ver} /\ main[n] = doc /\ Whole(doc)
            BY <1>19, <2>1, <2>2, <1>a DEF SaveEnd, OnlyOf
        <3>2. temp[n] = Absent /\ Absent.kind # "doc"
            BY <3>1, <1>a DEF OnlyOf, Whole, Absent
        <3> QED BY <2>1, <3>1, <3>2, <1>a DEF OnlyOf, Whole
    <2>3. CASE ~written
        <3>1. expected' = expected
            BY <1>19, <2>3 DEF SaveEnd
        <3> QED BY <2>1, <3>1, <1>a DEF OnlyOf, Whole
    <2> QED BY <2>2, <2>3
<1>20. CASE UNCHANGED vars
    <2>1. UNCHANGED <<main, temp, expected, up, shouldEncrypt, filename, pc, doc, written>>
        BY <1>20 DEF vars, disk, process, saving, history
    <2> QED BY <2>1, <1>a DEF OnlyOf, Whole
<1> QED BY <1>1, <1>2, <1>3, <1>5, <1>6, <1>7, <1>8, <1>9, <1>10, <1>11, <1>12, <1>13,
           <1>14, <1>15, <1>16, <1>17, <1>18, <1>19, <1>20 DEF Next, Save

\* A Save of another format is never forgotten.
LEMMA FormatsGrow ==
    ASSUME [Next]_vars
    PROVE  formats \subseteq formats'
<1>1. CASE LoadConfig \/ LoadInvalid
    BY <1>1 DEF LoadConfig, LoadInvalid, Start
<1>2. CASE Quit \/ Crash
    BY <1>2 DEF Quit, Crash, Stop
<1>3. CASE Edit \/ (\E encrypt \in BOOLEAN : InitialSetup(encrypt)) \/ ToggleEncryptedConfig
    BY <1>3 DEF Edit, InitialSetup, ToggleEncryptedConfig, history
<1>4. CASE ChoosePassword \/ CancelPassword
    BY <1>4 DEF ChoosePassword, CancelPassword, history
<1>5. CASE SavePlain \/ SaveEncrypted \/ SaveRefused
    BY <1>5 DEF SavePlain, SaveEncrypted, SaveRefused, Serialise
<1>6. CASE RemoveBackup \/ RenameToBackup \/ CreateTemp \/ WriteTemp \/ Install
    BY <1>6 DEF RemoveBackup, RenameToBackup, CreateTemp, WriteTemp, Install, Continue, Fail, history
<1>7. CASE RemoveOld \/ SaveEnd
    BY <1>7 DEF RemoveOld, SaveEnd
<1>8. CASE UNCHANGED vars
    BY <1>8 DEF vars, history
<1> QED BY <1>1, <1>2, <1>3, <1>4, <1>5, <1>6, <1>7, <1>8 DEF Next, Save

\* A step that leaves the files, what is expected and the mishaps as they are,
\* and the Save where it is or out of the way
LEMMA CopyUnchanged ==
    ASSUME NEW n \in Names, CopyOf(n), UNCHANGED <<disk, expected, mishaps>>,
           pc' = pc \/ {pc, pc'} \subseteq {"idle", "after"}
    PROVE  CopyOf(n)'
BY DEF CopyOf, Whole, disk

\* The first mishap strikes when there is a whole copy, whichever step it ends.
LEMMA CopyMishap ==
    ASSUME TypeOK, NEW n \in Names, CopyOf(n), Mishap, UNCHANGED <<disk, expected>>
    PROVE  CopyOf(n)'
<1>1. mishaps \in Nat /\ mishaps' = mishaps + 1
    BY DEF TypeOK, Mishap
<1>2. ASSUME 0 \notin expected, mishaps' = 1
      PROVE  \E f \in {main, backup, temp} : Whole(f[n])
    BY <1>1, <1>2 DEF CopyOf
<1> QED BY <1>1, <1>2 DEF CopyOf, Whole, disk

\* Until the first mishap is over and the next Save begins, a whole copy is in
\* one of the three files.
LEMMA CopyStep ==
    ASSUME TypeOK, CleanInv, NEW n \in Names, OnlyOf(n), OnlyOf(n)', CopyOf(n), [Next]_vars
    PROVE  CopyOf(n)'
<1>a. main \in [Names -> Contents] /\ backup \in [Names -> Contents] /\ mishaps \in Nat
    BY DEF TypeOK
<1>1. CASE LoadConfig
    <2>1. pc' = "idle" /\ pc = "idle" /\ UNCHANGED <<main, backup, temp, mishaps>>
        BY <1>1 DEF LoadConfig, Start, disk, saving, OnlyOf
    <2>2. expected' = {OnStart.ver} /\ Valid(OnStart)
        BY <1>1 DEF LoadConfig
    <2>3. OnStart = main[n] \/ OnStart = temp[n]
        BY <2>2, OnStartOnly DEF Valid, Exists
    <2>4. mishaps = 0 => OnStart = main[n]
        <3>1. mishaps = 0 => temp[n] = Absent
            BY <2>1 DEF CleanInv, Clean, OnDisk
        <3> QED BY <2>2, <2>3, <3>1 DEF Valid, Absent
    <2>5. mishaps = 0 => Whole(main[n])'
        BY <2>1, <2>2, <2>4 DEF Whole, Valid
    <2>6. \E f \in {main', backup', temp'} : f[n].kind = "doc" /\ f[n].ver \in expected'
        BY <2>1, <2>2, <2>3 DEF Valid
    <2> QED BY <2>1, <2>5, <2>6 DEF CopyOf, Whole
<1>2. CASE LoadInvalid
    <2>1. UNCHANGED <<disk, expected, mishaps, pc>>
        BY <1>2 DEF LoadInvalid, Start, saving
    <2> QED BY <2>1, CopyUnchanged
<1>3. CASE Quit
    <2>1. UNCHANGED <<disk, expected, mishaps, pc>>
        BY <1>3 DEF Quit, Stop
    <2> QED BY <2>1, CopyUnchanged
<1>4. CASE Crash
    <2>1. Mishap /\ UNCHANGED <<disk, expected>>
        BY <1>4 DEF Crash, Stop
    <2> QED BY <2>1, CopyMishap
<1>5. CASE Edit \/ \E encrypt \in BOOLEAN : InitialSetup(encrypt)
    <2>1. UNCHANGED <<disk, expected, mishaps, pc>>
        BY <1>5 DEF Edit, InitialSetup, saving, history
    <2> QED BY <2>1, CopyUnchanged
<1>6. CASE ToggleEncryptedConfig \/ ChoosePassword \/ CancelPassword
    <2>1. UNCHANGED <<disk, expected, mishaps, pc>>
        BY <1>6 DEF ToggleEncryptedConfig, ChoosePassword, CancelPassword, saving, history
    <2> QED BY <2>1, CopyUnchanged
<1>7. CASE SavePlain \/ SaveEncrypted
    <2>1. /\ pc = "idle" /\ pc' = "unbackup" /\ expected' = expected \union {mem}
          /\ UNCHANGED <<main, backup, temp, mishaps>>
        BY <1>7 DEF SavePlain, SaveEncrypted, Serialise, disk
    <2> QED BY <2>1 DEF CopyOf, Whole
<1>8. CASE SaveRefused
    <2>1. Mishap /\ UNCHANGED <<disk, expected>>
        BY <1>8 DEF SaveRefused
    <2> QED BY <2>1, CopyMishap
<1>9. CASE RemoveBackup
    <2>1. pc = "unbackup" /\ pc' = "rename" /\ UNCHANGED <<main, temp, expected, mishaps>>
        BY <1>9 DEF RemoveBackup, Continue, history
    <2> QED BY <2>1 DEF CopyOf, Whole
<1>10. CASE RenameToBackup
    <2>1. pc = "rename" /\ filename = n
        BY <1>10 DEF RenameToBackup, OnlyOf
    <2>2. CASE Fail /\ UNCHANGED disk
        BY <2>2, CopyMishap DEF Fail
    <2>3. CASE BackUp /\ Continue("create")
        <3>1. backup'[n] = main[n] /\ pc' = "create" /\ UNCHANGED <<expected, mishaps>>
            BY <2>1, <2>3, <1>a DEF BackUp, Continue, history
        <3> QED BY <2>1, <3>1 DEF CopyOf, Whole
    <2>4. CASE ~Exists(main[n]) /\ Continue("create")
        <3>1. pc' = "create" /\ UNCHANGED <<expected, mishaps>>
            BY <2>4 DEF Continue, history
        <3>2. ~Whole(main[n])
            BY <2>4 DEF Whole, Exists
        <3> QED BY <2>1, <3>1, <3>2 DEF CopyOf
    <2> QED BY <1>10, <2>1, <2>2, <2>3, <2>4 DEF RenameToBackup
<1>11. CASE CreateTemp \/ WriteTemp
    <2>1. pc \in {"create", "write"} /\ UNCHANGED <<main, backup>>
        BY <1>11 DEF CreateTemp, WriteTemp
    <2>2. CASE Fail /\ UNCHANGED temp
        BY <2>1, <2>2, CopyMishap DEF Fail, disk
    <2>3. CASE Continue("write") \/ Continue("install")
        <3>1. pc' \in {"write", "install"} /\ UNCHANGED <<expected, mishaps>>
            BY <2>3 DEF Continue, history
        <3> QED BY <2>1, <3>1 DEF CopyOf, Whole
    <2> QED BY <1>11, <2>2, <2>3 DEF CreateTemp, WriteTemp
<1>12. CASE Install
    <2>1. CASE Fail /\ UNCHANGED <<main, temp>>
        BY <1>12, <2>1, CopyMishap DEF Install, Fail, disk
    <2>2. CASE Continue("after")
        <3>1. pc' = "after" /\ written'
            BY <1>12, <2>2 DEF Install, OnlyOf, Continue
        <3>2. Whole(main[n])'
            BY <3>1 DEF OnlyOf
        <3> QED BY <3>1, <3>2 DEF CopyOf
    <2> QED BY <1>12, <2>1, <2>2 DEF Install
<1>13. CASE RemoveOld
    <2>1. pc = "after" /\ pc' = pc /\ filename = n /\ UNCHANGED <<backup, temp, expected, mishaps>>
        BY <1>13 DEF RemoveOld, OnlyOf, saving
    <2>2. Head(afterSave) \in Names
        BY <1>13 DEF RemoveOld, TypeOK
    <2>3. main'[n] = main[n]
        BY <1>13, <2>1, <2>2, <1>a DEF RemoveOld, IsOld
    <2> QED BY <2>1, <2>3 DEF CopyOf, Whole
<1>14. CASE SaveEnd
    <2>1. pc = "after" /\ pc' = "idle" /\ UNCHANGED <<disk, mishaps>>
        BY <1>14 DEF SaveEnd
    <2>2. CASE written
        <3>1. expected' = {doc.ver} /\ main[n] = doc /\ doc.kind = "doc"
            BY <1>14, <2>1, <2>2 DEF SaveEnd, OnlyOf, Whole
        <3>2. Whole(main[n])'
            BY <2>1, <3>1 DEF Whole, disk
        <3> QED BY <2>1, <3>2 DEF CopyOf
    <2>3. CASE ~written
        BY <1>14, <2>1, <2>3, CopyUnchanged DEF SaveEnd
    <2> QED BY <2>2, <2>3
<1>15. CASE UNCHANGED vars
    BY <1>15, CopyUnchanged DEF vars, saving, history
<1> QED BY <1>1, <1>2, <1>3, <1>4, <1>5, <1>6, <1>7, <1>8, <1>9, <1>10, <1>11, <1>12,
           <1>13, <1>14, <1>15 DEF Next, Save

\* For any number of Saves, crashes and failures, as long as every Save is of
\* one format.
THEOREM FormatAlways == Spec => []FormatInv
<1>1. Init => FormatInv
    <2> SUFFICES ASSUME Init, NEW e \in BOOLEAN PROVE OnlyOf(NameOf(e)) /\ CopyOf(NameOf(e))
        BY DEF FormatInv
    <2>1. ~Exists(Absent) /\ Absent.kind # "doc"
        BY DEF Exists, Absent
    <2>2. NameOf(e) \in Names /\ \A m \in Names : main[m] = Absent /\ temp[m] = Absent
        BY DEF Init, NameOf, Names
    <2>3. pc = "idle" /\ filename = "plain" /\ expected = {0}
        BY DEF Init
    <2> QED BY <2>1, <2>2, <2>3 DEF OnlyOf, CopyOf
<1>2. TypeOK /\ CleanInv /\ FormatInv /\ [Next]_vars => FormatInv'
    <2> SUFFICES ASSUME TypeOK, CleanInv, FormatInv, [Next]_vars,
                        NEW e \in BOOLEAN, formats' \subseteq {e}
                 PROVE  OnlyOf(NameOf(e))' /\ CopyOf(NameOf(e))'
        BY DEF FormatInv
    <2>1. formats \subseteq formats'
        BY FormatsGrow
    <2>2. OnlyOf(NameOf(e)) /\ CopyOf(NameOf(e))
        BY <2>1 DEF FormatInv
    <2>3. NameOf(e) \in Names
        BY DEF NameOf, Names
    <2>4. OnlyOf(NameOf(e))'
        BY <2>2, OnlyStep
    <2> QED BY <2>2, <2>3, <2>4, CopyStep
<1> QED BY <1>1, <1>2, ConfigTypeCorrect, CleanAlways, PTL DEF Spec

\* One format at most is one of the two, or none.
LEMMA OneFormatNamed ==
    ASSUME TypeOK, OneFormat
    PROVE  \E e \in BOOLEAN : formats \subseteq {e}
<1>1. SUFFICES ASSUME TRUE \in formats, FALSE \in formats PROVE FALSE
    BY DEF TypeOK
<1>2. IsFiniteSet(formats)
    <2>1. IsFiniteSet({} \union {TRUE})
        BY FS_EmptySet, FS_AddElement
    <2>2. IsFiniteSet(({} \union {TRUE}) \union {FALSE})
        BY <2>1, FS_AddElement
    <2>3. formats \subseteq ({} \union {TRUE}) \union {FALSE}
        BY DEF TypeOK
    <2> QED BY <2>2, <2>3, FS_Subset
<1>3. Cardinality(formats \ {TRUE}) = Cardinality(formats) - 1 /\ IsFiniteSet(formats \ {TRUE})
    BY <1>1, <1>2, FS_RemoveElement
<1>4. FALSE \in formats \ {TRUE}
    BY <1>1
<1>5. /\ Cardinality((formats \ {TRUE}) \ {FALSE}) = Cardinality(formats \ {TRUE}) - 1
      /\ IsFiniteSet((formats \ {TRUE}) \ {FALSE})
    BY <1>3, <1>4, FS_RemoveElement
<1>6. Cardinality(formats) \in Nat /\ Cardinality((formats \ {TRUE}) \ {FALSE}) \in Nat
    BY <1>2, <1>5, FS_CardinalityType
<1> QED BY <1>3, <1>5, <1>6 DEF OneFormat

\* ... so no crash and no failure brings an older configuration back ...
THEOREM NothingOldEver == Spec => []NothingOldComesBack
<1>1. TypeOK /\ FormatInv => NothingOldComesBack
    <2> SUFFICES ASSUME TypeOK, FormatInv, OneFormat, Valid(OnStart)
                 PROVE  OnStart.ver \in expected
        BY DEF NothingOldComesBack
    <2>1. PICK e \in BOOLEAN : formats \subseteq {e}
        BY OneFormatNamed
    <2>2. NameOf(e) \in Names /\ OnlyOf(NameOf(e))
        BY <2>1 DEF FormatInv, NameOf, Names
    <2>3. OnStart = main[NameOf(e)] \/ OnStart = temp[NameOf(e)]
        BY <2>2, OnStartOnly DEF Valid, Exists
    <2>4. OnStart # Absent
        BY DEF Valid, Absent
    <2>5. Whole(OnStart)
        BY <2>2, <2>3, <2>4 DEF OnlyOf, Valid
    <2> QED BY <2>5 DEF Whole
<1> QED BY <1>1, ConfigTypeCorrect, FormatAlways, PTL

\* ... and one of them alone leaves a whole copy for the user to put back.
THEOREM CopyAlwaysSurvives == Spec => []ACopySurvives
<1>1. TypeOK /\ FormatInv => ACopySurvives
    <2> SUFFICES ASSUME TypeOK, FormatInv, OneFormat, mishaps <= 1, ~up, 0 \notin expected
                 PROVE  \E f \in {main, backup, temp}, n \in Names :
                            f[n].kind = "doc" /\ f[n].ver \in expected
        BY DEF ACopySurvives
    <2>1. PICK e \in BOOLEAN : formats \subseteq {e}
        BY OneFormatNamed
    <2>2. NameOf(e) \in Names /\ OnlyOf(NameOf(e)) /\ CopyOf(NameOf(e))
        BY <2>1 DEF FormatInv, NameOf, Names
    <2>3. pc = "idle"
        BY <2>2 DEF OnlyOf
    <2>4. mishaps = 0 \/ mishaps = 1
        BY DEF TypeOK
    <2>5. \E f \in {main, backup, temp} : Whole(f[NameOf(e)])
        BY <2>2, <2>3, <2>4 DEF CopyOf
    <2> QED BY <2>2, <2>5 DEF Whole
<1> QED BY <1>1, ConfigTypeCorrect, FormatAlways, PTL

=============================================================================
