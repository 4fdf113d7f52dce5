----------------------------- MODULE ConfigFile -----------------------------
(***************************************************************************)
(* The configuration file: config/file.go (safeWrite, findConfigFile,      *)
(* readFileOrTemporaryBackup), the loading and saving of                   *)
(* config/application_config.go with encryption turned on and off, and the *)
(* password suppliers of config/encrypted_config.go and                    *)
(* gui/master_password.go.                                                 *)
(*                                                                         *)
(* Every call that touches the disk is a step of its own, so that the      *)
(* program can stop between any two of them: SaveConfig runs in a          *)
(* goroutine that quitting does not wait for.  A file that was not written *)
(* to its end is Torn.  Writes that have returned survive the process.     *)
(***************************************************************************)
EXTENDS Naturals, Sequences, FiniteSets

CONSTANTS
    MaxVersion,    \* bound on the number of configurations
    MaxToggles,    \* bound on turning encryption on or off
    MaxMishaps     \* bound on crashes, failing calls and refused passwords

ASSUME ConfigAssumption ==
    /\ MaxVersion \in Nat
    /\ MaxToggles \in Nat
    /\ MaxMishaps \in Nat

Names == {"plain", "enc"}          \* accounts.json and accounts.json.enc
Versions == 0 .. MaxVersion        \* 0 is the configuration without accounts

Contents == [kind : {"absent", "torn", "doc"}, ver : Versions, encrypted : BOOLEAN]
Absent == [kind |-> "absent", ver |-> 0, encrypted |-> FALSE]
Torn == [kind |-> "torn", ver |-> 0, encrypted |-> FALSE]
Doc(v, e) == [kind |-> "doc", ver |-> v, encrypted |-> e]

VARIABLES
    main, backup, temp,  \* name, name.backup.000~ and name.000~, by name
    up,                  \* the program runs and has a configuration
    mem,                 \* the version in memory
    shouldEncrypt,       \* ApplicationConfig.shouldEncrypt
    filename,            \* ApplicationConfig.filename
    afterSave,           \* the old files afterSave will remove, in order
    pc,                  \* where the holder of ioLock is in Save
    doc,                 \* the serialised (and encrypted) data of that Save
    written,             \* safeWrite has not failed
    onetime,             \* the onetimeSavedPassword suppliers with a password left
    cached,              \* cachingKeySupplier.haveKeys
    asking,              \* dialogs of captureInitialMainPassword, from the menu
    setup,               \* the initial set-up: its question, then its dialog
    \* observations
    expected,            \* versions a restart may rightly find
    formats,             \* of the Saves so far, by whether they encrypt
    kept,                \* names a whole file was saved under and not removed from
    toggles, mishaps     \* counters of the bounds

disk == <<main, backup, temp>>
process == <<up, mem, shouldEncrypt, filename, afterSave>>
saving == <<pc, doc, written>>
supplier == <<onetime, cached, asking, setup>>
history == <<expected, formats, kept, toggles, mishaps>>
vars == <<disk, process, saving, supplier, history>>

Steps == {"idle", "unbackup", "rename", "create", "write", "install", "after"}

TypeOK ==
    /\ main \in [Names -> Contents]
    /\ backup \in [Names -> Contents]
    /\ temp \in [Names -> Contents]
    /\ up \in BOOLEAN
    /\ mem \in Versions
    /\ shouldEncrypt \in BOOLEAN
    /\ filename \in Names
    /\ afterSave \in Seq(Names)
    /\ pc \in Steps
    /\ doc \in Contents
    /\ written \in BOOLEAN
    /\ onetime \in Nat
    /\ cached \in BOOLEAN
    /\ asking \in Nat
    /\ setup \in {"none", "offered", "dialog"}
    /\ expected \subseteq Versions
    /\ formats \subseteq BOOLEAN
    /\ kept \subseteq Names
    /\ toggles \in 0 .. MaxToggles
    /\ mishaps \in 0 .. MaxMishaps

Exists(file) == file.kind # "absent"

\* findConfigFile: the encrypted file if it or its temporary file exists
findConfigFile ==
    IF Exists(main["enc"]) \/ Exists(temp["enc"]) THEN "enc" ELSE "plain"

\* mutant: the backup's name in place of the file's
ReadBackupFirst(name) == IF Exists(backup[name]) THEN backup[name] ELSE main[name]

\* readFileOrTemporaryBackup: the file, else its temporary file.  (The branch
\* for an empty file needs a file nobody writes: only whole files are renamed.)
readFileOrTemporaryBackup(name) ==
    IF Exists(main[name]) THEN main[name] ELSE temp[name]

\* What a start would read, and whether tryLoad accepts it given the password
OnStart == readFileOrTemporaryBackup(findConfigFile)
Valid(file) == file.kind = "doc" /\ file.ver # 0

Init ==
    /\ main = [n \in Names |-> Absent]
    /\ backup = [n \in Names |-> Absent]
    /\ temp = [n \in Names |-> Absent]
    /\ up = FALSE
    /\ mem = 0
    /\ shouldEncrypt = FALSE
    /\ filename = "plain"
    /\ afterSave = <<>>
    /\ pc = "idle"
    /\ doc = Absent
    /\ written = FALSE
    /\ onetime = 0
    /\ cached = FALSE
    /\ asking = 0
    /\ setup = "none"
    /\ expected = {0}
    /\ formats = {}
    /\ kept = {}
    /\ toggles = 0
    /\ mishaps = 0

-----------------------------------------------------------------------------
(* Starting *)

\* An encrypted file leaves shouldEncrypt set and its key in the cache
Start ==
    /\ up' = TRUE
    /\ mem' = OnStart.ver
    /\ shouldEncrypt' = OnStart.encrypted
    /\ filename' = findConfigFile
    /\ cached' = OnStart.encrypted
    /\ UNCHANGED <<disk, afterSave, saving, onetime, asking, formats, kept, toggles, mishaps>>

\* loadConfig, LoadOrCreate, tryLoad.  For an encrypted file the password is
\* asked for again, with an empty cache, until it is right.
LoadConfig ==
    /\ ~up
    /\ Valid(OnStart)
    /\ Start
    /\ expected' = {OnStart.ver}
    /\ UNCHANGED setup

\* errInvalidConfigFile: loadConfig takes the empty configuration and offers
\* the initial set-up.  A file that decrypts to a configuration without
\* accounts has set shouldEncrypt by then.
LoadInvalid ==
    /\ ~up
    /\ ~Valid(OnStart)
    /\ Start
    /\ setup' = "offered"
    /\ UNCHANGED expected

Stop ==
    /\ up' = FALSE
    /\ mem' = 0
    /\ shouldEncrypt' = FALSE
    /\ filename' = "plain"
    /\ afterSave' = <<>>
    /\ pc' = "idle"
    /\ doc' = Absent
    /\ written' = FALSE
    /\ onetime' = 0
    /\ cached' = FALSE
    /\ asking' = 0
    /\ setup' = "none"
    /\ UNCHANGED <<disk, expected, formats, kept, toggles>>

\* The user quits while nothing is being saved
Quit ==
    /\ up
    /\ pc = "idle"
    /\ Stop
    /\ UNCHANGED mishaps

Mishap ==
    /\ mishaps < MaxMishaps
    /\ mishaps' = mishaps + 1

\* The process ends between two steps of a Save: a crash, or quitting
Crash ==
    /\ up
    /\ pc # "idle"
    /\ Mishap
    /\ Stop

-----------------------------------------------------------------------------
(* The user *)

\* Accounts, peers, fingerprints, preferences: a new version in memory.
\* None of them takes ioLock; the question of the initial set-up is modal.
Edit ==
    /\ up
    /\ setup # "offered"
    /\ mem < MaxVersion
    /\ mem' = mem + 1
    /\ UNCHANGED <<disk, up, shouldEncrypt, filename, afterSave, saving, supplier, history>>

\* mutant: the old file is forgotten
KeepOldFile == UNCHANGED afterSave

removeOldFileOnNextSave == afterSave' = Append(afterSave, filename)

\* turnOnEncryption, turnOffEncryption: under ioLock
turnOnEncryption ==
    /\ pc = "idle"
    /\ ~shouldEncrypt
    /\ shouldEncrypt' = TRUE
    /\ IF filename # "enc"
         THEN removeOldFileOnNextSave /\ filename' = "enc"
         ELSE UNCHANGED <<afterSave, filename>>

turnOffEncryption ==
    /\ pc = "idle"
    /\ shouldEncrypt
    /\ shouldEncrypt' = FALSE
    /\ removeOldFileOnNextSave
    /\ filename' = "plain"

\* SetShouldSaveFileEncrypted: nothing happens if it is so already
SetShouldSaveFileEncrypted(val) ==
    \/ val /\ turnOnEncryption
    \/ ~val /\ turnOffEncryption
    \/ /\ pc = "idle"
       /\ shouldEncrypt = val
       /\ UNCHANGED <<shouldEncrypt, filename, afterSave>>

\* initialSetupForConfigFile: wouldYouLikeToEncryptYourFile
InitialSetup(encrypt) ==
    /\ up
    /\ setup = "offered"
    /\ setup' = IF encrypt THEN "dialog" ELSE "none"
    /\ SetShouldSaveFileEncrypted(encrypt)
    /\ UNCHANGED <<disk, up, mem, saving, onetime, cached, asking, history>>

\* toggleEncryptedConfig: when encryption was turned on, a password is asked
\* for by a dialog that holds no lock and blocks nothing
ToggleEncryptedConfig ==
    /\ up
    /\ setup # "offered"
    /\ toggles < MaxToggles
    /\ toggles' = toggles + 1
    /\ \/ turnOnEncryption /\ asking' = asking + 1
       \/ turnOffEncryption /\ UNCHANGED asking
    /\ UNCHANGED <<disk, up, mem, saving, onetime, cached, setup, expected, formats,
                   kept, mishaps>>

\* captureInitialMainPassword, on_save: one more onetimeSavedPassword on top
\* of the supplier there is
ChoosePassword ==
    /\ up
    /\ \/ asking > 0 /\ asking' = asking - 1 /\ UNCHANGED setup
       \/ setup = "dialog" /\ setup' = "none" /\ UNCHANGED asking
    /\ onetime' = onetime + 1
    /\ UNCHANGED <<disk, process, saving, cached, history>>

\* captureInitialMainPassword, on_cancel: from the menu encryption is turned
\* off again, from the initial set-up nothing happens
CancelPassword ==
    /\ up
    /\ \/ /\ asking > 0
          /\ asking' = asking - 1
          /\ SetShouldSaveFileEncrypted(FALSE)
          /\ UNCHANGED setup
       \/ /\ setup = "dialog"
          /\ setup' = "none"
          /\ UNCHANGED <<asking, shouldEncrypt, filename, afterSave>>
    /\ UNCHANGED <<disk, up, mem, saving, onetime, cached, history>>

-----------------------------------------------------------------------------
(* Save.  ioLock is held from SaveBegin until pc is idle again. *)

\* Save has serialised the version in memory
Serialise(encrypted) ==
    /\ doc' = Doc(mem, encrypted)
    /\ written' = TRUE
    /\ pc' = "unbackup"
    /\ expected' = expected \union {mem}
    /\ formats' = formats \union {encrypted}

SavePlain ==
    /\ up
    /\ setup # "offered"
    /\ pc = "idle"
    /\ ~shouldEncrypt
    /\ Serialise(FALSE)
    /\ UNCHANGED <<disk, process, supplier, kept, toggles, mishaps>>

\* A password that was saved for one use, else the cached key, else the user
\* is asked and the answer is cached
GenerateKey ==
    IF onetime > 0
      THEN onetime' = onetime - 1 /\ UNCHANGED cached
      ELSE cached' = TRUE /\ UNCHANGED onetime

SaveEncrypted ==
    /\ up
    /\ setup # "offered"
    /\ pc = "idle"
    /\ shouldEncrypt
    /\ filename' = "enc"
    /\ GenerateKey
    /\ Serialise(TRUE)
    /\ UNCHANGED <<disk, up, mem, shouldEncrypt, afterSave, asking, setup, kept, toggles, mishaps>>

\* getMainPassword is cancelled: Save returns the error, after onAfterSave
SaveRefused ==
    /\ up
    /\ setup # "offered"
    /\ pc = "idle"
    /\ shouldEncrypt
    /\ onetime = 0
    /\ ~cached
    /\ filename' = "enc"
    /\ Mishap
    /\ formats' = formats \union {TRUE}
    /\ written' = FALSE
    /\ pc' = "after"
    /\ UNCHANGED <<disk, up, mem, shouldEncrypt, afterSave, doc, supplier, expected, kept, toggles>>

Continue(next) ==
    /\ pc' = next
    /\ UNCHANGED <<process, doc, written, supplier, history>>

\* safeWrite returns an error: Save runs onAfterSave all the same
Fail ==
    /\ Mishap
    /\ pc' = "after"
    /\ written' = FALSE
    /\ UNCHANGED <<process, doc, supplier, expected, formats, kept, toggles>>

\* os.Remove(backupName), its error ignored
RemoveBackup ==
    /\ pc = "unbackup"
    /\ backup' = [backup EXCEPT ![filename] = Absent]
    /\ UNCHANGED <<main, temp>>
    /\ Continue("rename")

\* mutant: the file is removed, not renamed
RemoveInPlace ==
    /\ UNCHANGED backup
    /\ main' = [main EXCEPT ![filename] = Absent]

BackUp ==
    /\ backup' = [backup EXCEPT ![filename] = main[filename]]
    /\ main' = [main EXCEPT ![filename] = Absent]

\* osRename(name, backupName), if there is a file
RenameToBackup ==
    /\ pc = "rename"
    /\ IF Exists(main[filename])
         THEN \/ BackUp /\ UNCHANGED temp /\ Continue("create")
              \/ UNCHANGED disk /\ Fail
         ELSE UNCHANGED disk /\ Continue("create")

\* ioutil.WriteFile(tempName): opened and truncated
CreateTemp ==
    /\ pc = "create"
    /\ UNCHANGED <<main, backup>>
    /\ \/ temp' = [temp EXCEPT ![filename] = Torn] /\ Continue("write")
       \/ UNCHANGED temp /\ Fail

\* ... and written
WriteTemp ==
    /\ pc = "write"
    /\ UNCHANGED <<main, backup>>
    /\ \/ temp' = [temp EXCEPT ![filename] = doc] /\ Continue("install")
       \/ UNCHANGED temp /\ Fail

\* osRename(tempName, name)
Install ==
    /\ pc = "install"
    /\ UNCHANGED backup
    /\ \/ /\ main' = [main EXCEPT ![filename] = temp[filename]]
          /\ temp' = [temp EXCEPT ![filename] = Absent]
          /\ Continue("after")
       \/ UNCHANGED <<main, temp>> /\ Fail

\* mutant: the check of the current name is missing
RemoveAny(name) == TRUE

IsOld(name) == name # filename

\* onAfterSave, one function at a time: os.Remove(oldFilename)
RemoveOld ==
    /\ pc = "after"
    /\ afterSave # <<>>
    /\ afterSave' = Tail(afterSave)
    /\ IF IsOld(Head(afterSave))
         THEN /\ main' = [main EXCEPT ![Head(afterSave)] = Absent]
              /\ kept' = kept \ {Head(afterSave)}
         ELSE UNCHANGED <<main, kept>>
    /\ UNCHANGED <<backup, temp, up, mem, shouldEncrypt, filename, saving, supplier,
                   expected, formats, toggles, mishaps>>

\* Save returns
SaveEnd ==
    /\ pc = "after"
    /\ afterSave = <<>>
    /\ pc' = "idle"
    /\ expected' = IF written THEN {doc.ver} ELSE expected
    /\ kept' = IF written THEN kept \union {filename} ELSE kept
    /\ doc' = Absent
    /\ written' = FALSE
    /\ UNCHANGED <<disk, process, supplier, formats, toggles, mishaps>>

Save ==
    \/ SavePlain
    \/ SaveEncrypted
    \/ SaveRefused
    \/ RemoveBackup
    \/ RenameToBackup
    \/ CreateTemp
    \/ WriteTemp
    \/ Install
    \/ RemoveOld
    \/ SaveEnd

Next ==
    \/ LoadConfig
    \/ LoadInvalid
    \/ Quit
    \/ Crash
    \/ Edit
    \/ \E encrypt \in BOOLEAN : InitialSetup(encrypt)
    \/ ToggleEncryptedConfig
    \/ ChoosePassword
    \/ CancelPassword
    \/ Save

Spec == Init /\ [][Next]_vars

-----------------------------------------------------------------------------
(* Properties *)

\* As long as nothing went wrong, what was saved (or loaded) last is what the
\* next start reads, through every combination of encrypting, decrypting and
\* saving, whichever files an earlier format left (findConfigFile, Save).
SavedIsFound ==
    mishaps = 0 /\ pc = "idle" /\ expected # {0} =>
        Valid(OnStart) /\ {OnStart.ver} = expected

\* The strengthening that carries the two properties of a run without mishaps:
\* where the file is at each step of a Save, and that onAfterSave is going to
\* remove the file of another name.
Pending(n) == \E i \in 1 .. Len(afterSave) : afterSave[i] = n

FileIsWhole(n) ==
    Exists(main[n]) => main[n].kind = "doc" /\ main[n].encrypted = (n = "enc")

OnDisk(n) ==
    /\ FileIsWhole(n)
    /\ pc \notin {"write", "install"} \/ n # filename => temp[n] = Absent
    /\ up /\ n # filename /\ Exists(main[n]) => Pending(n)

AtRest ==
    /\ \A n \in Names : Exists(main[n]) =>
          expected = {main[n].ver} /\ \A m \in Names \ {n} : ~Exists(main[m])
    /\ (\A n \in Names : ~Exists(main[n])) => expected = {0}

InSave ==
    /\ up
    /\ written
    /\ doc.kind = "doc"
    /\ doc.encrypted = (filename = "enc")
    /\ pc = "install" => temp[filename] = doc
    /\ pc = "after" => main[filename] = doc

Clean ==
    /\ up => shouldEncrypt = (filename = "enc")
    /\ \A n \in Names : OnDisk(n)
    /\ pc = "idle" => AtRest
    /\ pc # "idle" => InSave

CleanInv == mishaps = 0 => Clean

OneFormat == Cardinality(formats) <= 1

\* What carries the two properties of Saves of one format through crashes and
\* failures.  Only files of that format's name are there, the file or its
\* temporary file and never both, and each whole one has an expected version.
NameOf(encrypted) == IF encrypted THEN "enc" ELSE "plain"

Whole(file) == file.kind = "doc" /\ file.ver \in expected

OnlyOf(n) ==
    /\ \A m \in Names \ {n} : main[m] = Absent /\ temp[m] = Absent
    /\ main[n] # Absent => Whole(main[n]) /\ temp[n] = Absent
    /\ Exists(main[n]) => pc \notin {"create", "write", "install"}
    /\ temp[n].kind = "doc" => Whole(temp[n])
    /\ n = "plain" /\ ~shouldEncrypt => filename = n
    /\ pc # "idle" => up /\ filename = n
    /\ pc \notin {"idle", "after"} => written /\ Whole(doc)
    /\ pc = "install" => temp[n] = doc
    /\ pc = "after" /\ written => Whole(doc) /\ main[n] = doc

\* Before the first mishap the whole copy is the file, or the backup from when
\* the file is renamed to when the new one has its name; after it, one of the
\* three as soon as no Save is at work on them.
CopyOf(n) ==
    0 \notin expected =>
        /\ mishaps = 0 =>
              IF pc \in {"create", "write", "install"} THEN Whole(backup[n]) ELSE Whole(main[n])
        /\ mishaps = 1 /\ pc \in {"idle", "after"} =>
              \E f \in {main, backup, temp} : Whole(f[n])

FormatInv ==
    \A e \in BOOLEAN : formats \subseteq {e} => OnlyOf(NameOf(e)) /\ CopyOf(NameOf(e))

\* As long as every Save was of one format, no crash and no failure, at any
\* step of any number of Saves, makes an older configuration come back: a
\* start finds the last one that was saved, one that was being written since,
\* or none at all (safeWrite, readFileOrTemporaryBackup).
NothingOldComesBack ==
    OneFormat /\ Valid(OnStart) => OnStart.ver \in expected

\* As long as every Save was of one format, a single mishap leaves a whole
\* copy of the old or the new configuration in one of the files, for the user
\* to put back (safeWrite's backup).
ACopySurvives ==
    OneFormat /\ mishaps <= 1 /\ ~up /\ 0 \notin expected =>
        \E f \in {main, backup, temp}, n \in Names :
            f[n].kind = "doc" /\ f[n].ver \in expected

\* Without a mishap, once the format the user asked for has been saved, that
\* format is the one a start finds, and no file of the other is left for it to
\* be confused with (removeOldFileOnNextSave, onAfterSave).
OneFormatRemains ==
    (/\ mishaps = 0
     /\ up
     /\ pc = "idle"
     /\ afterSave = <<>>
     /\ expected # {0}) =>
        /\ OnStart.encrypted = shouldEncrypt
        /\ \A n \in Names : Exists(main[n]) => n = filename

\* "it will remove the old configuration file" (SetShouldSaveFileEncrypted):
\* when a Save has written the new format and run what was left for after it,
\* the next start looks for the file that was written.  Not so of this code: the
\* temporary file an interrupted encrypted Save left is found before it.
OldFileIsRemoved ==
    pc = "after" /\ written /\ afterSave = <<>> => findConfigFile = filename

\* "This function will leave a backup of the config file every time it writes"
\* (safeWrite): whenever a Save has written over what an earlier one had
\* saved under that name, the backup is there.  Not so of this code: a Save after
\* one that failed removes the backup and has nothing to rename to it.
BackupEveryWrite ==
    pc = "after" /\ written /\ filename \in kept => Exists(backup[filename])

=============================================================================
