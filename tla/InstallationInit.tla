--------------------------- MODULE InstallationInit ---------------------------
(***************************************************************************)
(* Initialization of an installation: a home directory gets its layout,    *)
(* its settings and, last, its identity.  A lock file in the home keeps    *)
(* initializers apart, and a lock file beside each file keeps its writers  *)
(* apart; a process that dies leaves both, and an operator may remove them *)
(* by hand, also too early.  Two homes may name one state root.            *)
(* Source: scripts/tw_market_installation.py (initialize_installation,     *)
(* _initialize_locked, _atomic_json, resolve_installation) and             *)
(* scripts/m8r_filesystem_safety.py (atomic_write_bytes).                  *)
(***************************************************************************)
EXTENDS Naturals, FiniteSets

CONSTANTS
    Init_,      \* initializations; each draws an identity of its own
    Home, Root, \* home directories and state roots
    MaxRepairs, \* bound: lock files that an operator removes
    None

ASSUME InstallationInitAssumption ==
    /\ MaxRepairs \in Nat
    /\ None \notin Init_ \cup Home \cup Root \cup {"default", "edited"}
    /\ None \notin [id : Init_, root : Root]

Kind == {"settings", "metadata"}

VARIABLES
    lock,       \* the homes in which .installation-init.lock exists
    fileLock,   \* the homes in which the init lock of a file exists, by kind of file
    layout,     \* the homes and state roots whose directories exist
    data,       \* the state roots that hold records of a business store
    settings,   \* of each home: None, "default" or "edited"
    meta,       \* of each home: None or its identity and state root
    repairs,
    undercut,   \* the homes in which a file lock was removed under its holder, by kind
    pc,
    home, root, \* of each initialization: its home and the state root it goes by
    fresh,      \* it found no metadata
    file,       \* the file it is about
    result      \* what it returned: the identity, or None

files == <<layout, data, settings, meta>>
byHand == <<repairs, undercut>>
job == <<home, root, fresh, file, result>>
vars == <<lock, fileLock, files, byHand, pc, job>>

Init ==
    /\ lock = {}
    /\ fileLock = [k \in Kind |-> {}]
    /\ layout = {}
    /\ data \in SUBSET Root
    /\ settings = [h \in Home |-> None]
    /\ meta = [h \in Home |-> None]
    /\ repairs = 0
    /\ undercut = [k \in Kind |-> {}]
    /\ pc = [i \in Init_ |-> "new"]
    /\ home = [i \in Init_ |-> None]
    /\ root = [i \in Init_ |-> None]
    /\ fresh = [i \in Init_ |-> FALSE]
    /\ file = [i \in Init_ |-> "settings"]
    /\ result = [i \in Init_ |-> None]

Go(i, step) == pc' = [pc EXCEPT ![i] = step]
Meta(i) == meta[home[i]]

Begin(i) ==
    /\ pc[i] = "new"
    /\ Go(i, "lock")
    /\ home' \in {[home EXCEPT ![i] = h] : h \in Home}
    /\ root' \in {[root EXCEPT ![i] = r] : r \in Root}
    /\ UNCHANGED <<lock, fileLock, files, byHand, fresh, file, result>>

\* _home_init_lock
TakeLock(i) ==
    /\ pc[i] = "lock"
    /\ IF home[i] \in lock
       THEN Go(i, "refused") /\ UNCHANGED lock
       ELSE Go(i, "resolve") /\ lock' = lock \cup {home[i]}
    /\ UNCHANGED <<fileLock, files, byHand, job>>

\* resolve_installation: the state root of the metadata must be the one asked for.
Resolve(i) ==
    /\ pc[i] = "resolve"
    /\ Go(i, IF Meta(i) # None /\ Meta(i).root # root[i] THEN "fail" ELSE "inspect")
    /\ UNCHANGED <<lock, fileLock, files, byHand, job>>

\* A fresh installation does not take over state that lies in its roots.
InspectState(i) ==
    /\ pc[i] = "inspect"
    /\ fresh' = [fresh EXCEPT ![i] = Meta(i) = None]
    /\ Go(i, IF fresh'[i] /\ root[i] \in data THEN "fail" ELSE "layout")
    /\ UNCHANGED <<lock, fileLock, files, byHand, home, root, file, result>>

\* Directories are created, and each is probed by a write.
MakeLayout(i) ==
    /\ pc[i] = "layout"
    /\ \/ Go(i, "settings") /\ layout' = layout \cup {home[i], root[i]}
       \/ Go(i, "fail") /\ layout' \in SUBSET (layout \cup {home[i], root[i]})
                        /\ layout \subseteq layout'
    /\ UNCHANGED <<lock, fileLock, data, settings, meta, byHand, job>>

\* Mutant: the identity is published before the settings.
CheckSettingsLater(i) ==
    /\ pc[i] = "settings"
    /\ Go(i, "lock file")
    /\ file' = [file EXCEPT ![i] = IF fresh[i] THEN "metadata" ELSE "settings"]
    /\ UNCHANGED <<lock, fileLock, files, byHand, home, root, fresh, result>>

\* After the settings comes the identity of a fresh installation.
Settled(i) ==
    IF file[i] = "settings" /\ fresh[i]
    THEN Go(i, "lock file") /\ file' = [file EXCEPT ![i] = "metadata"]
    ELSE Go(i, "report") /\ UNCHANGED file

CheckSettings(i) ==
    /\ pc[i] = "settings"
    /\ IF settings[home[i]] = None THEN Go(i, "lock file") /\ UNCHANGED file ELSE Settled(i)
    /\ UNCHANGED <<lock, fileLock, files, byHand, home, root, fresh, result>>

-----------------------------------------------------------------------------
(* Publication of a file that must not exist *)

Exists(i) == IF file[i] = "settings" THEN settings[home[i]] # None ELSE Meta(i) # None

\* Mutant: the lock file is opened whether or not it exists.
LockFileAnyway(i) ==
    /\ pc[i] = "lock file"
    /\ Go(i, "check")
    /\ fileLock' = [fileLock EXCEPT ![file[i]] = @ \cup {home[i]}]
    /\ UNCHANGED <<lock, files, byHand, job>>

LockFile(i) ==
    /\ pc[i] = "lock file"
    /\ IF home[i] \in fileLock[file[i]]
       THEN Go(i, "locked out") /\ UNCHANGED fileLock
       ELSE Go(i, "check") /\ fileLock' = [fileLock EXCEPT ![file[i]] = @ \cup {home[i]}]
    /\ UNCHANGED <<lock, files, byHand, job>>

\* The lock of another initializer is an error only while its file does not exist.
LockedOut(i) ==
    /\ pc[i] = "locked out"
    /\ IF Exists(i) THEN Settled(i) ELSE Go(i, "fail") /\ UNCHANGED file
    /\ UNCHANGED <<lock, fileLock, files, byHand, home, root, fresh, result>>

\* A file that exists by now is left alone.
CheckFile(i) ==
    /\ pc[i] = "check"
    /\ Go(i, IF Exists(i) THEN "release" ELSE "stage")
    /\ UNCHANGED <<lock, fileLock, files, byHand, job>>

\* atomic_write_bytes looks once more and writes a temporary file: the disk may refuse.
StageFile(i) ==
    /\ pc[i] = "stage"
    /\ \/ Go(i, "drop")
       \/ ~Exists(i) /\ Go(i, "replace")
    /\ UNCHANGED <<lock, fileLock, files, byHand, job>>

\* os.replace does not look again; it may fail, and so may what is checked after it.
ReplaceFile(i) ==
    /\ pc[i] = "replace"
    /\ \/ Go(i, "drop") /\ UNCHANGED <<settings, meta>>
       \/ /\ Go(i, "release") \/ Go(i, "drop")
          /\ IF file[i] = "settings"
             THEN settings' = [settings EXCEPT ![home[i]] = "default"] /\ UNCHANGED meta
             ELSE /\ meta' = [meta EXCEPT ![home[i]] = [id |-> i, root |-> root[i]]]
                  /\ UNCHANGED settings
    /\ UNCHANGED <<lock, fileLock, layout, data, byHand, job>>

\* The lock file is removed on every way out, whoever made it.
ReleaseFile(i) ==
    /\ \/ pc[i] = "release" /\ Settled(i)
       \/ pc[i] = "drop" /\ Go(i, "fail") /\ UNCHANGED file
    /\ fileLock' = [fileLock EXCEPT ![file[i]] = @ \ {home[i]}]
    /\ UNCHANGED <<lock, files, byHand, home, root, fresh, result>>

Writing(i, k) == file[i] = k /\ pc[i] \in {"check", "stage", "replace", "release", "drop"}

-----------------------------------------------------------------------------
(* The end, and the world around *)

Ready(i) == Meta(i) # None /\ settings[home[i]] # None /\ {home[i], Meta(i).root} \subseteq layout

\* Mutant: the identity that was drawn is reported.
ReportOwn(i) ==
    /\ pc[i] = "report"
    /\ Go(i, "unlock")
    /\ result' = [result EXCEPT ![i] = IF fresh[i] THEN i ELSE Meta(i).id]
    /\ UNCHANGED <<lock, fileLock, files, byHand, home, root, fresh, file>>

\* The installation is resolved again, and what the disk says is reported.
Report(i) ==
    /\ pc[i] = "report"
    /\ IF Meta(i) # None /\ Meta(i).root # root[i]
       THEN Go(i, "fail") /\ UNCHANGED result
       ELSE /\ Go(i, "unlock")
            /\ result' = [result EXCEPT ![i] = IF Ready(i) THEN Meta(i).id ELSE None]
    /\ UNCHANGED <<lock, fileLock, files, byHand, home, root, fresh, file>>

\* The lock file is removed on every way out, whoever made it.
Unlock(i) ==
    /\ pc[i] \in {"unlock", "fail"}
    /\ Go(i, IF pc[i] = "fail" THEN "refused" ELSE "done")
    /\ lock' = lock \ {home[i]}
    /\ UNCHANGED <<fileLock, files, byHand, job>>

Kill(i) ==
    /\ pc[i] \notin {"new", "refused", "done", "killed"}
    /\ Go(i, "killed")
    /\ UNCHANGED <<lock, fileLock, files, byHand, job>>

\* An operator removes a lock file.
Repair(h) ==
    /\ repairs < MaxRepairs
    /\ repairs' = repairs + 1
    /\ \/ h \in lock /\ lock' = lock \ {h} /\ UNCHANGED <<fileLock, undercut>>
       \/ \E k \in Kind :
             /\ h \in fileLock[k]
             /\ fileLock' = [fileLock EXCEPT ![k] = @ \ {h}]
             /\ undercut' = [undercut EXCEPT ![k] =
                                @ \cup {home[i] : i \in {j \in Init_ : home[j] = h /\ Writing(j, k)}}]
             /\ UNCHANGED lock
    /\ UNCHANGED <<files, pc, job>>

\* An installation in use: its stores get records, its settings are edited.
Use(h) ==
    /\ meta[h] # None /\ settings[h] # None
    /\ \/ data' = data \cup {meta[h].root} /\ UNCHANGED settings
       \/ settings' = [settings EXCEPT ![h] = "edited"] /\ UNCHANGED data
    /\ UNCHANGED <<lock, fileLock, layout, meta, byHand, pc, job>>

Step(i) ==
    \/ Begin(i) \/ TakeLock(i) \/ Resolve(i) \/ InspectState(i) \/ MakeLayout(i)
    \/ CheckSettings(i) \/ LockFile(i) \/ LockedOut(i) \/ CheckFile(i)
    \/ StageFile(i) \/ ReplaceFile(i) \/ ReleaseFile(i) \/ Report(i) \/ Unlock(i)

Next == \/ \E i \in Init_ : Step(i) \/ Kill(i)
        \/ \E h \in Home : Repair(h) \/ Use(h)

Spec == Init /\ [][Next]_vars

-----------------------------------------------------------------------------
(* Properties *)

TypeOK ==
    /\ lock \subseteq Home /\ fileLock \in [Kind -> SUBSET Home]
    /\ layout \subseteq Home \cup Root /\ data \subseteq Root
    /\ settings \in [Home -> {None, "default", "edited"}]
    /\ meta \in [Home -> [id : Init_, root : Root] \cup {None}]
    /\ repairs \in 0..MaxRepairs /\ undercut \in [Kind -> SUBSET Home]
    /\ home \in [Init_ -> Home \cup {None}] /\ root \in [Init_ -> Root \cup {None}]
    /\ fresh \in [Init_ -> BOOLEAN] /\ file \in [Init_ -> Kind]
    /\ result \in [Init_ -> Init_ \cup {None}]

\* An identity on disk stands for a whole installation: it is published last, so a killed
\* or failed initializer never leaves one without settings or directories.
IdentityComesLast ==
    \A h \in Home : meta[h] # None => settings[h] # None /\ {h, meta[h].root} \subseteq layout

\* Whatever initializers met and however early the lock of the home was removed: as long as
\* the lock of the metadata file was not removed under its holder, each that reported an
\* installation ready reported the identity and the state root that are on disk.
IdentityIsAgreed ==
    \A i \in Init_ : result[i] # None /\ home[i] \notin undercut["metadata"] =>
        /\ meta[home[i]] # None /\ meta[home[i]].id = result[i]
        /\ meta[home[i]].root = root[i]

\* While no operator has removed a lock file, at most one initializer is inside a home.
Inside(i) == pc[i] \notin {"new", "lock", "refused", "done", "killed"}
OneInitializer ==
    repairs = 0 => \A i, j \in Init_ : i # j /\ Inside(i) /\ Inside(j) => home[i] # home[j]

\* An identity once published, and settings an operator has edited, are never replaced,
\* unless the lock of that very file was removed under its holder: os.replace does not look.
NothingIsReplaced ==
    [][\A h \in Home :
         /\ meta[h] # None /\ h \notin undercut["metadata"] => meta'[h] = meta[h]
         /\ settings[h] = "edited" /\ h \notin undercut["settings"] => settings'[h] = "edited"]_vars

=============================================================================
