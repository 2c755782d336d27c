----------------------- MODULE InstallationInitProofs -----------------------
(***************************************************************************)
(* Proofs about InstallationInit for every set of initializations, homes   *)
(* and state roots and every number of lock files removed by hand.         *)
(***************************************************************************)
EXTENDS InstallationInit, TLAPS

Steps == {"new", "lock", "resolve", "inspect", "layout", "settings", "lock file", "locked out",
          "check", "stage", "replace", "release", "drop", "report", "unlock", "fail",
          "refused", "done", "killed"}

Types ==
    /\ TypeOK
    /\ pc \in [Init_ -> Steps]
    /\ \A i \in Init_ : pc[i] # "new" => home[i] \in Home /\ root[i] \in Root

\* Until it has settled the settings an initializer is about them.
Early == {"new", "lock", "resolve", "inspect", "layout", "settings"}
AboutSettings == \A i \in Init_ : pc[i] \in Early => file[i] = "settings"

\* An initializer that is past the layout has both directories, and one that goes for the
\* metadata file, or is done with the settings file, has the settings before it.
Locking == {"lock file", "locked out", "check", "stage", "replace", "release", "drop"}
LaidOut == {"settings"} \cup Locking
Prepared ==
    \A i \in Init_ :
        /\ pc[i] \in LaidOut => {home[i], root[i]} \subseteq layout
        /\ pc[i] \in Locking /\ file[i] = "metadata" => settings[home[i]] # None
        /\ pc[i] = "release" => Exists(i)

\* Who writes a file holds its lock, alone, and who is past the check finds no such file,
\* as long as the lock was not removed under its holder.
FileLockHeld ==
    \A i \in Init_, k \in Kind : Writing(i, k) /\ home[i] \notin undercut[k] =>
        /\ home[i] \in fileLock[k]
        /\ pc[i] \in {"stage", "replace"} => ~Exists(i)
OneWriter ==
    \A i, j \in Init_, k \in Kind :
        i # j /\ Writing(i, k) /\ Writing(j, k) /\ home[i] = home[j] => home[i] \in undercut[k]

\* Nothing is reported before the home is known.
ReportedLate == \A i \in Init_ : result[i] # None => pc[i] # "new"

\* Until an operator interferes, who is inside holds the lock of its home, alone.
LockHeld == repairs = 0 => \A i \in Init_ : Inside(i) => home[i] \in lock

Inv == /\ Types
       /\ AboutSettings /\ Prepared /\ IdentityComesLast
       /\ FileLockHeld /\ OneWriter
       /\ ReportedLate /\ IdentityIsAgreed
       /\ LockHeld /\ OneInitializer

\* Nothing is locked, written or reported at the beginning.
LEMMA InvInit == Init => Inv
BY InstallationInitAssumption
   DEF Init, Inv, Types, TypeOK, Steps, Kind, AboutSettings, Prepared, LaidOut, Locking, IdentityComesLast,
       FileLockHeld, OneWriter, Writing, ReportedLate, IdentityIsAgreed, LockHeld, OneInitializer,
       Inside

\* A step of one initializer moves the program counter of that one only.
LEMMA GoType ==
    ASSUME pc \in [Init_ -> Steps], NEW i \in Init_, NEW s \in Steps, Go(i, s)
    PROVE  /\ pc' \in [Init_ -> Steps] /\ pc'[i] = s
           /\ \A j \in Init_ : j # i => pc'[j] = pc[j]
BY DEF Go

\* What follows a file that is settled.
LEMMA SettledType ==
    ASSUME file \in [Init_ -> Kind], NEW i \in Init_, Settled(i)
    PROVE  /\ file' \in [Init_ -> Kind]
           /\ \A j \in Init_ : j # i => file'[j] = file[j]
           /\ \/ Go(i, "lock file") /\ file[i] = "settings" /\ file'[i] = "metadata"
              \/ Go(i, "report") /\ file' = file
BY DEF Settled, Kind

\* Taking or giving back the lock of a file keeps the type of the locks.
LEMMA FileLockType ==
    ASSUME fileLock \in [Kind -> SUBSET Home], NEW k \in Kind, NEW h \in Home
    PROVE  /\ [fileLock EXCEPT ![k] = @ \cup {h}] \in [Kind -> SUBSET Home]
           /\ [fileLock EXCEPT ![k] = @ \ {h}] \in [Kind -> SUBSET Home]
<1>1. fileLock[k] \in SUBSET Home
  OBVIOUS
<1>2. fileLock[k] \cup {h} \in SUBSET Home /\ fileLock[k] \ {h} \in SUBSET Home
  BY <1>1
<1> QED BY <1>2

\* What is noted of a lock removed by hand: the homes of those that write the file, and for
\* that home only.
LEMMA UndercutGrows ==
    ASSUME Types, NEW h \in Home, Repair(h)
    PROVE  /\ undercut' \in [Kind -> SUBSET Home]
           /\ \A k \in Kind : undercut[k] \subseteq undercut'[k]
           /\ \A k \in Kind, g \in Home : g \in fileLock[k] =>
                 \/ g \in fileLock'[k]
                 \/ \A i \in Init_ : Writing(i, k) /\ home[i] = g => g \in undercut'[k]
<1>1. undercut \in [Kind -> SUBSET Home] /\ fileLock \in [Kind -> SUBSET Home]
  BY DEF Types, TypeOK
<1>2. CASE UNCHANGED <<fileLock, undercut>>
  BY <1>1, <1>2
<1>3. ASSUME NEW k \in Kind,
             fileLock' = [fileLock EXCEPT ![k] = @ \ {h}],
             undercut' = [undercut EXCEPT ![k] =
                            @ \cup {home[i] : i \in {j \in Init_ : home[j] = h /\ Writing(j, k)}}]
      PROVE  /\ undercut' \in [Kind -> SUBSET Home]
             /\ \A l \in Kind : undercut[l] \subseteq undercut'[l]
             /\ \A l \in Kind, g \in Home : g \in fileLock[l] =>
                   \/ g \in fileLock'[l]
                   \/ \A i \in Init_ : Writing(i, l) /\ home[i] = g => g \in undercut'[l]
  <2> DEFINE W == {home[i] : i \in {j \in Init_ : home[j] = h /\ Writing(j, k)}}
  <2>1. W \subseteq Home
    OBVIOUS
  <2>2. \A i \in Init_ : Writing(i, k) /\ home[i] = h => h \in W
    OBVIOUS
  <2> HIDE DEF W
  <2>3. undercut' = [undercut EXCEPT ![k] = @ \cup W]
    BY <1>3 DEF W
  <2>4. undercut'[k] = undercut[k] \cup W /\ \A l \in Kind : l # k => undercut'[l] = undercut[l]
    BY <1>1, <2>3
  <2>5. undercut[k] \cup W \in SUBSET Home
    BY <1>1, <2>1
  <2>6. undercut' \in [Kind -> SUBSET Home]
    BY <1>1, <2>3, <2>5
  <2>7. fileLock'[k] = fileLock[k] \ {h} /\ \A l \in Kind : l # k => fileLock'[l] = fileLock[l]
    BY <1>1, <1>3
  <2>8. \A l \in Kind, g \in Home : g \in fileLock[l] =>
          \/ g \in fileLock'[l]
          \/ \A i \in Init_ : Writing(i, l) /\ home[i] = g => g \in undercut'[l]
    BY <2>2, <2>4, <2>7
  <2> QED BY <2>4, <2>6, <2>8
<1> QED BY <1>2, <1>3 DEF Repair

\* Every step keeps the ranges of the variables.
LEMMA TypesStep == Types /\ [Next]_vars => Types'
<1> SUFFICES ASSUME Types, [Next]_vars PROVE Types'
  OBVIOUS
<1>1. ASSUME NEW i \in Init_, Begin(i) PROVE Types'
  <2>1. PICK h \in Home : home' = [home EXCEPT ![i] = h]
    BY <1>1 DEF Begin
  <2>2. PICK r \in Root : root' = [root EXCEPT ![i] = r]
    BY <1>1 DEF Begin
  <2> QED BY <1>1, <2>1, <2>2 DEF Begin, files, byHand, Types, TypeOK, Steps, Go
<1>2. ASSUME NEW i \in Init_, TakeLock(i) PROVE Types'
  <2>1. home[i] \in Home
    BY <1>2 DEF TakeLock, Types
  <2>2. lock' \subseteq Home
    BY <1>2, <2>1 DEF TakeLock, Types, TypeOK
  <2>3. PICK s \in {"refused", "resolve"} : Go(i, s)
    BY <1>2 DEF TakeLock
  <2> QED BY <1>2, <2>2, <2>3 DEF TakeLock, files, byHand, job, Types, TypeOK, Steps, Go
<1>3. ASSUME NEW i \in Init_, Resolve(i) PROVE Types'
  BY <1>3 DEF Resolve, files, byHand, job, Types, TypeOK, Steps, Go
<1>4. ASSUME NEW i \in Init_, InspectState(i) PROVE Types'
  BY <1>4 DEF InspectState, files, byHand, job, Types, TypeOK, Steps, Go
<1>5. ASSUME NEW i \in Init_, MakeLayout(i) PROVE Types'
  <2>1. home[i] \in Home /\ root[i] \in Root
    BY <1>5 DEF MakeLayout, Types
  <2>2. layout' \subseteq Home \cup Root
    BY <1>5, <2>1 DEF MakeLayout, Types, TypeOK
  <2>3. PICK s \in {"settings", "fail"} : Go(i, s)
    BY <1>5 DEF MakeLayout
  <2> QED BY <1>5, <2>2, <2>3 DEF MakeLayout, byHand, job, Types, TypeOK, Steps, Go
<1>6. ASSUME NEW i \in Init_, CheckSettings(i) \/ LockedOut(i) PROVE Types'
  <2>1. (Settled(i) \/ UNCHANGED file) /\ file' \in [Init_ -> Kind]
    BY <1>6, SettledType DEF CheckSettings, LockedOut, Types, TypeOK
  <2>2. PICK s \in {"lock file", "report", "fail"} : Go(i, s)
    BY <1>6 DEF CheckSettings, LockedOut, Settled
  <2>3. pc[i] # "new" /\ UNCHANGED <<lock, fileLock, files, byHand, home, root, fresh, result>>
    BY <1>6 DEF CheckSettings, LockedOut
  <2> QED BY <2>1, <2>2, <2>3 DEF files, byHand, Types, TypeOK, Steps, Go
<1>7. ASSUME NEW i \in Init_, LockFile(i) PROVE Types'
  <2>1. home[i] \in Home /\ file[i] \in Kind
    BY <1>7 DEF LockFile, Types, TypeOK
  <2>2. fileLock' \in [Kind -> SUBSET Home]
    <3>1. \/ UNCHANGED fileLock
          \/ fileLock' = [fileLock EXCEPT ![file[i]] = @ \cup {home[i]}]
      BY <1>7 DEF LockFile
    <3>2. fileLock \in [Kind -> SUBSET Home]
      BY DEF Types, TypeOK
    <3> QED BY <2>1, <3>1, <3>2, FileLockType
  <2>3. PICK s \in {"locked out", "check"} : Go(i, s)
    BY <1>7 DEF LockFile
  <2> QED BY <1>7, <2>2, <2>3 DEF LockFile, files, byHand, job, Types, TypeOK, Steps, Go
<1>8. ASSUME NEW i \in Init_, CheckFile(i) \/ StageFile(i) PROVE Types'
  BY <1>8 DEF CheckFile, StageFile, files, byHand, job, Types, TypeOK, Steps, Go
<1>15. ASSUME NEW i \in Init_, ReplaceFile(i) PROVE Types'
  <2>1. home[i] \in Home /\ root[i] \in Root
    BY <1>15 DEF ReplaceFile, Types
  <2>2. settings' \in [Home -> {None, "default", "edited"}]
    BY <1>15, <2>1 DEF ReplaceFile, Types, TypeOK
  <2>3. [id |-> i, root |-> root[i]] \in [id : Init_, root : Root]
    BY <2>1
  <2>4. meta' \in [Home -> [id : Init_, root : Root] \cup {None}]
    BY <1>15, <2>1, <2>3 DEF ReplaceFile, Types, TypeOK
  <2>5. PICK s \in {"release", "drop"} : Go(i, s)
    BY <1>15 DEF ReplaceFile
  <2> QED BY <1>15, <2>2, <2>4, <2>5 DEF ReplaceFile, byHand, job, Types, TypeOK, Steps, Go
<1>16. ASSUME NEW i \in Init_, ReleaseFile(i) PROVE Types'
  <2>1. home[i] \in Home /\ file[i] \in Kind /\ pc[i] # "new"
    BY <1>16 DEF ReleaseFile, Types, TypeOK
  <2>2. fileLock' \in [Kind -> SUBSET Home]
    BY <1>16, <2>1, FileLockType DEF ReleaseFile, Types, TypeOK
  <2>3. (Settled(i) \/ UNCHANGED file) /\ file' \in [Init_ -> Kind]
    BY <1>16, SettledType DEF ReleaseFile, Types, TypeOK
  <2>4. PICK s \in {"lock file", "report", "fail"} : Go(i, s)
    BY <1>16 DEF ReleaseFile, Settled
  <2> QED BY <1>16, <2>1, <2>2, <2>3, <2>4 DEF ReleaseFile, files, byHand, Types, TypeOK, Steps, Go
<1>9. ASSUME NEW i \in Init_, Report(i) PROVE Types'
  <2>1. home[i] \in Home
    BY <1>9 DEF Report, Types
  <2>2. result' \in [Init_ -> Init_ \cup {None}]
    BY <1>9, <2>1 DEF Report, Ready, Meta, Types, TypeOK
  <2>3. PICK s \in {"fail", "unlock"} : Go(i, s)
    BY <1>9 DEF Report
  <2> QED BY <1>9, <2>2, <2>3 DEF Report, files, byHand, Types, TypeOK, Steps, Go
<1>10. ASSUME NEW i \in Init_, Unlock(i) PROVE Types'
  BY <1>10 DEF Unlock, files, byHand, job, Types, TypeOK, Steps, Go
<1>11. ASSUME NEW i \in Init_, Kill(i) PROVE Types'
  BY <1>11 DEF Kill, files, byHand, job, Types, TypeOK, Steps, Go
<1>12. ASSUME NEW h \in Home, Repair(h) PROVE Types'
  <2>1. lock' \subseteq Home /\ fileLock' \in [Kind -> SUBSET Home]
    BY <1>12, FileLockType DEF Repair, Types, TypeOK
  <2>2. repairs' \in 0..MaxRepairs
    BY <1>12, InstallationInitAssumption DEF Repair, Types, TypeOK
  <2>3. undercut' \in [Kind -> SUBSET Home]
    BY <1>12, UndercutGrows
  <2> QED BY <1>12, <2>1, <2>2, <2>3 DEF Repair, files, job, Types, TypeOK
<1>13. ASSUME NEW h \in Home, Use(h) PROVE Types'
  BY <1>13 DEF Use, Types, TypeOK, byHand, job
<1>14. CASE UNCHANGED vars
  BY <1>14 DEF vars, files, byHand, job, Types, TypeOK
<1> QED BY <1>1, <1>2, <1>3, <1>4, <1>5, <1>6, <1>7, <1>8, <1>9, <1>10, <1>11, <1>12,
           <1>13, <1>14, <1>15, <1>16 DEF Next, Step

-----------------------------------------------------------------------------
(* Whose step it is *)

\* Every step is one of an initializer, or leaves all initializers as they are.
LEMMA OthersStay ==
    ASSUME Types, [Next]_vars, NEW i \in Init_
    PROVE  \/ Step(i) \/ Kill(i)
           \/ /\ pc'[i] = pc[i] /\ file'[i] = file[i] /\ fresh'[i] = fresh[i]
              /\ home'[i] = home[i] /\ root'[i] = root[i] /\ result'[i] = result[i]
<1>1. ASSUME NEW j \in Init_, Step(j) \/ Kill(j), j # i
      PROVE  /\ pc'[i] = pc[i] /\ file'[i] = file[i] /\ fresh'[i] = fresh[i]
             /\ home'[i] = home[i] /\ root'[i] = root[i] /\ result'[i] = result[i]
  <2>1. /\ pc \in [Init_ -> Steps] /\ file \in [Init_ -> Kind] /\ fresh \in [Init_ -> BOOLEAN]
        /\ home \in [Init_ -> Home \cup {None}] /\ root \in [Init_ -> Root \cup {None}]
        /\ result \in [Init_ -> Init_ \cup {None}]
    BY DEF Types, TypeOK
  <2>2. CASE Begin(j)
    BY <1>1, <2>1, <2>2 DEF Begin, Go
  <2>3. CASE TakeLock(j) \/ Resolve(j) \/ MakeLayout(j) \/ LockFile(j) \/ CheckFile(j)
             \/ StageFile(j) \/ ReplaceFile(j) \/ Unlock(j) \/ Kill(j)
    <3>1. UNCHANGED job /\ \E s \in Steps : Go(j, s)
      BY <2>3 DEF TakeLock, Resolve, MakeLayout, LockFile, CheckFile, StageFile, ReplaceFile,
                  Unlock, Kill, Steps
    <3> QED BY <1>1, <2>1, <3>1 DEF Go, job
  <2>4. CASE InspectState(j)
    BY <1>1, <2>1, <2>4 DEF InspectState, Go
  <2>5. CASE CheckSettings(j) \/ LockedOut(j) \/ ReleaseFile(j)
    <3>1. UNCHANGED <<home, root, fresh, result>> /\ \E s \in Steps : Go(j, s)
      BY <2>5 DEF CheckSettings, LockedOut, ReleaseFile, Settled, Steps
    <3>2. Settled(j) \/ UNCHANGED file
      BY <2>5 DEF CheckSettings, LockedOut, ReleaseFile
    <3>3. file'[i] = file[i]
      BY <1>1, <2>1, <3>2, SettledType
    <3> QED BY <1>1, <2>1, <3>1, <3>3 DEF Go
  <2>6. CASE Report(j)
    BY <1>1, <2>1, <2>6 DEF Report, Go
  <2> QED BY <1>1, <2>2, <2>3, <2>4, <2>5, <2>6 DEF Step
<1>2. ASSUME NEW h \in Home, Repair(h) \/ Use(h) PROVE UNCHANGED <<pc, job>>
  BY <1>2 DEF Repair, Use
<1> QED BY <1>1, <1>2 DEF Next, vars, job

\* An initializer keeps the home and the root it began with.
LEMMA HomesStay ==
    ASSUME Types, [Next]_vars, NEW i \in Init_, pc[i] # "new"
    PROVE  home'[i] = home[i] /\ root'[i] = root[i] /\ pc'[i] # "new" /\ home[i] \in Home
<1>1. CASE Step(i) \/ Kill(i)
  <2>1. UNCHANGED <<home, root>>
    BY <1>1 DEF Step, Kill, Begin, TakeLock, Resolve, InspectState, MakeLayout, CheckSettings,
                LockFile, LockedOut, CheckFile, StageFile, ReplaceFile, ReleaseFile, Report,
                Unlock, job
  <2>2. \E s \in Steps \ {"new"} : Go(i, s)
    BY <1>1 DEF Step, Kill, Begin, TakeLock, Resolve, InspectState, MakeLayout, CheckSettings,
                LockFile, LockedOut, CheckFile, StageFile, ReplaceFile, ReleaseFile, Report,
                Unlock, Settled, Steps
  <2> QED BY <2>1, <2>2 DEF Go, Types
<1> QED BY <1>1, OthersStay DEF Types

-----------------------------------------------------------------------------
(* What no step does *)

\* Directories and files never go, and what is noted of removed locks stays noted.
LEMMA FilesStay ==
    ASSUME Types, [Next]_vars
    PROVE  /\ layout \subseteq layout'
           /\ \A k \in Kind : undercut[k] \subseteq undercut'[k]
           /\ \A h \in Home : /\ settings[h] # None => settings'[h] # None
                              /\ meta[h] # None => meta'[h] # None
<1>1. ASSUME NEW i \in Init_, MakeLayout(i)
      PROVE  layout \subseteq layout' /\ UNCHANGED <<settings, meta, undercut>>
  BY <1>1 DEF MakeLayout, byHand
<1>2. ASSUME NEW i \in Init_, ReplaceFile(i)
      PROVE  /\ UNCHANGED <<layout, undercut>>
             /\ \A h \in Home : /\ settings[h] # None => settings'[h] # None
                                /\ meta[h] # None => meta'[h] # None
  <2>1. UNCHANGED <<layout, undercut>>
    BY <1>2 DEF ReplaceFile, byHand
  <2>2. "default" # None /\ [id |-> i, root |-> root[i]] # None
    <3>1. home[i] \in Home /\ root[i] \in Root
      BY <1>2 DEF ReplaceFile, Types
    <3>2. [id |-> i, root |-> root[i]] \in [id : Init_, root : Root]
      BY <3>1
    <3> QED BY <3>2, InstallationInitAssumption
  <2>3. settings \in [Home -> {None, "default", "edited"}]
        /\ meta \in [Home -> [id : Init_, root : Root] \cup {None}]
    BY DEF Types, TypeOK
  <2>4. settings' = settings \/ settings' = [settings EXCEPT ![home[i]] = "default"]
    BY <1>2 DEF ReplaceFile
  <2>5. meta' = meta \/ meta' = [meta EXCEPT ![home[i]] = [id |-> i, root |-> root[i]]]
    BY <1>2 DEF ReplaceFile
  <2> QED BY <2>1, <2>2, <2>3, <2>4, <2>5
<1>3. ASSUME NEW h \in Home, Use(h)
      PROVE  /\ UNCHANGED <<layout, meta, undercut>>
             /\ \A g \in Home : settings'[g] = settings[g] \/ settings'[g] = "edited"
  BY <1>3 DEF Use, Types, TypeOK, byHand
<1>4. ASSUME NEW i \in Init_, Begin(i) \/ TakeLock(i) \/ Resolve(i) \/ InspectState(i)
                              \/ CheckSettings(i) \/ LockFile(i) \/ LockedOut(i) \/ CheckFile(i)
                              \/ StageFile(i) \/ ReleaseFile(i) \/ Report(i) \/ Unlock(i)
                              \/ Kill(i)
      PROVE  UNCHANGED <<layout, settings, meta, undercut>>
  BY <1>4 DEF Begin, TakeLock, Resolve, InspectState, CheckSettings, LockFile, LockedOut,
              CheckFile, StageFile, ReleaseFile, Report, Unlock, Kill, files, byHand
<1>5. ASSUME NEW h \in Home, Repair(h)
      PROVE  UNCHANGED <<layout, settings, meta>> /\ \A k \in Kind : undercut[k] \subseteq undercut'[k]
  BY <1>5, UndercutGrows DEF Repair, files
<1>6. CASE UNCHANGED vars
  BY <1>6 DEF vars, files, byHand
<1>7. CASE \E h \in Home : Use(h)
  BY <1>3, <1>7, InstallationInitAssumption
<1>8. CASE \E i \in Init_ : Step(i) \/ Kill(i)
  BY <1>1, <1>2, <1>4, <1>8 DEF Step
<1> QED
  BY <1>5, <1>6, <1>7, <1>8 DEF Next

-----------------------------------------------------------------------------
(* The identity comes last *)

\* A file that is settled is there, and only the settings are followed by another file.
LEMMA SettledAfter ==
    ASSUME Types, NEW i \in Init_, pc[i] \in Locking, UNCHANGED <<settings, home>>,
           \/ Exists(i) /\ Settled(i)
           \/ Go(i, "fail") /\ UNCHANGED file
    PROVE  pc'[i] # "release" /\ (pc'[i] \in Locking => settings'[home'[i]] # None)
<1>1. pc \in [Init_ -> Steps] /\ file \in [Init_ -> Kind]
  BY DEF Types, TypeOK
<1>2. CASE Exists(i) /\ Settled(i)
  BY <1>1, <1>2, SettledType DEF Exists, Go, Locking
<1>3. CASE Go(i, "fail")
  BY <1>1, <1>3 DEF Go, Locking
<1> QED BY <1>2, <1>3

\* An initializer is about the settings until it has settled them.
LEMMA AboutSettingsStep == Inv /\ [Next]_vars => AboutSettings'
<1> SUFFICES ASSUME Inv, [Next]_vars, NEW i \in Init_, pc'[i] \in Early
             PROVE  file'[i] = "settings"
  BY DEF AboutSettings
<1>1. Types /\ AboutSettings
  BY DEF Inv
<1>2. CASE pc'[i] = pc[i] /\ file'[i] = file[i]
  BY <1>1, <1>2 DEF AboutSettings
<1>3. CASE Step(i) \/ Kill(i)
  <2>1. pc \in [Init_ -> Steps] /\ file \in [Init_ -> Kind]
    BY <1>1 DEF Types, TypeOK
  <2>2. ~(CheckSettings(i) \/ LockedOut(i) \/ ReleaseFile(i))
    <3>1. ASSUME CheckSettings(i) \/ LockedOut(i) \/ ReleaseFile(i)
          PROVE  pc'[i] \in {"lock file", "report", "fail"}
      BY <2>1, <3>1, SettledType DEF CheckSettings, LockedOut, ReleaseFile, Go
    <3> QED BY <3>1 DEF Early
  <2>3. ~(LockFile(i) \/ CheckFile(i) \/ StageFile(i) \/ ReplaceFile(i) \/ Report(i)
            \/ Unlock(i) \/ Kill(i))
    BY <2>1 DEF LockFile, CheckFile, StageFile, ReplaceFile, Report, Unlock, Kill, Go, Early
  <2>4. pc[i] \in Early /\ UNCHANGED file
    BY <1>3, <2>2, <2>3
       DEF Step, Begin, TakeLock, Resolve, InspectState, MakeLayout, Early, job
  <2> QED BY <1>1, <2>4 DEF AboutSettings
<1> QED BY <1>1, <1>2, <1>3, OthersStay

LEMMA PreparedStep == Inv /\ [Next]_vars => Prepared'
<1> SUFFICES ASSUME Inv, [Next]_vars, NEW i \in Init_
             PROVE  /\ pc'[i] \in LaidOut => {home'[i], root'[i]} \subseteq layout'
                    /\ pc'[i] \in Locking /\ file'[i] = "metadata" => settings'[home'[i]] # None
                    /\ pc'[i] = "release" => Exists(i)'
  BY DEF Prepared
<1>1. Types /\ Prepared /\ Types'
  BY TypesStep DEF Inv
<1>2. pc[i] \in LaidOut =>
        /\ home'[i] = home[i] /\ root'[i] = root[i] /\ home[i] \in Home
        /\ {home[i], root[i]} \subseteq layout'
  BY <1>1, HomesStay, FilesStay DEF LaidOut, Locking, Prepared
<1>3. /\ \A h \in Home : settings[h] # None => settings'[h] # None
      /\ \A h \in Home : meta[h] # None => meta'[h] # None
  BY <1>1, FilesStay
<1>4. pc[i] \in Locking /\ file[i] = "metadata" => settings'[home'[i]] # None
  BY <1>1, <1>2, <1>3 DEF Prepared, LaidOut
<1>5. CASE pc'[i] = pc[i] /\ file'[i] = file[i]
  <2>1. pc[i] = "release" => Exists(i)'
    BY <1>1, <1>2, <1>3, <1>5 DEF Prepared, LaidOut, Locking, Exists, Meta
  <2> QED BY <1>2, <1>4, <1>5, <2>1
<1>6. CASE Begin(i) \/ TakeLock(i) \/ Resolve(i) \/ InspectState(i) \/ Report(i) \/ Unlock(i)
           \/ Kill(i)
  <2>1. \E s \in Steps \ (LaidOut \cup {"new"}) : Go(i, s)
    BY <1>6 DEF Begin, TakeLock, Resolve, InspectState, Report, Unlock, Kill, Steps, LaidOut, Locking
  <2>2. pc'[i] \notin LaidOut
    BY <1>1, <2>1 DEF Go, Types
  <2> QED BY <2>2 DEF LaidOut, Locking
<1>7. CASE MakeLayout(i)
  BY <1>1, <1>7, HomesStay DEF MakeLayout, Go, LaidOut, Locking, Types, job
<1>8. CASE CheckSettings(i)
  <2>1. /\ pc[i] = "settings"
        /\ \/ Go(i, "lock file") /\ UNCHANGED file /\ settings[home[i]] = None
           \/ settings[home[i]] # None /\ Settled(i)
        /\ UNCHANGED settings
    BY <1>8 DEF CheckSettings, files
  <2>2. pc \in [Init_ -> Steps] /\ file \in [Init_ -> Kind]
    BY <1>1 DEF Types, TypeOK
  <2>3. pc'[i] \in {"lock file", "report"}
    BY <2>1, <2>2, SettledType DEF Go
  <2>4. CASE settings[home[i]] # None
    BY <1>2, <2>1, <2>3, <2>4 DEF LaidOut
  <2>5. CASE settings[home[i]] = None
    <3>1. file[i] # "metadata"
      BY <2>1 DEF AboutSettings, Early, Inv
    <3> QED BY <1>2, <2>1, <2>3, <2>5, <3>1 DEF LaidOut
  <2> QED BY <2>4, <2>5
<1>9. CASE LockFile(i) \/ CheckFile(i) \/ StageFile(i)
  <2>1. pc[i] \in Locking /\ UNCHANGED <<file, settings, meta, home>>
    BY <1>9 DEF LockFile, CheckFile, StageFile, Locking, files, job
  <2>2. pc'[i] = "release" => Exists(i)
    BY <1>1, <1>9 DEF LockFile, CheckFile, StageFile, Go, Types
  <2>3. Exists(i) => Exists(i)'
    BY <2>1 DEF Exists, Meta
  <2> QED BY <1>2, <1>4, <2>1, <2>2, <2>3 DEF LaidOut
<1>10. CASE LockedOut(i)
  <2>1. pc[i] \in Locking /\ UNCHANGED <<settings, meta, home>>
    BY <1>10 DEF LockedOut, Locking, files
  <2>2. \/ Exists(i) /\ Settled(i)
        \/ Go(i, "fail") /\ UNCHANGED file
    BY <1>10 DEF LockedOut
  <2> QED BY <1>1, <1>2, <2>1, <2>2, SettledAfter DEF LaidOut
<1>11. CASE ReplaceFile(i)
  <2>1. pc[i] = "replace" /\ UNCHANGED <<file, home, root>>
    BY <1>11 DEF ReplaceFile, job
  <2>2. pc'[i] = "release" =>
          \/ file[i] = "settings" /\ settings' = [settings EXCEPT ![home[i]] = "default"]
          \/ /\ file[i] # "settings"
             /\ meta' = [meta EXCEPT ![home[i]] = [id |-> i, root |-> root[i]]]
    BY <1>1, <1>11 DEF ReplaceFile, Go, Types
  <2>3. home[i] \in Home /\ root[i] \in Root
    BY <1>1, <2>1 DEF Types
  <2>4. "default" # None /\ [id |-> i, root |-> root[i]] # None
    <3>1. [id |-> i, root |-> root[i]] \in [id : Init_, root : Root]
      BY <2>3
    <3> QED BY <3>1, InstallationInitAssumption
  <2>5. settings \in [Home -> {None, "default", "edited"}]
        /\ meta \in [Home -> [id : Init_, root : Root] \cup {None}]
    BY <1>1 DEF Types, TypeOK
  <2>6. pc'[i] = "release" => Exists(i)'
    <3>1. CASE file[i] = "settings" /\ settings' = [settings EXCEPT ![home[i]] = "default"]
      BY <2>1, <2>3, <2>4, <2>5, <3>1 DEF Exists
    <3>2. CASE file[i] # "settings" /\ meta' = [meta EXCEPT ![home[i]] = [id |-> i, root |-> root[i]]]
      <4>1. meta'[home[i]] = [id |-> i, root |-> root[i]]
        BY <2>3, <2>5, <3>2
      <4> QED BY <2>1, <2>4, <3>2, <4>1 DEF Exists, Meta
    <3> QED BY <2>2, <3>1, <3>2
  <2> QED BY <1>2, <1>4, <2>1, <2>6 DEF LaidOut, Locking
<1>12. CASE ReleaseFile(i)
  <2>1. pc[i] \in Locking /\ UNCHANGED <<settings, meta, home>>
    BY <1>12 DEF ReleaseFile, Locking, files
  <2>2. \/ Exists(i) /\ Settled(i)
        \/ Go(i, "fail") /\ UNCHANGED file
    BY <1>1, <1>12 DEF ReleaseFile, Prepared
  <2> QED BY <1>1, <1>2, <2>1, <2>2, SettledAfter DEF LaidOut
<1> QED BY <1>1, <1>5, <1>6, <1>7, <1>8, <1>9, <1>10, <1>11, <1>12, OthersStay DEF Step

\* The metadata is written where the settings and both directories are.
LEMMA IdentityComesLastStep == Inv /\ [Next]_vars => IdentityComesLast'
<1> SUFFICES ASSUME Inv, [Next]_vars, NEW h \in Home, meta'[h] # None
             PROVE  settings'[h] # None /\ {h, meta'[h].root} \subseteq layout'
  BY DEF IdentityComesLast
<1>1. Types /\ Prepared /\ IdentityComesLast
  BY DEF Inv
<1>2. CASE meta'[h] = meta[h]
  BY <1>1, <1>2, FilesStay DEF IdentityComesLast
<1>3. CASE meta'[h] # meta[h]
  <2>1. PICK i \in Init_ : ReplaceFile(i)
    BY <1>3 DEF Next, Step, Kill, Begin, TakeLock, Resolve, InspectState, MakeLayout,
                CheckSettings, LockFile, LockedOut, CheckFile, StageFile, ReleaseFile, Report,
                Unlock, Repair, Use, vars, files
  <2>2. file[i] # "settings" /\ meta' = [meta EXCEPT ![home[i]] = [id |-> i, root |-> root[i]]]
    BY <1>3, <2>1 DEF ReplaceFile
  <2>3. home[i] = h /\ meta'[h] = [id |-> i, root |-> root[i]] /\ file[i] = "metadata"
    BY <1>1, <1>3, <2>2 DEF Types, TypeOK, Kind
  <2>4. settings[h] # None /\ {h, root[i]} \subseteq layout
    BY <1>1, <2>1, <2>3 DEF ReplaceFile, Prepared, LaidOut, Locking
  <2>5. meta'[h].root = root[i]
    BY <2>3
  <2> QED BY <1>1, <2>4, <2>5, FilesStay
<1> QED BY <1>2, <1>3

-----------------------------------------------------------------------------
(* One writer of a file *)

\* Who writes a file has done so before, or has just taken its lock.
LEMMA WritingBefore ==
    ASSUME Types, [Next]_vars, NEW i \in Init_, NEW k \in Kind, Writing(i, k)'
    PROVE  /\ home'[i] = home[i] /\ home[i] \in Home
           /\ \/ Writing(i, k)
              \/ LockFile(i) /\ file[i] = k /\ home[i] \notin fileLock[k] /\ pc'[i] = "check"
<1>1. pc \in [Init_ -> Steps] /\ file \in [Init_ -> Kind]
  BY DEF Types, TypeOK
<1>2. CASE Step(i) \/ Kill(i)
  <2>1. ASSUME CheckSettings(i) \/ LockedOut(i) \/ ReleaseFile(i) PROVE FALSE
    <3>1. pc'[i] \in {"lock file", "report", "fail"}
      BY <1>1, <2>1, SettledType DEF CheckSettings, LockedOut, ReleaseFile, Go
    <3> QED BY <3>1 DEF Writing
  <2>2. ASSUME Begin(i) \/ TakeLock(i) \/ Resolve(i) \/ InspectState(i) \/ MakeLayout(i)
               \/ Report(i) \/ Unlock(i) \/ Kill(i)
        PROVE  FALSE
    BY <1>1, <2>2 DEF Begin, TakeLock, Resolve, InspectState, MakeLayout, Report, Unlock, Kill,
                      Go, Writing
  <2>3. CASE CheckFile(i) \/ StageFile(i) \/ ReplaceFile(i)
    <3>1. file' = file /\ pc[i] \in {"check", "stage", "replace"}
      BY <2>3 DEF CheckFile, StageFile, ReplaceFile, job
    <3> QED BY <3>1, HomesStay DEF Writing
  <2>4. CASE LockFile(i)
    <3>1. file' = file /\ pc[i] = "lock file"
      BY <2>4 DEF LockFile, job
    <3>2. home[i] \notin fileLock[k] /\ pc'[i] = "check"
      BY <1>1, <2>4, <3>1 DEF LockFile, Go, Writing
    <3> QED BY <2>4, <3>1, <3>2, HomesStay DEF Writing
  <2> QED BY <1>2, <2>1, <2>2, <2>3, <2>4 DEF Step
<1>3. CASE pc'[i] = pc[i] /\ file'[i] = file[i] /\ home'[i] = home[i]
  BY <1>3, HomesStay DEF Writing
<1> QED BY <1>2, <1>3, OthersStay

LEMMA OneWriterStep == Inv /\ [Next]_vars => OneWriter'
<1> SUFFICES ASSUME Inv, [Next]_vars, NEW i \in Init_, NEW j \in Init_, NEW k \in Kind, i # j,
                    Writing(i, k)', Writing(j, k)', home'[i] = home'[j]
             PROVE  home'[i] \in undercut'[k]
  BY DEF OneWriter
<1>1. Types /\ FileLockHeld /\ OneWriter
  BY DEF Inv
<1>2. home'[i] = home[i] /\ home'[j] = home[j] /\ undercut[k] \subseteq undercut'[k]
  BY <1>1, WritingBefore, FilesStay
<1>3. CASE Writing(i, k) /\ Writing(j, k)
  BY <1>1, <1>2, <1>3 DEF OneWriter
<1>4. CASE Writing(j, k) /\ home[i] \notin fileLock[k]
  BY <1>1, <1>2, <1>4 DEF FileLockHeld
<1>5. CASE Writing(i, k) /\ home[j] \notin fileLock[k]
  BY <1>1, <1>2, <1>5 DEF FileLockHeld
<1>6. ASSUME LockFile(i), LockFile(j) PROVE FALSE
  BY <1>1, <1>6 DEF LockFile, Go, Types
<1> QED BY <1>1, <1>3, <1>4, <1>5, <1>6, WritingBefore

LEMMA FileLockHeldStep == Inv /\ [Next]_vars => FileLockHeld'
<1> SUFFICES ASSUME Inv, [Next]_vars, NEW i \in Init_, NEW k \in Kind,
                    Writing(i, k)', home'[i] \notin undercut'[k]
             PROVE  /\ home'[i] \in fileLock'[k]
                    /\ pc'[i] \in {"stage", "replace"} => ~Exists(i)'
  BY DEF FileLockHeld
<1>1. Types /\ FileLockHeld /\ OneWriter
  BY DEF Inv
<1>2. /\ home'[i] = home[i] /\ home[i] \in Home /\ home[i] \notin undercut[k]
      /\ fileLock \in [Kind -> SUBSET Home] /\ pc \in [Init_ -> Steps] /\ file \in [Init_ -> Kind]
  BY <1>1, WritingBefore, FilesStay DEF Types, TypeOK
<1>3. CASE LockFile(i) /\ file[i] = k /\ home[i] \notin fileLock[k] /\ pc'[i] = "check"
  <2>1. fileLock' = [fileLock EXCEPT ![k] = @ \cup {home[i]}]
    BY <1>3 DEF LockFile
  <2>2. home[i] \in fileLock'[k]
    BY <1>2, <2>1
  <2> QED BY <1>2, <1>3, <2>2
<1>4. CASE Writing(i, k)
  <2>1. home[i] \in fileLock[k] /\ (pc[i] \in {"stage", "replace"} => ~Exists(i))
    BY <1>1, <1>2, <1>4 DEF FileLockHeld
  <2>2. \A j \in Init_ : j # i /\ Writing(j, k) => home[j] # home[i]
    BY <1>1, <1>2, <1>4 DEF OneWriter
  <2>3. home[i] \in fileLock'[k]
    <3>1. ASSUME NEW j \in Init_, ReleaseFile(j) PROVE home[i] \in fileLock'[k]
      <4>1. Writing(j, file[j]) /\ fileLock' = [fileLock EXCEPT ![file[j]] = @ \ {home[j]}]
        BY <3>1 DEF ReleaseFile, Writing
      <4>2. CASE j # i
        BY <1>2, <2>1, <2>2, <4>1, <4>2
      <4>3. CASE j = i
        <5>1. pc'[i] \in {"lock file", "report", "fail"}
          BY <1>2, <3>1, <4>3, SettledType DEF ReleaseFile, Go
        <5> QED BY <5>1 DEF Writing
      <4> QED BY <4>2, <4>3
    <3>2. ASSUME NEW j \in Init_, LockFile(j) PROVE home[i] \in fileLock'[k]
      <4>1. \/ UNCHANGED fileLock
            \/ fileLock' = [fileLock EXCEPT ![file[j]] = @ \cup {home[j]}]
        BY <3>2 DEF LockFile
      <4>2. fileLock[k] \subseteq fileLock'[k]
        BY <1>2, <4>1
      <4> QED BY <2>1, <4>2
    <3>3. ASSUME NEW h \in Home, Repair(h) PROVE home[i] \in fileLock'[k]
      BY <1>1, <1>2, <1>4, <2>1, <3>3, UndercutGrows
    <3>4. CASE UNCHANGED fileLock
      BY <2>1, <3>4
    <3> QED BY <3>1, <3>2, <3>3, <3>4
            DEF Next, Step, Kill, Begin, TakeLock, Resolve, InspectState, MakeLayout,
                CheckSettings, LockedOut, CheckFile, StageFile, ReplaceFile, Report, Unlock,
                Use, vars
  <2>4. ASSUME pc'[i] \in {"stage", "replace"} PROVE ~Exists(i)'
    <3>1. file'[i] = file[i] /\ file[i] = k
      BY <1>4, <2>4 DEF Writing
    <3>2. CASE UNCHANGED <<settings, meta>>
      <4>1. ~Exists(i)
        <5>1. CASE pc[i] \in {"stage", "replace"}
          BY <2>1, <5>1
        <5>2. CASE pc[i] \notin {"stage", "replace"}
          <6>1. pc[i] \in {"check", "release", "drop"} /\ pc'[i] # pc[i]
            BY <1>4, <2>4, <5>2 DEF Writing
          <6>2. Step(i) \/ Kill(i)
            BY <1>1, <6>1, OthersStay
          <6>3. ~ReleaseFile(i) /\ ~Unlock(i)
            BY <1>2, <2>4, SettledType DEF ReleaseFile, Unlock, Go
          <6>4. CheckFile(i)
            BY <1>2, <2>4, <6>1, <6>2, <6>3
               DEF Step, Kill, Begin, TakeLock, Resolve, InspectState, MakeLayout, CheckSettings,
                   LockFile, LockedOut, StageFile, ReplaceFile, Report, Go
          <6> QED BY <1>2, <2>4, <6>4 DEF CheckFile, Go
        <5> QED BY <5>1, <5>2
      <4> QED BY <1>2, <3>1, <3>2, <4>1 DEF Exists, Meta
    <3>3. ASSUME NEW h \in Home, Use(h) PROVE ~Exists(i)'
      <4>1. UNCHANGED <<pc, meta>> /\ settings[h] # None
            /\ (UNCHANGED settings \/ settings' = [settings EXCEPT ![h] = "edited"])
        BY <3>3 DEF Use
      <4>2. ~Exists(i)
        BY <2>1, <2>4, <4>1
      <4>3. settings \in [Home -> {None, "default", "edited"}]
        BY <1>1 DEF Types, TypeOK
      <4> QED BY <1>2, <3>1, <4>1, <4>2, <4>3 DEF Exists, Meta
    <3>4. ASSUME NEW j \in Init_, ReplaceFile(j) PROVE ~Exists(i)'
      <4>1. CASE j = i
        BY <1>2, <2>4, <3>4, <4>1 DEF ReplaceFile, Go
      <4>2. CASE j # i
        <5>1. pc'[i] = pc[i]
          BY <1>2, <3>4, <4>2 DEF ReplaceFile, Go
        <5>2. ~Exists(i)
          BY <2>1, <2>4, <5>1
        <5>3. Writing(j, file[j])
          BY <3>4 DEF ReplaceFile, Writing
        <5>4. file[j] = k => home[j] # home[i]
          BY <2>2, <4>2, <5>3
        <5>5. /\ settings \in [Home -> {None, "default", "edited"}]
              /\ meta \in [Home -> [id : Init_, root : Root] \cup {None}]
              /\ k \in {"settings", "metadata"} /\ file[j] \in {"settings", "metadata"}
          BY <1>1, <1>2 DEF Types, TypeOK, Kind
        <5>6. k = "settings" => settings'[home[i]] = settings[home[i]]
          BY <1>2, <3>4, <5>4, <5>5 DEF ReplaceFile
        <5>7. k # "settings" => meta'[home[i]] = meta[home[i]]
          BY <1>2, <3>4, <5>4, <5>5 DEF ReplaceFile
        <5> QED BY <1>2, <3>1, <5>2, <5>6, <5>7 DEF Exists, Meta
      <4> QED BY <4>1, <4>2
    <3> QED BY <3>2, <3>3, <3>4
            DEF Next, Step, Kill, Begin, TakeLock, Resolve, InspectState, MakeLayout,
                CheckSettings, LockFile, LockedOut, CheckFile, StageFile, ReleaseFile, Report,
                Unlock, Repair, vars, files
  <2> QED BY <1>2, <2>3, <2>4
<1> QED BY <1>1, <1>3, <1>4, WritingBefore

\* A file whose lock was not removed under its holder is not replaced.
LEMMA FilesKept ==
    ASSUME Inv, [Next]_vars, NEW h \in Home
    PROVE  /\ meta[h] # None /\ h \notin undercut["metadata"] => meta'[h] = meta[h]
           /\ settings[h] = "edited" /\ h \notin undercut["settings"] => settings'[h] = "edited"
<1>1. Types /\ FileLockHeld
  BY DEF Inv
<1>2. /\ settings \in [Home -> {None, "default", "edited"}]
      /\ meta \in [Home -> [id : Init_, root : Root] \cup {None}]
  BY <1>1 DEF Types, TypeOK
<1>3. ASSUME NEW i \in Init_, ReplaceFile(i)
      PROVE  /\ meta[h] # None /\ h \notin undercut["metadata"] => meta'[h] = meta[h]
             /\ settings[h] = "edited" /\ h \notin undercut["settings"] => settings'[h] = "edited"
  <2>1. pc[i] = "replace" /\ file[i] \in Kind /\ Writing(i, file[i])
    BY <1>1, <1>3 DEF ReplaceFile, Writing, Types, TypeOK
  <2>2. home[i] \notin undercut[file[i]] => ~Exists(i)
    BY <1>1, <2>1 DEF FileLockHeld
  <2>3. CASE file[i] = "settings"
    <3>1. UNCHANGED meta /\ (UNCHANGED settings \/ settings' = [settings EXCEPT ![home[i]] = "default"])
      BY <1>3, <2>3 DEF ReplaceFile
    <3>2. home[i] \notin undercut["settings"] => settings[home[i]] = None
      BY <2>2, <2>3 DEF Exists
    <3> QED BY <1>2, <3>1, <3>2, InstallationInitAssumption
  <2>4. CASE file[i] = "metadata"
    <3>1. /\ UNCHANGED settings
          /\ \/ UNCHANGED meta
             \/ meta' = [meta EXCEPT ![home[i]] = [id |-> i, root |-> root[i]]]
      BY <1>3, <2>4 DEF ReplaceFile
    <3>2. home[i] \notin undercut["metadata"] => meta[home[i]] = None
      BY <2>2, <2>4 DEF Exists, Meta
    <3> QED BY <1>2, <3>1, <3>2
  <2> QED BY <2>1, <2>3, <2>4 DEF Kind
<1>4. ASSUME NEW g \in Home, Use(g)
      PROVE  UNCHANGED meta /\ (settings[h] = "edited" => settings'[h] = "edited")
  BY <1>2, <1>4 DEF Use
<1>5. CASE UNCHANGED <<settings, meta>>
  BY <1>5
<1> QED BY <1>3, <1>4, <1>5
        DEF Next, Step, Kill, Begin, TakeLock, Resolve, InspectState, MakeLayout, CheckSettings,
            LockFile, LockedOut, CheckFile, StageFile, ReleaseFile, Report, Unlock, Repair, vars,
            files

-----------------------------------------------------------------------------
(* The identity is agreed *)

LEMMA AgreedStep == Inv /\ [Next]_vars => ReportedLate' /\ IdentityIsAgreed'
<1> SUFFICES ASSUME Inv, [Next]_vars, NEW i \in Init_, result'[i] # None
             PROVE  /\ pc'[i] # "new"
                    /\ home'[i] \notin undercut'["metadata"] =>
                          /\ meta'[home'[i]] # None /\ meta'[home'[i]].id = result'[i]
                          /\ meta'[home'[i]].root = root'[i]
  BY DEF ReportedLate, IdentityIsAgreed
<1>1. Types /\ ReportedLate /\ IdentityIsAgreed
  BY DEF Inv
<1>2. CASE result'[i] = result[i]
  <2>1. pc[i] # "new"
    BY <1>1, <1>2 DEF ReportedLate
  <2>2. home'[i] = home[i] /\ root'[i] = root[i] /\ pc'[i] # "new" /\ home[i] \in Home
    BY <1>1, <2>1, HomesStay
  <2>3. home'[i] \notin undercut'["metadata"] => home[i] \notin undercut["metadata"]
    BY <1>1, <2>2, FilesStay DEF Kind
  <2> QED BY <1>1, <1>2, <2>2, <2>3, FilesKept DEF IdentityIsAgreed
<1>3. CASE result'[i] # result[i]
  <2>1. Report(i)
    <3>1. Step(i) \/ Kill(i)
      BY <1>1, <1>3, OthersStay
    <3> QED BY <1>3, <3>1
            DEF Step, Kill, Begin, TakeLock, Resolve, InspectState, MakeLayout, CheckSettings,
                LockFile, LockedOut, CheckFile, StageFile, ReplaceFile, ReleaseFile, Unlock, job
  <2>2. /\ pc[i] = "report" /\ UNCHANGED <<home, root, meta>>
        /\ ~(Meta(i) # None /\ Meta(i).root # root[i])
        /\ result'[i] = IF Ready(i) THEN Meta(i).id ELSE None
    BY <1>1, <1>3, <2>1 DEF Report, files, Types, TypeOK
  <2>3. pc'[i] # "new"
    BY <1>1, <2>2, HomesStay
  <2> QED BY <2>2, <2>3 DEF Ready, Meta
<1> QED BY <1>2, <1>3

-----------------------------------------------------------------------------
(* One initializer inside a home *)

\* The repairs are counted.
LEMMA RepairsGrow ==
    ASSUME Types, [Next]_vars, repairs' = 0
    PROVE  repairs = 0 /\ ~(\E h \in Home : Repair(h))
<1>1. repairs \in Nat
  BY InstallationInitAssumption DEF Types, TypeOK
<1>2. ASSUME NEW h \in Home, Repair(h) PROVE FALSE
  BY <1>1, <1>2 DEF Repair
<1>3. ASSUME NEW i \in Init_, Step(i) \/ Kill(i) PROVE repairs' = repairs
  BY <1>3 DEF Step, Kill, Begin, TakeLock, Resolve, InspectState, MakeLayout, CheckSettings,
              LockFile, LockedOut, CheckFile, StageFile, ReplaceFile, ReleaseFile, Report, Unlock,
              byHand
<1>4. ASSUME NEW h \in Home, Use(h) PROVE repairs' = repairs
  BY <1>4 DEF Use, byHand
<1> QED BY <1>2, <1>3, <1>4 DEF Next, vars, byHand

\* A lock goes with an initializer that leaves, or with a repair.
LEMMA OnlyUnlockFrees ==
    ASSUME [Next]_vars, ~(\E h \in Home : Repair(h)), ~(lock \subseteq lock')
    PROVE  \E j \in Init_ : Unlock(j)
<1>1. ASSUME NEW i \in Init_, Step(i) \/ Kill(i), ~Unlock(i) PROVE lock \subseteq lock'
  BY <1>1 DEF Step, Kill, Begin, TakeLock, Resolve, InspectState, MakeLayout, CheckSettings,
              LockFile, LockedOut, CheckFile, StageFile, ReplaceFile, ReleaseFile, Report
<1>2. ASSUME NEW h \in Home, Use(h) PROVE lock' = lock
  BY <1>2 DEF Use
<1> QED BY <1>1, <1>2 DEF Next, vars

LEMMA LockStepKeeps == Inv /\ [Next]_vars => LockHeld' /\ OneInitializer'
<1> SUFFICES ASSUME Inv, [Next]_vars, repairs' = 0
             PROVE  /\ \A i \in Init_ : Inside(i)' => home'[i] \in lock'
                    /\ \A i, j \in Init_ : i # j /\ Inside(i)' /\ Inside(j)' => home'[i] # home'[j]
  BY DEF LockHeld, OneInitializer
<1>1. Types /\ LockHeld /\ OneInitializer
  BY DEF Inv
<1>2. repairs = 0 /\ ~(\E h \in Home : Repair(h))
  BY <1>1, RepairsGrow
<1>3. ASSUME NEW i \in Init_, Inside(i)', ~Inside(i)
      PROVE  TakeLock(i) /\ home[i] \notin lock /\ lock' = lock \cup {home[i]}
  <2>1. Step(i) \/ Kill(i)
    BY <1>1, <1>3, OthersStay DEF Inside
  <2>2. ~(CheckSettings(i) \/ LockedOut(i) \/ ReleaseFile(i))
    BY <1>3 DEF CheckSettings, LockedOut, ReleaseFile, Inside
  <2> QED BY <1>1, <1>3, <2>1, <2>2
             DEF Step, Kill, Begin, TakeLock, Resolve, InspectState, MakeLayout,
                 LockFile, CheckFile, StageFile, ReplaceFile, Report, Unlock, Go, Types, Inside
<1>4. ASSUME NEW i \in Init_, Inside(i)
      PROVE  home'[i] = home[i] /\ home[i] \in lock
  BY <1>1, <1>2, <1>4, HomesStay DEF LockHeld, Inside
<1>5. ASSUME NEW i \in Init_, TakeLock(i), home[i] \notin lock
      PROVE  /\ home'[i] = home[i] /\ lock' = lock \cup {home[i]}
             /\ \A j \in Init_ : j # i /\ Inside(j)' => Inside(j)
  BY <1>1, <1>5 DEF TakeLock, Go, Inside, Types, job
<1>6. ASSUME NEW i \in Init_, Inside(i), Inside(i)' PROVE home'[i] \in lock'
  <2>1. CASE lock \subseteq lock'
    BY <1>4, <1>6, <2>1
  <2>2. ASSUME NEW j \in Init_, Unlock(j) PROVE home[j] # home[i] /\ lock' = lock \ {home[j]}
    <3>1. Inside(j) /\ ~Inside(j)'
      BY <1>1, <2>2 DEF Unlock, Go, Inside, Types
    <3> QED BY <1>1, <1>2, <1>6, <2>2, <3>1 DEF Unlock, OneInitializer
  <2>3. CASE ~(lock \subseteq lock')
    <3>1. \E j \in Init_ : Unlock(j)
      BY <1>1, <1>2, <2>3, OnlyUnlockFrees
    <3> QED BY <1>4, <1>6, <2>2, <3>1
  <2> QED BY <2>1, <2>3
<1>7. ASSUME NEW i \in Init_, Inside(i)' PROVE home'[i] \in lock'
  BY <1>3, <1>5, <1>6, <1>7
<1>8. ASSUME NEW i \in Init_, NEW j \in Init_, i # j, Inside(i)', Inside(j)'
      PROVE  home'[i] # home'[j]
  <2>1. CASE Inside(i) /\ Inside(j)
    BY <1>1, <1>2, <1>4, <1>8, <2>1 DEF OneInitializer
  <2>2. CASE ~Inside(i)
    BY <1>3, <1>4, <1>5, <1>8, <2>2
  <2>3. CASE ~Inside(j)
    BY <1>3, <1>4, <1>5, <1>8, <2>3
  <2> QED BY <2>1, <2>2, <2>3
<1> QED BY <1>7, <1>8

-----------------------------------------------------------------------------
(* Theorems *)

\* Every step keeps the whole invariant.
LEMMA InvStep == Inv /\ [Next]_vars => Inv'
BY TypesStep, AboutSettingsStep, PreparedStep, IdentityComesLastStep, FileLockHeldStep, OneWriterStep, AgreedStep,
   LockStepKeeps DEF Inv

\* The invariant holds in every state, whatever locks are removed and when: the variables stay
\* in their ranges, and an identity on disk stands for a whole installation.  Whoever reported
\* an installation ready reported the identity on disk unless the lock of the metadata file
\* was removed under its holder, and one initializer at a time is inside a home whose lock
\* files nobody has removed.
THEOREM InstallationInvariant ==
    Spec => [](TypeOK /\ IdentityComesLast /\ IdentityIsAgreed /\ OneInitializer)
<1>1. Inv => TypeOK /\ IdentityComesLast /\ IdentityIsAgreed /\ OneInitializer
  BY DEF Inv, Types
<1> QED BY <1>1, InvInit, InvStep, PTL DEF Spec

\* No step replaces an identity or edited settings, however early the lock of the home was
\* removed, unless the lock of that file was removed under its holder.
THEOREM InstallationIsKept == Spec => NothingIsReplaced
<1>1. ASSUME Inv, [Next]_vars
      PROVE  [\A h \in Home :
                /\ meta[h] # None /\ h \notin undercut["metadata"] => meta'[h] = meta[h]
                /\ settings[h] = "edited" /\ h \notin undercut["settings"]
                      => settings'[h] = "edited"]_vars
  BY <1>1, FilesKept
<1> QED BY <1>1, InvInit, InvStep, PTL DEF Spec, NothingIsReplaced
=============================================================================
