-------------------------- MODULE ModDownload_proofs --------------------------
(***************************************************************************)
(* Proofs about ModDownload, for any files, any number of their changes,   *)
(* of commands, of failed writes and of crashes.                           *)
(***************************************************************************)
EXTENDS ModDownload, TLAPS

USE ConstantsAssumption

IsDB(db) == DOMAIN db \subseteq Mods /\ \A m \in DOMAIN db : db[m] \in Entry

\* The types that a step of the writer, or of a file, may change.
WriterTypeOK ==
    /\ DOMAIN files \subseteq Mods /\ \A m \in DOMAIN files : files[m] \in File
    /\ IsDB(modsJson) /\ IsDB(modsDB)
    /\ DOMAIN mMods \subseteq Mods /\ \A m \in DOMAIN mMods : mMods[m] \in Mod
    /\ writer \in {"load", "scan", "hashed", "truncated", "ready", "inMemory", "parsed"}
    /\ left \subseteq Mods /\ subject \in Subject
    /\ up \in BOOLEAN /\ cutShort \in BOOLEAN /\ malformed \in BOOLEAN
    /\ changes \in Nat /\ faults \in Nat /\ changes + faults <= MaxMishaps
    /\ commands \in 0..MaxCommands
    /\ kept \subseteq Mods /\ slipped \subseteq Mods /\ unwritten \subseteq Mods

SessionTypeOK ==
    /\ session \in {"away", "sync", "allowed", "granted", "measured", "sending"}
    /\ wanted \in Mods \cup {None}
    /\ size \in 0..2 /\ sent \in 0..2
    /\ connected \in BOOLEAN /\ socket \in {"own", "closed", "other", None}

\* The types, by the threads that own the variables.
LEMMA TypesOfBoth == TypeOK <=> WriterTypeOK /\ SessionTypeOK
BY DEF TypeOK, WriterTypeOK, SessionTypeOK, IsDB

\* The part of the invariant that the writer's variables decide.
WriterInv == WriterTypeOK /\ SubjectIsKnown /\ ListAgrees /\ StillAsRead /\ KeptIsHeld /\ HashesAreCurrent

\* The invariant, likewise.
LEMMA InvOfBoth == IndInv <=> WriterInv /\ SessionTypeOK
BY TypesOfBoth DEF IndInv, WriterInv

\* The same after a step.
LEMMA InvOfBothNext == IndInv' <=> WriterInv' /\ SessionTypeOK'
BY InvOfBoth, PTL

-----------------------------------------------------------------------------
(* Operators.                                                              *)

\* No mod is listed in an empty list.
LEMMA NothingIs == DOMAIN Nothing = {}
BY DEF Nothing

\* A version has one of two sizes.
LEMMA SizeOfType == \A v \in Versions : SizeOf(v) \in 1..2
BY ConstantsAssumption DEF SizeOf, Versions

\* Believing an entry is a matter of its time and its size.
LEMMA BelievedAlike ==
    ASSUME NEW e1, NEW e2, NEW f, e1.lastwrite = e2.lastwrite, e1.filesize = e2.filesize
    PROVE  Believed(e1, f) <=> Believed(e2, f)
BY DEF Believed

\* What the command makes of a database: the same names, and entries that
\* differ in no more than the mod's protection.
LEMMA ProtectedIs ==
    ASSUME NEW db, IsDB(db), subject \in [mod : Mods, protected : BOOLEAN]
    PROVE  /\ IsDB(Protected(db))
           /\ DOMAIN Protected(db) = DOMAIN db
           /\ \A m \in DOMAIN db :
                /\ Protected(db)[m].hash = db[m].hash
                /\ Protected(db)[m].lastwrite = db[m].lastwrite
                /\ Protected(db)[m].filesize = db[m].filesize
                /\ Protected(db)[m].protected = IF m = subject.mod THEN subject.protected ELSE db[m].protected
BY DEF Protected, IsDB, Entry

\* What a torn file gives: some of the entries, each as it was or without its protection.
LEMMA TornIs ==
    ASSUME NEW db, IsDB(db), NEW torn \in Torn(db)
    PROVE  /\ IsDB(torn)
           /\ DOMAIN torn \subseteq DOMAIN db
           /\ \A m \in DOMAIN torn :
                /\ torn[m].hash = db[m].hash
                /\ torn[m].lastwrite = db[m].lastwrite
                /\ torn[m].filesize = db[m].filesize
<1> DEFINE Cut(part, last) == [m \in part |-> [db[m] EXCEPT !.protected = @ /\ m # last]]
<1>0. PICK part \in SUBSET DOMAIN db : torn \in {Cut(part, last) : last \in part \cup {None}}
  BY DEF Torn
<1>1. PICK last \in part \cup {None} : torn = Cut(part, last)
  BY <1>0
<1>2. \A m \in part : db[m] \in Entry
  BY <1>1 DEF IsDB
<1>3. \A m \in part : /\ torn[m].hash = db[m].hash
                      /\ torn[m].lastwrite = db[m].lastwrite
                      /\ torn[m].filesize = db[m].filesize
                      /\ torn[m] \in Entry
  BY <1>1, <1>2 DEF Entry
<1>4. QED
  BY <1>1, <1>3 DEF IsDB

-----------------------------------------------------------------------------
(* RefreshFiles.                                                           *)

\* A refresh empties the list.
LEMMA ReloadModsKeepsInv ==
    ASSUME WriterInv, ReloadMods
    PROVE  WriterInv'
<1> USE DEF WriterInv, ReloadMods
<1>1. /\ writer = "ready" /\ writer' = "load" /\ mMods' = Nothing /\ unwritten' = {}
      /\ UNCHANGED <<files, modsJson, malformed, modsDB, left, subject, up, changes, faults, kept, slipped, cutShort>>
      /\ commands' = commands + 1 /\ commands < MaxCommands
  BY DEF fileVars, json
<1>2. WriterTypeOK'
  BY <1>1, NothingIs DEF WriterTypeOK
<1>3. SubjectIsKnown' /\ StillAsRead'
  BY <1>1 DEF SubjectIsKnown, StillAsRead, Setting
<1>4. ListAgrees'
  BY <1>1, NothingIs DEF ListAgrees
<1>5. KeptIsHeld'
  BY <1>1 DEF KeptIsHeld, Held, Setting
<1>6. HashesAreCurrent'
  BY <1>1 DEF HashesAreCurrent, Believable
<1>7. QED
  BY <1>2, <1>3, <1>4, <1>5, <1>6

\* It takes over what mods.json says.
LEMMA LoadDBKeepsInv ==
    ASSUME WriterInv, LoadDB
    PROVE  WriterInv'
<1> USE DEF WriterInv, LoadDB
<1>1. /\ writer = "load" /\ writer' = "scan" /\ modsDB' = modsJson /\ left' = DOMAIN files
      /\ UNCHANGED <<files, modsJson, malformed, mMods, subject, up, changes, commands, faults, kept, slipped, cutShort, unwritten>>
  BY DEF fileVars, json
<1>2. WriterTypeOK'
  BY <1>1 DEF WriterTypeOK, IsDB
<1>3. SubjectIsKnown' /\ StillAsRead'
  BY <1>1 DEF SubjectIsKnown, StillAsRead, Setting
<1>4. ListAgrees'
  BY <1>1 DEF ListAgrees, AgreesBut
<1>5. KeptIsHeld'
  BY <1>1 DEF KeptIsHeld, Held, Setting
<1>6. HashesAreCurrent'
  BY <1>1 DEF HashesAreCurrent, Believable
<1>7. QED
  BY <1>2, <1>3, <1>4, <1>5, <1>6

\* A mod that enters from mods.json is protected if its entry is.
LEMMA LoadFromCacheKeepsInv ==
    ASSUME WriterInv, NEW m \in Mods, LoadFromCache(m)
    PROVE  WriterInv'
<1> USE DEF WriterInv, LoadFromCache
<1>1. /\ writer = "scan" /\ writer' = "scan" /\ m \in left /\ left' = left \ {m}
      /\ m \in DOMAIN files /\ m \in DOMAIN modsDB /\ mMods' = Put(mMods, m, Listed(m))
      /\ UNCHANGED <<files, modsJson, malformed, modsDB, subject, up, changes, commands, faults, kept, slipped, cutShort, unwritten>>
  BY DEF fileVars, json
<1>2. Listed(m) \in Mod /\ Listed(m) = [hash |-> modsDB[m].hash, protected |-> modsDB[m].protected]
  BY <1>1 DEF Listed, Mod, Entry, WriterTypeOK, IsDB
<1>3. /\ DOMAIN mMods' = DOMAIN mMods \cup {m}
      /\ mMods'[m] = Listed(m)
      /\ \A n \in DOMAIN mMods : n # m => mMods'[n] = mMods[n]
  BY <1>1 DEF Put
<1>4. WriterTypeOK'
  BY <1>1, <1>2, <1>3 DEF WriterTypeOK, IsDB
<1>5. SubjectIsKnown' /\ StillAsRead'
  BY <1>1 DEF SubjectIsKnown, StillAsRead, Setting
<1>6. AgreesBut(modsDB, {})'
  BY <1>1, <1>2, <1>3 DEF ListAgrees, AgreesBut
<1>7. ListAgrees'
  BY <1>1, <1>6 DEF ListAgrees
<1>8. \A n \in Mods : IsProtected(n) /\ n # m => IsProtected(n)'
  BY <1>3 DEF IsProtected
<1>9. m \in kept => IsProtected(m)'
  BY <1>1, <1>2, <1>3 DEF IsProtected, KeptIsHeld, Held
<1>10. KeptIsHeld'
  <2>1. \A n \in kept : n \in Mods
    BY DEF WriterTypeOK
  <2>2. \A n \in kept : n \in left' \/ IsProtected(n)'
    BY <1>1, <1>8, <1>9, <2>1 DEF KeptIsHeld
  <2>3. QED
    BY <1>1, <2>2 DEF KeptIsHeld, Held, Setting
<1>11. HashesAreCurrent'
  BY <1>1 DEF HashesAreCurrent, Believable
<1>12. QED
  BY <1>4, <1>5, <1>7, <1>10, <1>11

\* A mod whose protection is to last is in mods.json as it is, and is not hashed.
LEMMA HashKeepsInv ==
    ASSUME WriterInv, NEW m \in Mods, Hash(m)
    PROVE  WriterInv'
<1> USE DEF WriterInv, Hash
<1>1. /\ writer = "scan" /\ writer' = "hashed" /\ m \in left /\ m \in DOMAIN files
      /\ (m \in DOMAIN modsDB => ~Believed(modsDB[m], files[m]))
      /\ subject' = [mod |-> m, hash |-> files[m].version]
      /\ slipped' = slipped \ {m}
      /\ UNCHANGED <<files, modsJson, malformed, modsDB, mMods, left, up, changes, commands, faults, kept, cutShort, unwritten>>
  BY DEF fileVars, json
<1>2. subject' \in [mod : Mods, hash : Versions] /\ subject'.mod = m /\ subject'.hash = files[m].version
  BY <1>1 DEF WriterTypeOK, File
<1>3. WriterTypeOK'
  BY <1>1, <1>2 DEF WriterTypeOK, IsDB, Subject
<1>4. SubjectIsKnown' /\ StillAsRead' /\ ListAgrees'
  BY <1>1, <1>2 DEF SubjectIsKnown, StillAsRead, Setting, ListAgrees, AgreesBut
<1>5. m \notin kept
  BY <1>1 DEF KeptIsHeld, Held
<1>6. KeptIsHeld'
  BY <1>1, <1>2, <1>5 DEF KeptIsHeld, Held, Setting, IsProtected
<1>7. m \in DOMAIN modsJson => ~Believed(modsJson[m], files[m])
  BY <1>1 DEF StillAsRead
<1>8. HashesAreCurrent'
  BY <1>1, <1>2, <1>7 DEF HashesAreCurrent, Believable
<1>9. QED
  BY <1>3, <1>4, <1>6, <1>8

\* It enters the hash it made, with the size and time of now.
LEMMA EnterHashedKeepsInv ==
    ASSUME WriterInv, EnterHashed
    PROVE  WriterInv'
<1> DEFINE m == subject.mod
           listed == [hash |-> subject.hash, protected |-> FALSE]
           entry == [hash |-> subject.hash, filesize |-> SizeOf(files[m].version),
                     lastwrite |-> files[m].lastWrite, protected |-> FALSE]
<1> USE DEF WriterInv
<1>1. /\ writer = "hashed" /\ writer' = "scan" /\ left' = left \ {m} /\ subject' = None
      /\ UNCHANGED <<files, modsJson, malformed, up, changes, commands, faults, kept, slipped, cutShort, unwritten>>
  BY DEF EnterHashed, fileVars, json
<1>2. m \in Mods /\ subject.hash \in Versions
  BY <1>1 DEF SubjectIsKnown
<1>3. CASE m \in DOMAIN files
  <2>1. mMods' = Put(mMods, m, listed) /\ modsDB' = Put(modsDB, m, entry)
    BY <1>3 DEF EnterHashed
  <2>2. /\ DOMAIN mMods' = DOMAIN mMods \cup {m} /\ mMods'[m] = listed
        /\ \A n \in DOMAIN mMods : n # m => mMods'[n] = mMods[n]
    BY <2>1 DEF Put
  <2>3. /\ DOMAIN modsDB' = DOMAIN modsDB \cup {m} /\ modsDB'[m] = entry
        /\ \A n \in DOMAIN modsDB : n # m => modsDB'[n] = modsDB[n]
    BY <2>1 DEF Put
  <2>4. files[m] \in File /\ SizeOf(files[m].version) \in 1..2
    BY <1>3, SizeOfType DEF WriterTypeOK, File
  <2>5. entry \in Entry /\ listed \in Mod
    BY <1>2, <2>4 DEF Entry, Mod, File
  <2>6. WriterTypeOK'
    BY <1>1, <1>2, <2>2, <2>3, <2>5 DEF WriterTypeOK, IsDB, Subject
  <2>7. SubjectIsKnown'
    BY <1>1 DEF SubjectIsKnown, Setting
  <2>8. StillAsRead'
    BY <1>1, <2>3 DEF StillAsRead
  <2>9. AgreesBut(modsDB, {})'
    <3>1. mMods'[m] = [hash |-> modsDB'[m].hash, protected |-> modsDB'[m].protected]
      BY <2>2, <2>3
    <3>2. AgreesBut(modsDB, {})
      BY <1>1 DEF ListAgrees
    <3>3. \A n \in (DOMAIN mMods \cap DOMAIN modsDB) \ {m} :
             mMods'[n] = [hash |-> modsDB'[n].hash, protected |-> modsDB'[n].protected]
      BY <2>2, <2>3, <3>2 DEF AgreesBut
    <3>4. \A n \in DOMAIN mMods' \cap DOMAIN modsDB' : n = m \/ n \in DOMAIN mMods \cap DOMAIN modsDB
      BY <2>2, <2>3
    <3>5. QED
      BY <3>1, <3>3, <3>4 DEF AgreesBut
  <2>10. ListAgrees'
    BY <1>1, <2>9 DEF ListAgrees
  <2>11. \A n \in kept : n # m /\ (n \in left' \/ IsProtected(n)')
    BY <1>1, <2>2 DEF KeptIsHeld, IsProtected
  <2>12. KeptIsHeld'
    BY <1>1, <2>3, <2>11 DEF KeptIsHeld, Held, Setting
  <2>13. subject.hash = files[m].version \/ m \in slipped
    BY <1>1, <1>3 DEF HashesAreCurrent
  <2>14. HashesAreCurrent'
    BY <1>1, <2>3, <2>13 DEF HashesAreCurrent, Believable
  <2>15. QED
    BY <2>6, <2>7, <2>8, <2>10, <2>12, <2>14
<1>4. CASE m \notin DOMAIN files
  <2>1. UNCHANGED <<mMods, modsDB>>
    BY <1>4 DEF EnterHashed
  <2>2. WriterTypeOK'
    BY <1>1, <1>2, <2>1 DEF WriterTypeOK, IsDB, Subject
  <2>3. SubjectIsKnown' /\ StillAsRead' /\ ListAgrees'
    BY <1>1, <2>1 DEF SubjectIsKnown, StillAsRead, Setting, ListAgrees, AgreesBut
  <2>4. KeptIsHeld'
    BY <1>1, <2>1 DEF KeptIsHeld, Held, Setting, IsProtected
  <2>5. HashesAreCurrent'
    BY <1>1, <2>1 DEF HashesAreCurrent, Believable
  <2>6. QED
    BY <2>2, <2>3, <2>4, <2>5
<1>5. QED
  BY <1>3, <1>4

\* It passes over a file that is gone.
LEMMA SkipVanishedKeepsInv ==
    ASSUME WriterInv, NEW m \in Mods, SkipVanished(m)
    PROVE  WriterInv'
<1> USE DEF WriterInv, SkipVanished
<1>1. /\ writer = "scan" /\ writer' = "scan" /\ m \notin DOMAIN files /\ left' = left \ {m}
      /\ UNCHANGED <<files, modsJson, malformed, modsDB, mMods, subject, up, changes, commands, faults,
                     kept, slipped, cutShort, unwritten>>
  BY DEF fileVars, json
<1>2. WriterTypeOK'
  BY <1>1 DEF WriterTypeOK, IsDB
<1>3. SubjectIsKnown' /\ StillAsRead' /\ ListAgrees'
  BY <1>1 DEF SubjectIsKnown, StillAsRead, Setting, ListAgrees, AgreesBut
<1>4. m \notin kept
  BY <1>1 DEF KeptIsHeld
<1>5. KeptIsHeld'
  BY <1>1, <1>4 DEF KeptIsHeld, Held, Setting, IsProtected
<1>6. HashesAreCurrent'
  BY <1>1 DEF HashesAreCurrent, Believable
<1>7. QED
  BY <1>2, <1>3, <1>5, <1>6

\* An exception cuts it short.
LEMMA ThrowKeepsInv ==
    ASSUME WriterInv, NEW m \in Mods, Throw(m)
    PROVE  WriterInv'
<1> USE DEF WriterInv, Throw
<1>1. /\ writer = "scan" /\ writer' = "ready" /\ left' = {} /\ modsDB' = Nothing /\ cutShort' = TRUE
      /\ UNCHANGED <<files, modsJson, malformed, mMods, subject, up, changes, commands, faults, kept, slipped, unwritten>>
  BY DEF fileVars, json
<1>2. WriterTypeOK'
  BY <1>1, NothingIs DEF WriterTypeOK, IsDB
<1>3. SubjectIsKnown' /\ StillAsRead' /\ ListAgrees'
  BY <1>1 DEF SubjectIsKnown, StillAsRead, Setting, ListAgrees
<1>4. KeptIsHeld'
  BY <1>1 DEF KeptIsHeld, Held, Setting
<1>5. HashesAreCurrent'
  BY <1>1, NothingIs DEF HashesAreCurrent, Believable
<1>6. QED
  BY <1>2, <1>3, <1>4, <1>5

\* A mod whose protection is to last is in the list by now, and its entry stays.
LEMMA PruneKeepsInv ==
    ASSUME WriterInv, Prune
    PROVE  WriterInv'
<1> USE DEF WriterInv, Prune
<1>1. /\ writer = "scan" /\ writer' = "truncated" /\ left = {} /\ modsJson' = Nothing /\ malformed' = TRUE
      /\ modsDB' = [m \in DOMAIN modsDB \cap DOMAIN mMods |-> modsDB[m]]
      /\ UNCHANGED <<files, mMods, left, subject, up, changes, commands, faults, kept, slipped, cutShort, unwritten>>
  BY DEF fileVars, json
<1>2. /\ DOMAIN modsDB' = DOMAIN modsDB \cap DOMAIN mMods
      /\ \A m \in DOMAIN modsDB' : modsDB'[m] = modsDB[m]
  BY <1>1
<1>3. WriterTypeOK'
  BY <1>1, <1>2, NothingIs DEF WriterTypeOK, IsDB
<1>4. SubjectIsKnown' /\ StillAsRead'
  BY <1>1 DEF SubjectIsKnown, StillAsRead, Setting
<1>5. AgreesBut(modsDB, {})'
  BY <1>1, <1>2 DEF ListAgrees, AgreesBut
<1>6. ListAgrees'
  BY <1>1, <1>5 DEF ListAgrees
<1>7. \A m \in kept : IsProtected(m) /\ Held(modsDB, m) /\ m \in DOMAIN files
  BY <1>1 DEF KeptIsHeld
<1>8. \A m \in kept : IsProtected(m)' /\ Held(modsDB, m)'
  BY <1>1, <1>2, <1>7 DEF IsProtected, Held
<1>9. KeptIsHeld'
  BY <1>1, <1>7, <1>8, NothingIs DEF KeptIsHeld, Setting
<1>10. HashesAreCurrent'
  BY <1>1, <1>2, NothingIs DEF HashesAreCurrent, Believable
<1>11. QED
  BY <1>3, <1>4, <1>6, <1>9, <1>10

\* It writes mods.json, which it has truncated.
LEMMA UpdateKeepsInv ==
    ASSUME WriterInv, Update
    PROVE  WriterInv'
<1> USE DEF WriterInv, Update
<1>1. /\ writer = "truncated" /\ writer' = "ready" /\ modsJson' = modsDB /\ malformed' = FALSE /\ modsDB' = Nothing
      /\ up' = TRUE /\ cutShort' = FALSE
      /\ UNCHANGED <<files, mMods, left, subject, changes, commands, faults, kept, slipped, unwritten>>
  BY DEF fileVars, json
<1>2. WriterTypeOK'
  BY <1>1, NothingIs DEF WriterTypeOK, IsDB
<1>3. SubjectIsKnown' /\ StillAsRead'
  BY <1>1 DEF SubjectIsKnown, StillAsRead, Setting
<1>4. ListAgrees'
  BY <1>1 DEF ListAgrees, AgreesBut
<1>5. KeptIsHeld'
  BY <1>1 DEF KeptIsHeld, Held, Setting, IsProtected
<1>6. HashesAreCurrent'
  BY <1>1, NothingIs DEF HashesAreCurrent, Believable
<1>7. QED
  BY <1>2, <1>3, <1>4, <1>5, <1>6

\* What a write leaves that did not come to its end is believable, and has the
\* mods whose protection is still to last.
LEMMA PartIsBelievable ==
    ASSUME WriterInv, writer \in {"truncated", "parsed"}, LeavePart
    PROVE  /\ IsDB(modsJson') /\ malformed' \in BOOLEAN /\ kept' \subseteq kept
           /\ \A m \in kept' : Held(modsJson', m)
           /\ Believable(modsJson')
<1>1. /\ modsJson' \in Torn(modsDB) \cup {modsJson}
      /\ kept' = {m \in kept : m \in DOMAIN modsJson' /\ modsJson'[m].protected}
  BY DEF LeavePart
<1>2. IsDB(modsDB) /\ IsDB(modsJson) /\ Believable(modsDB) /\ Believable(modsJson) /\ malformed \in BOOLEAN
  BY DEF WriterInv, WriterTypeOK, HashesAreCurrent
<1>3. malformed' \in BOOLEAN
  BY <1>2 DEF LeavePart
<1>4. CASE modsJson' = modsJson
  <2>1. \A m \in kept' : Held(modsJson', m)
    BY <1>1, <1>4 DEF WriterInv, KeptIsHeld
  <2>2. QED
    BY <1>1, <1>2, <1>3, <1>4, <2>1
<1>5. CASE modsJson' \in Torn(modsDB)
  <2>1. /\ IsDB(modsJson')
        /\ DOMAIN modsJson' \subseteq DOMAIN modsDB
        /\ \A m \in DOMAIN modsJson' :
              /\ modsJson'[m].hash = modsDB[m].hash
              /\ modsJson'[m].lastwrite = modsDB[m].lastwrite
              /\ modsJson'[m].filesize = modsDB[m].filesize
    BY <1>2, <1>5, TornIs
  <2>2. \A m \in DOMAIN modsJson' : Believed(modsJson'[m], files[m]) <=> Believed(modsDB[m], files[m])
    BY <2>1, BelievedAlike
  <2>3. \A m \in kept' : Held(modsJson', m)
    BY <1>1, <2>2 DEF WriterInv, KeptIsHeld, Held
  <2>4. Believable(modsJson')
    BY <1>2, <2>1, <2>2 DEF Believable
  <2>5. QED
    BY <1>1, <1>3, <2>1, <2>3, <2>4
<1>6. QED
  BY <1>1, <1>4, <1>5

\* It ends without having written mods.json: the list is not less protected.
LEMMA RefreshUnwrittenKeepsInv ==
    ASSUME WriterInv, RefreshUnwritten
    PROVE  WriterInv'
<1>1. /\ writer' = "ready" /\ modsDB' = Nothing /\ up' = TRUE /\ cutShort' = FALSE /\ unwritten' = Mods
      /\ faults' = faults + 1 /\ changes + faults < MaxMishaps
      /\ UNCHANGED <<files, mMods, left, subject, changes, commands, slipped>>
  BY DEF RefreshUnwritten, fileVars, MishapLeft
<1>2. /\ IsDB(modsJson') /\ malformed' \in BOOLEAN /\ kept' \subseteq kept
      /\ \A m \in kept' : m \in DOMAIN files /\ Held(modsJson', m) /\ IsProtected(m)
      /\ Believable(modsJson')
  <2>1. CASE writer = "scan" /\ left = {} /\ UNCHANGED <<json, kept>>
    <3>1. modsJson' = modsJson /\ malformed' = malformed /\ kept' = kept
      BY <2>1 DEF json
    <3>2. \A m \in kept : m \in DOMAIN files /\ Held(modsJson, m) /\ IsProtected(m)
      BY <2>1 DEF WriterInv, KeptIsHeld
    <3>3. IsDB(modsJson) /\ Believable(modsJson) /\ malformed \in BOOLEAN
      BY DEF WriterInv, WriterTypeOK, HashesAreCurrent
    <3>4. QED
      BY <3>1, <3>2, <3>3
  <2>2. CASE writer = "truncated" /\ LeavePart
    <3>1. \A m \in kept : m \in DOMAIN files /\ IsProtected(m)
      BY <2>2 DEF WriterInv, KeptIsHeld
    <3>2. QED
      BY <2>2, <3>1, PartIsBelievable
  <2>3. QED
    BY <2>1, <2>2 DEF RefreshUnwritten
<1>3. WriterTypeOK'
  <2>1. faults' \in Nat /\ changes + faults' <= MaxMishaps
    BY <1>1 DEF WriterInv, WriterTypeOK
  <2>2. up' \in BOOLEAN /\ cutShort' \in BOOLEAN /\ writer' = "ready" /\ IsDB(modsDB')
    BY <1>1, NothingIs DEF IsDB
  <2>3. QED
    BY <1>1, <1>2, <2>1, <2>2 DEF WriterInv, WriterTypeOK
<1>4. SubjectIsKnown' /\ StillAsRead'
  BY <1>1 DEF SubjectIsKnown, StillAsRead, Setting
<1>5. ListAgrees'
  <2>1. DOMAIN mMods \subseteq Mods
    BY DEF WriterInv, WriterTypeOK
  <2>2. QED
    BY <1>1, <2>1 DEF ListAgrees, AgreesBut
<1>6. KeptIsHeld'
  BY <1>1, <1>2 DEF KeptIsHeld, Held, Setting, IsProtected
<1>7. HashesAreCurrent'
  BY <1>1, <1>2, NothingIs DEF HashesAreCurrent, Believable
<1>8. QED
  BY <1>3, <1>4, <1>5, <1>6, <1>7 DEF WriterInv

-----------------------------------------------------------------------------
(* SetProtected.                                                           *)

\* A command protects a mod in the list.
LEMMA ProtectModKeepsInv ==
    ASSUME WriterInv, NEW m \in Mods, NEW protect \in BOOLEAN, ProtectMod(m, protect)
    PROVE  WriterInv'
<1> USE DEF WriterInv
<1>1. /\ writer = "ready" /\ writer' = "inMemory" /\ m \in DOMAIN mMods
      /\ commands' = commands + 1 /\ commands < MaxCommands
      /\ subject' = [mod |-> m, protected |-> protect]
      /\ UNCHANGED <<files, modsJson, malformed, modsDB, left, up, changes, faults, slipped, cutShort, unwritten>>
  BY DEF fileVars, json, ProtectMod
<1>2. mMods' = [mMods EXCEPT ![m].protected = protect]
  BY DEF ProtectMod
<1>3. \A n \in DOMAIN mMods : mMods[n] \in Mod
  BY DEF WriterTypeOK
<1>4. /\ DOMAIN mMods' = DOMAIN mMods
      /\ \A n \in DOMAIN mMods : n # m => mMods'[n] = mMods[n]
      /\ mMods'[m] = [hash |-> mMods[m].hash, protected |-> protect]
  BY <1>1, <1>2, <1>3 DEF Mod
<1>5. mMods'[m] \in Mod
  BY <1>1, <1>3, <1>4 DEF Mod
<1>6. subject' \in [mod : Mods, protected : BOOLEAN] /\ subject'.mod = m /\ subject'.protected = protect
  BY <1>1
<1>7. kept' \subseteq kept /\ (~protect => m \notin kept')
  BY DEF ProtectMod
<1>8. WriterTypeOK'
  <2>1. DOMAIN mMods' \subseteq Mods /\ \A n \in DOMAIN mMods' : mMods'[n] \in Mod
    BY <1>3, <1>4, <1>5 DEF WriterTypeOK
  <2>2. commands' \in 0..MaxCommands
    BY <1>1 DEF WriterTypeOK
  <2>3. subject' \in Subject
    BY <1>6 DEF Subject
  <2>4. QED
    BY <1>1, <1>7, <2>1, <2>2, <2>3 DEF WriterTypeOK, IsDB
<1>9. IsProtected(m)' <=> protect
  BY <1>1, <1>4 DEF IsProtected
<1>10. SubjectIsKnown' /\ StillAsRead'
  BY <1>1, <1>6, <1>9 DEF SubjectIsKnown, StillAsRead, Setting
<1>11. ListAgrees'
  <2>1. SUFFICES ASSUME ~cutShort PROVE AgreesBut(Protected(modsJson), unwritten)'
    BY <1>1 DEF ListAgrees
  <2>2. AgreesBut(modsJson, unwritten)
    BY <1>1, <2>1 DEF ListAgrees
  <2>3. /\ DOMAIN Protected(modsJson)' = DOMAIN modsJson
        /\ \A n \in DOMAIN modsJson :
             /\ Protected(modsJson)'[n].hash = modsJson[n].hash
             /\ Protected(modsJson)'[n].protected = IF n = m THEN protect ELSE modsJson[n].protected
    <3>1. \A n \in DOMAIN modsJson : modsJson[n] \in Entry
      BY DEF WriterTypeOK, IsDB
    <3>2. QED
      BY <1>1, <1>6, <3>1 DEF Protected, Entry
  <2>4. SUFFICES ASSUME NEW n \in (DOMAIN mMods \cap DOMAIN modsJson) \ unwritten
                 PROVE  mMods'[n] = [hash |-> Protected(modsJson)'[n].hash,
                                     protected |-> Protected(modsJson)'[n].protected]
    BY <1>1, <1>4, <2>3 DEF AgreesBut
  <2>5. mMods[n] = [hash |-> modsJson[n].hash, protected |-> modsJson[n].protected]
    BY <2>2 DEF AgreesBut
  <2>6. QED
    BY <1>4, <2>3, <2>5
<1>12. \A n \in kept' : cutShort \/ IsProtected(n)'
  <2>1. SUFFICES ASSUME NEW n \in kept', ~cutShort PROVE IsProtected(n)'
    OBVIOUS
  <2>2. IsProtected(n)
    BY <1>1, <1>7, <2>1 DEF KeptIsHeld
  <2>3. CASE n = m
    BY <1>7, <1>9, <2>3
  <2>4. CASE n # m
    BY <1>4, <2>2, <2>4 DEF IsProtected
  <2>5. QED
    BY <2>3, <2>4
<1>13. KeptIsHeld'
  BY <1>1, <1>6, <1>7, <1>12 DEF KeptIsHeld, Held, Setting
<1>14. HashesAreCurrent'
  BY <1>1 DEF HashesAreCurrent, Believable
<1>15. QED
  BY <1>8, <1>10, <1>11, <1>13, <1>14

\* Then it reads mods.json, and changes its copy.
LEMMA ParseDBKeepsInv ==
    ASSUME WriterInv, ParseDB
    PROVE  WriterInv'
<1> USE DEF WriterInv, ParseDB
<1>1. /\ writer = "inMemory" /\ writer' = "parsed" /\ modsDB' = Protected(modsJson)
      /\ UNCHANGED <<files, modsJson, malformed, mMods, left, subject, up, changes, commands, faults,
                     kept, slipped, cutShort, unwritten>>
  BY DEF fileVars, json
<1>2. subject \in [mod : Mods, protected : BOOLEAN] /\ (IsProtected(subject.mod) <=> subject.protected)
  BY <1>1 DEF SubjectIsKnown, Setting
<1>3. IsDB(modsJson)
  BY DEF WriterTypeOK
<1>4. /\ IsDB(modsDB)'
      /\ DOMAIN modsDB' = DOMAIN modsJson
      /\ \A m \in DOMAIN modsJson :
            /\ modsDB'[m].hash = modsJson[m].hash
            /\ modsDB'[m].lastwrite = modsJson[m].lastwrite
            /\ modsDB'[m].filesize = modsJson[m].filesize
            /\ modsDB'[m].protected = IF m = subject.mod THEN subject.protected ELSE modsJson[m].protected
  <2>1. IsDB(Protected(modsJson))
    BY <1>2, <1>3, ProtectedIs
  <2>2. IsDB(modsDB)'
    BY <1>1, <2>1 DEF IsDB
  <2>3. QED
    BY <1>1, <1>2, <1>3, <2>2, ProtectedIs
<1>5. WriterTypeOK'
  BY <1>1, <1>4 DEF WriterTypeOK, IsDB
<1>6. SubjectIsKnown'
  BY <1>1, <1>2, <1>4 DEF SubjectIsKnown, Setting, IsProtected
<1>7. StillAsRead'
  BY <1>1 DEF StillAsRead
<1>8. ListAgrees'
  BY <1>1 DEF ListAgrees, AgreesBut
<1>9. \A m \in DOMAIN modsJson : Believed(modsDB'[m], files[m]) <=> Believed(modsJson[m], files[m])
  BY <1>4, BelievedAlike
<1>10. \A m \in kept : Held(modsDB, m)'
  <2>1. TAKE m \in kept
  <2>2. Held(modsJson, m) /\ (m = subject.mod => subject.protected)
    BY <1>1 DEF KeptIsHeld, Setting
  <2>3. m \in DOMAIN modsDB' /\ modsDB'[m].protected
    BY <1>4, <2>2 DEF Held
  <2>4. Believed(modsDB'[m], files[m])
    BY <1>9, <2>2 DEF Held
  <2>5. QED
    BY <1>1, <2>3, <2>4 DEF Held
<1>11. KeptIsHeld'
  BY <1>1, <1>10 DEF KeptIsHeld, Held, Setting, IsProtected
<1>12. HashesAreCurrent'
  BY <1>1, <1>4, <1>9 DEF HashesAreCurrent, Believable
<1>13. QED
  BY <1>5, <1>6, <1>7, <1>8, <1>11, <1>12

\* Then it writes the copy back.
LEMMA RewriteKeepsInv ==
    ASSUME WriterInv, Rewrite
    PROVE  WriterInv'
<1> USE DEF WriterInv
<1>1. /\ writer = "parsed" /\ writer' = "ready" /\ modsJson' = modsDB /\ malformed' = FALSE
      /\ modsDB' = Nothing /\ subject' = None
      /\ UNCHANGED <<files, mMods, left, up, changes, commands, faults, slipped, cutShort, unwritten>>
  BY DEF fileVars, json, Rewrite
<1>2. /\ subject \in [mod : Mods, protected : BOOLEAN]
      /\ IsProtected(subject.mod) <=> subject.protected
      /\ subject.mod \in DOMAIN modsDB => (modsDB[subject.mod].protected <=> subject.protected)
  BY <1>1 DEF SubjectIsKnown, Setting
<1>3. \A m \in kept' : \/ m \in kept
                       \/ /\ m = subject.mod /\ m \in DOMAIN modsDB /\ m \in DOMAIN files
                          /\ subject.protected /\ Believed(modsDB[m], files[m])
  BY DEF Rewrite
<1>4. kept' \subseteq Mods
  BY <1>2, <1>3 DEF WriterTypeOK
<1>5. WriterTypeOK'
  BY <1>1, <1>4, NothingIs DEF WriterTypeOK, IsDB, Subject
<1>6. SubjectIsKnown' /\ StillAsRead'
  BY <1>1 DEF SubjectIsKnown, StillAsRead, Setting
<1>7. ListAgrees'
  BY <1>1 DEF ListAgrees, AgreesBut
<1>8. \A m \in kept' : m \in DOMAIN files /\ Held(modsDB, m) /\ (cutShort \/ IsProtected(m))
  <2>1. TAKE m \in kept'
  <2>2. CASE m \in kept
    BY <1>1, <2>2 DEF KeptIsHeld, Setting
  <2>3. CASE m \notin kept
    BY <1>2, <1>3, <2>3 DEF Held
  <2>4. QED
    BY <2>2, <2>3
<1>9. KeptIsHeld'
  BY <1>1, <1>8 DEF KeptIsHeld, Held, Setting, IsProtected
<1>10. HashesAreCurrent'
  BY <1>1, NothingIs DEF HashesAreCurrent, Believable
<1>11. QED
  BY <1>5, <1>6, <1>7, <1>9, <1>10

\* Or it only logs that it could not: the list differs from the file where it
\* was to be changed, or anywhere when the file was written in part.
LEMMA ProtectUnwrittenKeepsInv ==
    ASSUME WriterInv, ProtectUnwritten
    PROVE  WriterInv'
<1>1. /\ writer \in {"inMemory", "parsed"} /\ writer' = "ready" /\ modsDB' = Nothing /\ subject' = None
      /\ UNCHANGED <<files, mMods, left, up, changes, commands, slipped, cutShort>>
  BY DEF ProtectUnwritten, fileVars
<1>2. faults' \in Nat /\ changes + faults' <= MaxMishaps
  BY DEF ProtectUnwritten, MishapLeft, WriterInv, WriterTypeOK
<1>3. /\ subject \in [mod : Mods, protected : BOOLEAN]
      /\ \A m \in kept : m \in DOMAIN files /\ Held(modsJson, m) /\ (cutShort \/ IsProtected(m))
  BY <1>1 DEF WriterInv, SubjectIsKnown, KeptIsHeld, Setting
<1>4. /\ IsDB(modsJson') /\ malformed' \in BOOLEAN /\ kept' \subseteq kept /\ unwritten' \subseteq Mods
      /\ \A m \in kept' : Held(modsJson', m)
      /\ Believable(modsJson')
      /\ ~cutShort => AgreesBut(modsJson', unwritten')
  <2>1. CASE writer = "inMemory" /\ unwritten' = unwritten \cup {subject.mod} /\ UNCHANGED <<json, kept>>
    <3>1. modsJson' = modsJson /\ malformed' = malformed /\ kept' = kept
      BY <2>1 DEF json
    <3>2. IsDB(modsJson) /\ Believable(modsJson) /\ malformed \in BOOLEAN /\ unwritten \subseteq Mods
      BY DEF WriterInv, WriterTypeOK, HashesAreCurrent
    <3>3. ~cutShort => AgreesBut(modsJson, unwritten')
      <4>1. ~cutShort => AgreesBut(Protected(modsJson), unwritten)
        BY <2>1 DEF WriterInv, ListAgrees
      <4>2. /\ DOMAIN Protected(modsJson) = DOMAIN modsJson
            /\ \A m \in DOMAIN modsJson : m # subject.mod =>
                  /\ Protected(modsJson)[m].hash = modsJson[m].hash
                  /\ Protected(modsJson)[m].protected = modsJson[m].protected
        BY <1>3, <3>2, ProtectedIs
      <4>3. QED
        BY <2>1, <4>1, <4>2 DEF AgreesBut
    <3>4. QED
      BY <1>3, <2>1, <3>1, <3>2, <3>3
  <2>2. CASE writer = "parsed" /\ LeavePart /\ unwritten' = Mods
    <3>1. DOMAIN mMods \subseteq Mods
      BY DEF WriterInv, WriterTypeOK
    <3>2. AgreesBut(modsJson', unwritten')
      BY <2>2, <3>1 DEF AgreesBut
    <3>3. QED
      BY <2>2, <3>2, PartIsBelievable
  <2>3. QED
    BY <2>1, <2>2 DEF ProtectUnwritten
<1>5. WriterTypeOK'
  BY <1>1, <1>2, <1>4, NothingIs DEF WriterInv, WriterTypeOK, IsDB, Subject
<1>6. SubjectIsKnown' /\ StillAsRead'
  BY <1>1 DEF SubjectIsKnown, StillAsRead, Setting
<1>7. ListAgrees'
  BY <1>1, <1>4 DEF ListAgrees, AgreesBut
<1>8. KeptIsHeld'
  BY <1>1, <1>3, <1>4 DEF KeptIsHeld, Held, Setting, IsProtected
<1>9. HashesAreCurrent'
  BY <1>1, <1>4, NothingIs DEF HashesAreCurrent, Believable
<1>10. QED
  BY <1>5, <1>6, <1>7, <1>8, <1>9 DEF WriterInv

-----------------------------------------------------------------------------
(* Files change, and the process crashes.                                  *)

\* A change that a database cannot tell from what it has is one that slipped.
LEMMA ChangeKeepsInv ==
    ASSUME WriterInv, NEW m \in Mods, Change(m)
    PROVE  WriterInv'
<1> USE DEF WriterInv
<1>1. /\ changes' = changes + 1 /\ changes + faults < MaxMishaps
      /\ kept' = kept \ {m}
      /\ UNCHANGED <<modsJson, malformed, modsDB, mMods, writer, left, subject, up, commands, cutShort, unwritten, faults>>
  BY DEF Change, writerVars, MishapLeft
<1>2. changes' \in Nat /\ changes' + faults <= MaxMishaps /\ changes' \in Versions /\ (0..changes') \subseteq Versions
  BY <1>1 DEF WriterTypeOK, Versions
<1>3. PICK time \in 0..changes' :
         /\ files' = Put(files, m, [version |-> changes', lastWrite |-> time])
         /\ slipped' = IF \/ writer = "hashed" /\ subject.mod = m
                          \/ m \in DOMAIN modsDB /\ modsDB[m].lastwrite >= time /\ modsDB[m].filesize = SizeOf(changes')
                          \/ m \in DOMAIN modsJson /\ modsJson[m].lastwrite >= time
                             /\ modsJson[m].filesize = SizeOf(changes')
                       THEN slipped \cup {m} ELSE slipped
  BY DEF Change
<1> DEFINE f == [version |-> changes', lastWrite |-> time]
<1>4. /\ DOMAIN files' = DOMAIN files \cup {m}
      /\ files'[m] = f
      /\ \A n \in DOMAIN files : n # m => files'[n] = files[n]
  BY <1>3 DEF Put
<1>5. f \in File
  BY <1>2 DEF File
<1>6. slipped' \subseteq Mods /\ slipped \subseteq slipped'
  BY <1>3 DEF WriterTypeOK
<1>7. WriterTypeOK'
  <2>1. DOMAIN files' \subseteq Mods /\ \A n \in DOMAIN files' : files'[n] \in File
    BY <1>4, <1>5 DEF WriterTypeOK
  <2>2. QED
    BY <1>1, <1>2, <1>6, <2>1 DEF WriterTypeOK, IsDB
<1>8. SubjectIsKnown' /\ StillAsRead'
  BY <1>1 DEF SubjectIsKnown, StillAsRead, Setting, IsProtected
<1>9. ListAgrees'
  BY <1>1 DEF ListAgrees, AgreesBut, Protected
<1>10. KeptIsHeld'
  BY <1>1, <1>4 DEF KeptIsHeld, Held, Setting, IsProtected
<1>11. /\ m \in DOMAIN modsDB /\ Believed(modsDB[m], f) => m \in slipped'
       /\ m \in DOMAIN modsJson /\ Believed(modsJson[m], f) => m \in slipped'
       /\ writer = "hashed" /\ subject.mod = m => m \in slipped'
  BY <1>3 DEF Believed
<1>12. Believable(modsDB)' /\ Believable(modsJson)'
  BY <1>1, <1>4, <1>6, <1>11 DEF HashesAreCurrent, Believable
<1>13. HashesAreCurrent'
  BY <1>1, <1>4, <1>6, <1>11, <1>12 DEF HashesAreCurrent
<1>14. QED
  BY <1>7, <1>8, <1>9, <1>10, <1>13

\* The operator removes a file.
LEMMA RemoveKeepsInv ==
    ASSUME WriterInv, NEW m \in Mods, Remove(m)
    PROVE  WriterInv'
<1> USE DEF WriterInv
<1>1. /\ changes' = changes + 1 /\ changes + faults < MaxMishaps
      /\ kept' = kept \ {m}
      /\ UNCHANGED <<modsJson, malformed, modsDB, mMods, writer, left, subject, up, commands, cutShort, unwritten, faults, slipped>>
  BY DEF Remove, writerVars, MishapLeft
<1>2. DOMAIN files' = DOMAIN files \ {m} /\ \A n \in DOMAIN files' : files'[n] = files[n]
  BY DEF Remove
<1>3. WriterTypeOK'
  BY <1>1, <1>2 DEF WriterTypeOK, IsDB
<1>4. SubjectIsKnown' /\ StillAsRead'
  BY <1>1 DEF SubjectIsKnown, StillAsRead, Setting, IsProtected
<1>5. ListAgrees'
  BY <1>1 DEF ListAgrees, AgreesBut, Protected
<1>6. KeptIsHeld'
  BY <1>1, <1>2 DEF KeptIsHeld, Held, Setting, IsProtected
<1>7. HashesAreCurrent'
  BY <1>1, <1>2 DEF HashesAreCurrent, Believable
<1>8. QED
  BY <1>3, <1>4, <1>5, <1>6, <1>7

\* What a start finds: nothing in memory, and in mods.json what is believable
\* and has the mods whose protection is to last.
LEMMA RestartKeepsInv ==
    ASSUME WriterInv, Restart, faults' \in Nat, changes + faults' <= MaxMishaps,
           kept' \subseteq kept, IsDB(modsJson'), malformed' \in BOOLEAN,
           \A m \in kept' : Held(modsJson', m),
           Believable(modsJson')
    PROVE  WriterInv'
<1> USE DEF WriterInv
<1>1. /\ mMods' = Nothing /\ modsDB' = Nothing /\ writer' = "load" /\ left' = {} /\ subject' = None
      /\ up' = FALSE /\ cutShort' = FALSE /\ unwritten' = {}
      /\ UNCHANGED <<files, changes, commands, slipped>>
  BY DEF Restart, fileVars
<1>2. WriterTypeOK'
  BY <1>1, NothingIs DEF WriterTypeOK, IsDB, Subject
<1>3. SubjectIsKnown' /\ StillAsRead'
  BY <1>1 DEF SubjectIsKnown, StillAsRead, Setting
<1>4. ListAgrees'
  BY <1>1, NothingIs DEF ListAgrees
<1>5. \A m \in kept' : m \in DOMAIN files'
  BY <1>1 DEF KeptIsHeld
<1>6. \A m \in kept' : Held(modsJson, m)'
  BY <1>1 DEF Held
<1>7. KeptIsHeld'
  BY <1>1, <1>5, <1>6 DEF KeptIsHeld, Setting
<1>8. HashesAreCurrent'
  BY <1>1, NothingIs DEF HashesAreCurrent, Believable
<1>9. QED
  BY <1>2, <1>3, <1>4, <1>7, <1>8

\* A crash leaves what is on the disk.
LEMMA CrashKeepsInv ==
    ASSUME WriterInv, Crash
    PROVE  WriterInv'
<1>1. Restart /\ faults' \in Nat /\ changes + faults' <= MaxMishaps
  BY DEF Crash, WriterInv, WriterTypeOK, MishapLeft
<1>2. CASE writer \in {"truncated", "parsed"}
  <2>1. LeavePart
    BY <1>2 DEF Crash
  <2>2. QED
    BY <1>1, <1>2, <2>1, PartIsBelievable, RestartKeepsInv
<1>3. CASE writer \notin {"truncated", "parsed"}
  <2>1. UNCHANGED <<modsJson, malformed, kept>>
    BY <1>3 DEF Crash, json
  <2>2. \A m \in kept' : Held(modsJson', m)
    BY <1>3, <2>1 DEF WriterInv, KeptIsHeld
  <2>3. IsDB(modsJson') /\ Believable(modsJson') /\ kept' \subseteq kept /\ malformed' \in BOOLEAN
    BY <2>1 DEF WriterInv, WriterTypeOK, HashesAreCurrent
  <2>4. QED
    BY <1>1, <2>2, <2>3, RestartKeepsInv
<1>4. QED
  BY <1>2, <1>3

\* So does an exception in the refresh at start-up.
LEMMA TerminateAtStartKeepsInv ==
    ASSUME WriterInv, TerminateAtStart
    PROVE  WriterInv'
<1>1. Restart /\ writer = "scan" /\ UNCHANGED <<modsJson, malformed, changes, faults, kept>>
  BY DEF TerminateAtStart, Restart, fileVars, json
<1>2. \A m \in kept' : Held(modsJson', m)
  BY <1>1 DEF WriterInv, KeptIsHeld
<1>3. /\ IsDB(modsJson') /\ Believable(modsJson') /\ kept' \subseteq kept /\ malformed' \in BOOLEAN
      /\ faults' \in Nat /\ changes + faults' <= MaxMishaps
  BY <1>1 DEF WriterInv, WriterTypeOK, HashesAreCurrent
<1>4. QED
  BY <1>1, <1>2, <1>3, RestartKeepsInv

-----------------------------------------------------------------------------
(* The session.                                                            *)

\* The steps that change no more than what the session has.
SessionStep ==
    \/ Connect \/ LeaveSync \/ Download \/ Disconnect \/ Reuse
    \/ \E m \in Mods : SendFile(m)

\* A download changes nothing of the writer's.
LEMMA SessionLeavesTheRest ==
    ASSUME SessionStep
    PROVE  UNCHANGED <<files, changes, modsJson, malformed, modsDB, mMods, writer, left, subject, up, commands,
                       cutShort, faults, kept, slipped, unwritten>>
BY DEF SessionStep, Connect, LeaveSync, Download, FindFile, Measure, OpenFile, SendNow, GiveUp, AllSent,
       Disconnect, Reuse, SendFile, fileVars, writerVars

\* Nor does anything else that leaves its variables alone.
LEMMA UnchangedKeepsInv ==
    ASSUME WriterInv,
           UNCHANGED <<files, changes, modsJson, malformed, modsDB, mMods, writer, left, subject, up, commands,
                       cutShort, faults, kept, slipped, unwritten>>
    PROVE  WriterInv'
<1> USE DEF WriterInv
<1>1. WriterTypeOK'
  BY DEF WriterTypeOK, IsDB
<1>2. SubjectIsKnown' /\ StillAsRead'
  BY DEF SubjectIsKnown, StillAsRead, Setting, IsProtected
<1>3. ListAgrees'
  BY DEF ListAgrees, AgreesBut, Protected
<1>4. KeptIsHeld'
  BY DEF KeptIsHeld, Held, Setting, IsProtected
<1>5. HashesAreCurrent'
  BY DEF HashesAreCurrent, Believable
<1>6. QED
  BY <1>1, <1>2, <1>3, <1>4, <1>5

\* The session's variables after a download.
LEMMA ReturnType ==
    ASSUME NEW to \in {"away", "sync"}, Return(to), connected' \in BOOLEAN
    PROVE  SessionTypeOK'
BY DEF Return, SessionTypeOK

\* Every step of a download keeps their types.
LEMMA SessionKeepsType ==
    ASSUME WriterTypeOK, SessionTypeOK, SessionStep
    PROVE  SessionTypeOK'
<1> USE DEF SessionTypeOK
<1>1. CASE Connect
  BY <1>1 DEF Connect
<1>2. CASE LeaveSync
  BY <1>2 DEF LeaveSync
<1>3. CASE FindFile
  BY <1>3, ReturnType DEF FindFile
<1>4. CASE Measure
  <2>1. CASE wanted \in DOMAIN files
    <3>1. SizeOf(files[wanted].version) \in 1..2
      BY <2>1, SizeOfType DEF WriterTypeOK, File
    <3>2. QED
      BY <1>4, <2>1, <3>1 DEF Measure
  <2>2. CASE wanted \notin DOMAIN files
    BY <1>4, <2>2, ReturnType DEF Measure
  <2>3. QED
    BY <2>1, <2>2
<1>5. CASE OpenFile
  BY <1>5, ReturnType DEF OpenFile
<1>6. CASE SendNow
  BY <1>6 DEF SendNow, Sending
<1>7. CASE GiveUp
  BY <1>7, ReturnType DEF GiveUp
<1>8. CASE AllSent
  BY <1>8, ReturnType DEF AllSent
<1>9. CASE Disconnect
  BY <1>9 DEF Disconnect
<1>10. CASE Reuse
  BY <1>10 DEF Reuse
<1>11. CASE \E m \in Mods : SendFile(m)
  BY <1>11 DEF SendFile
<1>12. QED
  BY <1>1, <1>2, <1>3, <1>4, <1>5, <1>6, <1>7, <1>8, <1>9, <1>10, <1>11 DEF SessionStep, Download

-----------------------------------------------------------------------------
(* The theorems.                                                           *)

\* A server that starts satisfies the invariant.
LEMMA InitEstablishesInv == Init => IndInv
<1> SUFFICES ASSUME Init PROVE WriterInv /\ SessionTypeOK
  BY InvOfBoth
<1> USE DEF Init
<1>1. /\ 0 \in Versions /\ 0 \in 0..MaxCommands /\ 0 \in 0..2
      /\ changes \in Nat /\ faults \in Nat /\ changes + faults <= MaxMishaps
  BY DEF Versions
<1>2. /\ DOMAIN files \subseteq Mods /\ \A m \in DOMAIN files : files[m] \in File
      /\ IsDB(modsJson) /\ IsDB(modsDB)
      /\ DOMAIN mMods \subseteq Mods /\ \A m \in DOMAIN mMods : mMods[m] \in Mod
      /\ left \subseteq Mods /\ kept \subseteq Mods /\ slipped \subseteq Mods /\ unwritten \subseteq Mods
  BY <1>1, NothingIs DEF File, IsDB
<1>3. WriterTypeOK
  <2>1. up \in BOOLEAN /\ cutShort \in BOOLEAN /\ malformed \in BOOLEAN
    OBVIOUS
  <2>2. subject \in Subject
    BY DEF Subject
  <2>3. QED
    BY <1>1, <1>2, <2>1, <2>2, Zenon DEF WriterTypeOK
<1>4. SessionTypeOK
  BY <1>1, Zenon DEF SessionTypeOK
<1>5. SubjectIsKnown /\ StillAsRead /\ KeptIsHeld
  BY DEF SubjectIsKnown, StillAsRead, KeptIsHeld, Setting
<1>6. ListAgrees /\ HashesAreCurrent
  BY NothingIs DEF ListAgrees, HashesAreCurrent, Believable
<1>7. QED
  BY <1>3, <1>4, <1>5, <1>6 DEF WriterInv

\* Every step keeps it.
LEMMA NextKeepsInv == IndInv /\ [Next]_vars => IndInv'
<1> SUFFICES ASSUME WriterInv, SessionTypeOK, [Next]_vars PROVE WriterInv' /\ SessionTypeOK'
  BY InvOfBoth, InvOfBothNext
<1> DEFINE WriterStep == RefreshFiles \/ Commands \/ SetProtected
           FileStep == \E m \in Mods : Change(m) \/ Remove(m)
<1>1. ASSUME WriterStep \/ FileStep
      PROVE  UNCHANGED sessionVars
  BY <1>1 DEF RefreshFiles, Scan, LoadDB, LoadFromCache, Hash, SkipVanished, Throw, EnterHashed, Prune, Update, RefreshUnwritten,
              Commands, ReloadMods, ProtectMod, SetProtected, ParseDB, Rewrite, ProtectUnwritten, Change, Remove
<1>2. ASSUME UNCHANGED sessionVars
      PROVE  SessionTypeOK'
  BY <1>2 DEF sessionVars, SessionTypeOK
<1>3. CASE RefreshFiles
  <2>1. LoadDB => WriterInv'
    BY LoadDBKeepsInv
  <2>2. ASSUME NEW m \in Mods, LoadFromCache(m) \/ Hash(m) \/ SkipVanished(m) \/ Throw(m)
        PROVE  WriterInv'
    BY <2>2, LoadFromCacheKeepsInv, HashKeepsInv, SkipVanishedKeepsInv, ThrowKeepsInv
  <2>3. EnterHashed => WriterInv'
    BY EnterHashedKeepsInv
  <2>4. Prune => WriterInv'
    BY PruneKeepsInv
  <2>5. Update => WriterInv'
    BY UpdateKeepsInv
  <2>6. WriterInv'
    BY <1>3, <2>1, <2>2, <2>3, <2>4, <2>5, RefreshUnwrittenKeepsInv DEF RefreshFiles, Scan
  <2>7. QED
    BY <1>1, <1>2, <1>3, <2>6
<1>4. CASE Commands
  <2>1. ReloadMods => WriterInv'
    BY ReloadModsKeepsInv
  <2>2. ASSUME NEW m \in Mods, NEW protect \in BOOLEAN, ProtectMod(m, protect)
        PROVE  WriterInv'
    BY <2>2, ProtectModKeepsInv
  <2>3. WriterInv'
    BY <1>4, <2>1, <2>2 DEF Commands
  <2>4. QED
    BY <1>1, <1>2, <1>4, <2>3
<1>5. CASE SetProtected
  BY <1>1, <1>2, <1>5, ParseDBKeepsInv, RewriteKeepsInv, ProtectUnwrittenKeepsInv DEF SetProtected
<1>6. CASE FileStep
  <2>1. WriterInv'
    BY <1>6, ChangeKeepsInv, RemoveKeepsInv
  <2>2. QED
    BY <1>1, <1>2, <1>6, <2>1
<1>7. CASE Crash \/ TerminateAtStart
  <2>1. WriterInv'
    BY <1>7, CrashKeepsInv, TerminateAtStartKeepsInv
  <2>2. SessionTypeOK'
    <3>1. 0 \in 0..2
      OBVIOUS
    <3>2. QED
      BY <1>7, <3>1, Zenon DEF Crash, TerminateAtStart, Restart, SessionTypeOK
  <2>3. QED
    BY <2>1, <2>2
<1>8. CASE SessionStep
  <2>1. WriterInv'
    BY <1>8, SessionLeavesTheRest, UnchangedKeepsInv
  <2>2. SessionTypeOK'
    BY <1>8, SessionKeepsType DEF WriterInv
  <2>3. QED
    BY <2>1, <2>2
<1>9. CASE UNCHANGED vars
  <2>1. WriterInv'
    BY <1>9, UnchangedKeepsInv DEF vars
  <2>2. SessionTypeOK'
    BY <1>9 DEF vars, SessionTypeOK
  <2>3. QED
    BY <2>1, <2>2
<1>10. QED
  BY <1>3, <1>4, <1>5, <1>6, <1>7, <1>8, <1>9 DEF Next, SessionStep

\* What is in mods.json, in the writer's copy of it and in the list agree at
\* every point of a refresh and a command, at every crash and failed write (TResourceManager.cpp).
THEOREM Invariance == Spec => []IndInv
<1>1. Init => IndInv
  BY InitEstablishesInv
<1>2. IndInv /\ [Next]_vars => IndInv'
  BY NextKeepsInv
<1>3. QED
  BY <1>1, <1>2, PTL DEF Spec

\* What a restart finds in mods.json is what clients were told of the mods.
THEOREM FileAndListAgree == Spec => []FileAgreesWithList
<1>1. IndInv => FileAgreesWithList
  BY DEF IndInv, ListAgrees, AgreesBut, FileAgreesWithList
<1>2. QED
  BY <1>1, Invariance, PTL

\* A mod that was protected, reloaded and kept over restarts is still refused
\* to a session, but while a refresh runs or was cut short (TNetwork.cpp:1088).
THEOREM ProtectionLasts == Spec => ProtectedIsRefused
<1>1. IndInv /\ [Next]_vars =>
        [session = "sync" /\ session' = "allowed" => wanted' \notin kept \/ Refreshing \/ cutShort]_vars
  <2> SUFFICES ASSUME IndInv, Next, session = "sync", session' = "allowed", ~Refreshing, ~cutShort
               PROVE  wanted' \notin kept
    OBVIOUS
  <2>1. PICK m \in Mods : SendFile(m)
    BY DEF Next, RefreshFiles, Scan, LoadDB, LoadFromCache, Hash, SkipVanished, Throw, EnterHashed, Prune,
           Update, RefreshUnwritten, Commands, ReloadMods, ProtectMod, SetProtected, ParseDB, Rewrite, ProtectUnwritten, Change, Remove,
           Crash, TerminateAtStart, Restart, Connect, LeaveSync, Download, FindFile, Measure, OpenFile,
           SendNow, GiveUp, AllSent, Return, Disconnect, Reuse, sessionVars
  <2>2. ~IsProtected(m) /\ wanted' = m
    BY <2>1 DEF SendFile
  <2>3. writer = "ready" \/ Setting
    BY DEF IndInv, TypeOK, Refreshing, Setting
  <2>4. QED
    BY <2>2, <2>3 DEF IndInv, KeptIsHeld
<1>2. QED
  BY <1>1, Invariance, PTL DEF Spec, ProtectedIsRefused

\* No refresh enters a hash that is not the file's, but where the last change
\* is one that RefreshFiles cannot see (TResourceManager.cpp:95, 131).
THEOREM HashesAreEnteredCurrent == Spec => EnteredHashIsCurrent
<1>1. IndInv /\ [Next]_vars =>
        [\A m \in Mods :
            Refreshing /\ m \notin DOMAIN mMods /\ m \in DOMAIN mMods' =>
               mMods'[m].hash = files[m].version \/ m \in slipped]_vars
  <2> SUFFICES ASSUME IndInv, Next, NEW m \in Mods, Refreshing, m \notin DOMAIN mMods, m \in DOMAIN mMods'
               PROVE  mMods'[m].hash = files[m].version \/ m \in slipped
    OBVIOUS
  <2>1. (\E n \in Mods : LoadFromCache(n)) \/ EnterHashed
    BY NothingIs
       DEF Refreshing, Next, RefreshFiles, Scan, LoadDB, Hash, SkipVanished, Throw, Prune,
           Update, RefreshUnwritten, Commands, ReloadMods, ProtectMod, SetProtected, ParseDB, Rewrite, ProtectUnwritten, Change, Remove,
           Crash, TerminateAtStart, Restart, Connect, LeaveSync, Download, FindFile, Measure, OpenFile,
           SendNow, GiveUp, AllSent, Disconnect, Reuse, SendFile, writerVars
  <2>2. ASSUME NEW n \in Mods, LoadFromCache(n)
        PROVE  mMods'[m].hash = files[m].version \/ m \in slipped
    <3>1. n \in DOMAIN files \cap DOMAIN modsDB /\ Believed(modsDB[n], files[n]) /\ mMods' = Put(mMods, n, Listed(n))
      BY <2>2 DEF LoadFromCache
    <3>2. DOMAIN mMods' = DOMAIN mMods \cup {n} /\ mMods'[n].hash = modsDB[n].hash
      BY <3>1 DEF Put, Listed
    <3>3. m = n
      BY <3>2
    <3>4. QED
      BY <3>1, <3>2, <3>3 DEF IndInv, HashesAreCurrent, Believable
  <2>3. ASSUME EnterHashed
        PROVE  mMods'[m].hash = files[m].version \/ m \in slipped
    <3>1. /\ writer = "hashed" /\ subject.mod \in DOMAIN files
          /\ mMods' = Put(mMods, subject.mod, [hash |-> subject.hash, protected |-> FALSE])
      BY <2>3 DEF EnterHashed
    <3>2. DOMAIN mMods' = DOMAIN mMods \cup {subject.mod} /\ mMods'[subject.mod].hash = subject.hash
      BY <3>1 DEF Put
    <3>3. m = subject.mod
      BY <3>2
    <3>4. QED
      BY <3>1, <3>2, <3>3 DEF IndInv, HashesAreCurrent
  <2>4. QED
    BY <2>1, <2>2, <2>3
<1>2. QED
  BY <1>1, Invariance, PTL DEF Spec, EnteredHashIsCurrent

=============================================================================
