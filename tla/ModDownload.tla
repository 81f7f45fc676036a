------------------------------ MODULE ModDownload ------------------------------
(***************************************************************************)
(* The mods that clients download when they join, TResourceManager and the *)
(* part of TNetwork that sends them.  One thread writes the list of mods:  *)
(* the main thread before the network exists, then the console's, with     *)
(* "reloadmods" and "protectmod".  Sessions read a copy of the list, which *)
(* GetMods takes without mModsMutex; there is one here, for they share     *)
(* nothing that they change but the numbers of their sockets.  What is     *)
(* known of the files is kept over a restart in mods.json; the process may *)
(* crash between two steps, a write of it may fail, and files may change. *)
(***************************************************************************)
EXTENDS Naturals, FiniteSets, Functions

CONSTANTS
    Mods,           \* names of files in Resources/Client
    None,
    MaxCommands,    \* bound: commands on the console
    MaxMishaps      \* bound: changes of files, crashes and failed writes of mods.json

ASSUME ConstantsAssumption ==
    /\ None \notin Mods
    /\ {MaxCommands, MaxMishaps} \subseteq Nat

Versions == 0..MaxMishaps
\* A file's content is the number of the change that made it: 0 those at the
\* start.  Two contents in a row differ in size, every second has the same.
SizeOf(v) == 1 + (v % 2)

VARIABLES
    files,      \* for each name that is there, its version and its modification time
    modsJson,   \* what a parse of mods.json gives, a function of the names in it
    malformed,  \* that parse fails before the end of the file
    modsDB,     \* the copy that the writer works on
    mMods,      \* the list, as a function of file_name
    writer,     \* where the writer is
    left,       \* refresh: names the directory iterator has still to give
    subject,    \* refresh: the file that is being hashed; command: the mod to protect
    up,         \* the network exists
    session,    \* what the session is doing
    wanted,     \* the mod it asked for
    size,       \* the size it measured
    sent,       \* what it has sent of it
    connected,  \* its client's socket is open
    socket,     \* what the number that SendFileToClient read names by now
    changes, commands, faults,     \* counters, for the bounds
    kept,       \* history: mods whose protection is to last
    slipped,    \* history: mods whose last change mods.json cannot tell
    cutShort,   \* history: an exception ended the last refresh
    unwritten   \* history: mods of the list that a write of mods.json has failed for

fileVars == <<files, changes>>
json == <<modsJson, malformed>>
writerVars == <<modsJson, malformed, modsDB, mMods, writer, left, subject, up, commands, cutShort, unwritten>>
sessionVars == <<session, wanted, size, sent, connected, socket>>
vars == <<files, modsJson, malformed, modsDB, mMods, writer, left, subject, up, session, wanted, size, sent,
          connected, socket, changes, commands, faults, kept, slipped, cutShort, unwritten>>

File == [version: Versions, lastWrite: Versions]
Entry == [hash: Versions, filesize: 1..2, lastwrite: Versions, protected: BOOLEAN]
Mod == [hash: Versions, protected: BOOLEAN]
Subject == [mod: Mods, hash: Versions] \cup [mod: Mods, protected: BOOLEAN] \cup {None}
Refreshing == writer \in {"load", "scan", "hashed", "truncated"}

TypeOK ==
    /\ DOMAIN files \subseteq Mods /\ \A m \in DOMAIN files : files[m] \in File
    /\ DOMAIN modsJson \subseteq Mods /\ \A m \in DOMAIN modsJson : modsJson[m] \in Entry
    /\ DOMAIN modsDB \subseteq Mods /\ \A m \in DOMAIN modsDB : modsDB[m] \in Entry
    /\ DOMAIN mMods \subseteq Mods /\ \A m \in DOMAIN mMods : mMods[m] \in Mod
    /\ writer \in {"load", "scan", "hashed", "truncated", "ready", "inMemory", "parsed"}
    /\ left \subseteq Mods /\ subject \in Subject
    /\ up \in BOOLEAN /\ cutShort \in BOOLEAN /\ malformed \in BOOLEAN
    /\ session \in {"away", "sync", "allowed", "granted", "measured", "sending"}
    /\ wanted \in Mods \cup {None}
    /\ size \in 0..2 /\ sent \in 0..2
    /\ connected \in BOOLEAN /\ socket \in {"own", "closed", "other", None}
    /\ changes \in Nat /\ faults \in Nat /\ changes + faults <= MaxMishaps
    /\ commands \in 0..MaxCommands
    /\ kept \subseteq Mods /\ slipped \subseteq Mods /\ unwritten \subseteq Mods

Nothing == [m \in {} |-> None]
MishapLeft == changes + faults < MaxMishaps
Put(f, m, value) == [n \in DOMAIN f \cup {m} |-> IF n = m THEN value ELSE f[n]]

Init ==
    /\ files = [m \in Mods |-> [version |-> 0, lastWrite |-> 0]]
    /\ modsJson = Nothing /\ malformed = FALSE /\ modsDB = Nothing /\ mMods = Nothing
    /\ writer = "load" /\ left = {} /\ subject = None
    /\ up = FALSE
    /\ session = "away" /\ connected = FALSE
    /\ wanted = None /\ size = 0 /\ sent = 0 /\ socket = None
    /\ changes = 0 /\ commands = 0 /\ faults = 0
    /\ kept = {} /\ slipped = {} /\ cutShort = FALSE /\ unwritten = {}
-----------------------------------------------------------------------------
(* RefreshFiles. *)

\* Console command "reloadmods".
ReloadMods ==
    /\ writer = "ready" /\ commands < MaxCommands
    /\ commands' = commands + 1
    /\ mMods' = Nothing /\ unwritten' = {}
    /\ writer' = "load"
    /\ UNCHANGED <<fileVars, sessionVars, json, modsDB, left, subject, up, faults, kept, slipped, cutShort>>

LoadDB ==
    /\ writer = "load"
    /\ modsDB' = modsJson
    /\ left' = DOMAIN files
    /\ writer' = "scan"
    /\ UNCHANGED <<fileVars, sessionVars, json, mMods, subject, up, commands, faults, kept, slipped, cutShort, unwritten>>

\* Mutant of Believed: the size is not compared.
Believed_TimeOnly(entry, f) == entry.lastwrite >= f.lastWrite
\* What mods.json knows of a file is believed.
Believed(entry, f) == entry.lastwrite >= f.lastWrite /\ entry.filesize = SizeOf(f.version)

\* Mutant of Listed: a file from the cache enters as one that was hashed.
Listed_Unprotected(m) == [hash |-> modsDB[m].hash, protected |-> FALSE]
Listed(m) == [hash |-> modsDB[m].hash, protected |-> modsDB[m].protected]

LoadFromCache(m) ==
    /\ writer = "scan" /\ m \in left
    /\ m \in DOMAIN files \cap DOMAIN modsDB
    /\ Believed(modsDB[m], files[m])
    /\ mMods' = Put(mMods, m, Listed(m))
    /\ left' = left \ {m}
    /\ UNCHANGED <<fileVars, sessionVars, json, modsDB, writer, subject, up, commands, faults, kept, slipped, cutShort, unwritten>>

Hash(m) ==
    /\ writer = "scan" /\ m \in left
    /\ m \in DOMAIN files
    /\ m \in DOMAIN modsDB => ~Believed(modsDB[m], files[m])
    /\ subject' = [mod |-> m, hash |-> files[m].version]
    /\ writer' = "hashed"
    /\ slipped' = slipped \ {m}
    /\ UNCHANGED <<fileVars, sessionVars, json, modsDB, mMods, left, up, commands, faults, kept, cutShort, unwritten>>

\* Size and time are asked for after the hash; if the file is gone by then the
\* exception is caught and the file left out.
EnterHashed ==
    /\ writer = "hashed"
    /\ LET m == subject.mod IN
       /\ left' = left \ {m}
       /\ IF m \in DOMAIN files
          THEN /\ mMods' = Put(mMods, m, [hash |-> subject.hash, protected |-> FALSE])
               /\ modsDB' = Put(modsDB, m, [hash |-> subject.hash, filesize |-> SizeOf(files[m].version),
                                            lastwrite |-> files[m].lastWrite, protected |-> FALSE])
          ELSE UNCHANGED <<mMods, modsDB>>
    /\ writer' = "scan" /\ subject' = None
    /\ UNCHANGED <<fileVars, sessionVars, json, up, commands, faults, kept, slipped, cutShort, unwritten>>

\* A file that is not in mods.json and vanished before it was hashed.
SkipVanished(m) ==
    /\ writer = "scan" /\ m \in left
    /\ m \notin DOMAIN files \cup DOMAIN modsDB
    /\ left' = left \ {m}
    /\ UNCHANGED <<fileVars, sessionVars, json, modsDB, mMods, writer, subject, up, commands, faults, kept, slipped, cutShort, unwritten>>

\* One that is: asking for its time throws out of RefreshFiles.  The console
\* reports it and goes on, with the list as far as it came; main's catch ends
\* the process (main.cpp:86), see TerminateAtStart.
Throw(m) ==
    /\ writer = "scan" /\ m \in left
    /\ m \in DOMAIN modsDB \ DOMAIN files
    /\ up
    /\ writer' = "ready" /\ left' = {} /\ modsDB' = Nothing /\ cutShort' = TRUE
    /\ UNCHANGED <<fileVars, sessionVars, json, mMods, subject, up, commands, faults, kept, slipped, unwritten>>

\* Entries without "exists" go, then the file is opened, which empties it.
Prune ==
    /\ writer = "scan" /\ left = {}
    /\ modsDB' = [m \in DOMAIN modsDB \cap DOMAIN mMods |-> modsDB[m]]
    /\ modsJson' = Nothing /\ malformed' = TRUE
    /\ writer' = "truncated"
    /\ UNCHANGED <<fileVars, sessionVars, mMods, left, subject, up, commands, faults, kept, slipped, cutShort, unwritten>>

Update ==
    /\ writer = "truncated"
    /\ modsJson' = modsDB /\ malformed' = FALSE /\ modsDB' = Nothing
    /\ writer' = "ready" /\ up' = TRUE /\ cutShort' = FALSE
    /\ UNCHANGED <<fileVars, sessionVars, mMods, left, subject, commands, faults, kept, slipped, unwritten>>

\* What a parse gets from a file that was written in part: the entries up to
\* some point, the last of which may lack its "protected", the last of its keys.
Torn(db) == UNION {{[m \in part |-> [db[m] EXCEPT !.protected = @ /\ m # last]] : last \in part \cup {None}}
                        : part \in SUBSET DOMAIN db}

\* What a failed or unfinished write leaves of what was to be written: it may
\* lack no more than its end, or not even that, and not have begun.
LeavePart ==
    /\ modsJson' \in Torn(modsDB) \cup {modsJson}
    /\ malformed' \in {TRUE, malformed} \cup (IF modsJson' = modsDB THEN {FALSE} ELSE {})
    /\ malformed' = FALSE => modsJson' \in {modsDB, modsJson}
    /\ kept' = {m \in kept : m \in DOMAIN modsJson' /\ modsJson'[m].protected}

\* The refresh counts as done although its last part failed: the file could not
\* be opened and stays what it was; or, when it was emptied, a name in it is no
\* UTF-8 and "dump" throws, or the disk is full.
RefreshUnwritten ==
    /\ MishapLeft /\ faults' = faults + 1
    /\ \/ /\ writer = "scan" /\ left = {}
          /\ UNCHANGED <<json, kept>>
       \/ writer = "truncated" /\ LeavePart
    /\ modsDB' = Nothing
    /\ writer' = "ready" /\ up' = TRUE /\ cutShort' = FALSE
    /\ unwritten' = Mods
    /\ UNCHANGED <<fileVars, sessionVars, mMods, left, subject, commands, slipped>>
-----------------------------------------------------------------------------
(* SetProtected, for the console command "protectmod". *)

ProtectMod(m, protect) ==
    /\ writer = "ready" /\ commands < MaxCommands
    /\ m \in DOMAIN mMods
    /\ commands' = commands + 1
    /\ mMods' = [mMods EXCEPT ![m].protected = protect]
    /\ subject' = [mod |-> m, protected |-> protect]
    /\ writer' = "inMemory"
    /\ kept' = IF protect THEN kept ELSE kept \ {m}
    /\ UNCHANGED <<fileVars, sessionVars, json, modsDB, left, up, faults, slipped, cutShort, unwritten>>

\* Mutant of Protected: only the list in memory changes.
Protected_NotInFile(db) == db
Protected(db) == [m \in DOMAIN db |-> IF m = subject.mod THEN [db[m] EXCEPT !.protected = subject.protected] ELSE db[m]]

ParseDB ==
    /\ writer = "inMemory" /\ ~malformed
    /\ modsDB' = Protected(modsJson)
    /\ writer' = "parsed"
    /\ UNCHANGED <<fileVars, sessionVars, json, mMods, left, subject, up, commands, faults, kept, slipped, cutShort, unwritten>>

\* The protection is to last if mods.json knows the file as it is.
Rewrite ==
    /\ writer = "parsed"
    /\ modsJson' = modsDB /\ malformed' = FALSE /\ modsDB' = Nothing
    /\ kept' = kept \cup {m \in {subject.mod} \cap DOMAIN modsDB \cap DOMAIN files :
                             subject.protected /\ Believed(modsDB[m], files[m])}
    /\ writer' = "ready" /\ subject' = None
    /\ UNCHANGED <<fileVars, sessionVars, mMods, left, up, commands, faults, slipped, cutShort, unwritten>>

\* A failure is only logged, and the list stays changed: the file cannot be
\* opened or parsed, or is written in part over what it was.
ProtectUnwritten ==
    /\ \/ MishapLeft /\ faults' = faults + 1
       \/ malformed /\ writer = "inMemory" /\ UNCHANGED faults
    /\ \/ /\ writer = "inMemory"
          /\ unwritten' = unwritten \cup {subject.mod}
          /\ UNCHANGED <<json, kept>>
       \/ writer = "parsed" /\ LeavePart /\ unwritten' = Mods
    /\ modsDB' = Nothing
    /\ writer' = "ready" /\ subject' = None
    /\ UNCHANGED <<fileVars, sessionVars, mMods, left, up, commands, slipped, cutShort>>
-----------------------------------------------------------------------------
(* Files change, and the process crashes. *)

\* A file is written now, or replaced by one that brings its own time along.
Change(m) ==
    /\ MishapLeft
    /\ changes' = changes + 1
    /\ \E time \in 0..changes' :
          LET f == [version |-> changes', lastWrite |-> time]
              knownTo(db) == m \in DOMAIN db /\ db[m].lastwrite >= time /\ db[m].filesize = SizeOf(changes') IN
          /\ files' = Put(files, m, f)
          /\ slipped' = IF \/ writer = "hashed" /\ subject.mod = m
                           \/ knownTo(modsDB) \/ knownTo(modsJson)
                        THEN slipped \cup {m} ELSE slipped
    /\ kept' = kept \ {m}
    /\ UNCHANGED <<writerVars, sessionVars, faults>>

Remove(m) ==
    /\ MishapLeft
    /\ m \in DOMAIN files
    /\ changes' = changes + 1
    /\ files' = [n \in DOMAIN files \ {m} |-> files[n]]
    /\ kept' = kept \ {m}
    /\ UNCHANGED <<writerVars, sessionVars, faults, slipped>>

Restart ==
    /\ mMods' = Nothing /\ modsDB' = Nothing
    /\ writer' = "load" /\ left' = {} /\ subject' = None
    /\ up' = FALSE /\ cutShort' = FALSE /\ unwritten' = {}
    /\ session' = "away" /\ connected' = FALSE
    /\ wanted' = None /\ size' = 0 /\ sent' = 0 /\ socket' = None
    /\ UNCHANGED <<fileVars, commands, slipped>>

Crash ==
    /\ MishapLeft
    /\ faults' = faults + 1
    /\ Restart
    /\ IF writer \in {"truncated", "parsed"} THEN LeavePart ELSE UNCHANGED <<json, kept>>

TerminateAtStart ==
    /\ writer = "scan" /\ ~up
    /\ left \cap (DOMAIN modsDB \ DOMAIN files) # {}
    /\ Restart
    /\ UNCHANGED <<json, faults, kept>>
-----------------------------------------------------------------------------
(* A session: SyncResources, SendFile, SendFileToClient. *)

Connect ==
    /\ up
    /\ session = "away" /\ ~connected
    /\ session' = "sync" /\ connected' = TRUE
    /\ UNCHANGED <<fileVars, writerVars, wanted, size, sent, socket, faults, kept, slipped>>

\* The client says "Done" and stays, or its socket fails.
LeaveSync ==
    /\ session = "sync"
    /\ session' = "away"
    /\ connected' \in {connected, FALSE}
    /\ UNCHANGED <<fileVars, writerVars, wanted, size, sent, socket, faults, kept, slipped>>

IsProtected(m) == m \in DOMAIN mMods /\ mMods[m].protected

SendFile(m) ==
    /\ session = "sync" /\ connected
    /\ IF IsProtected(m)
       THEN /\ session' = "away" /\ connected' = FALSE
            /\ UNCHANGED wanted
       ELSE /\ session' = "allowed" /\ wanted' = m
            /\ UNCHANGED connected
    /\ UNCHANGED <<fileVars, writerVars, size, sent, socket, faults, kept, slipped>>

\* SendFile's locals go when it returns or throws.
Return(to) ==
    /\ session' = to
    /\ wanted' = None /\ size' = 0 /\ sent' = 0 /\ socket' = None

\* "CO" or "AG".
FindFile ==
    /\ session = "allowed"
    /\ \/ /\ wanted \in DOMAIN files
          /\ session' = "granted"
          /\ UNCHANGED <<wanted, size, sent, socket>>
       \/ /\ wanted \notin DOMAIN files
          /\ Return("sync")
    /\ UNCHANGED <<fileVars, writerVars, connected, faults, kept, slipped>>

\* file_size throws for a file that vanished: the session ends, its client stays in the list.
Measure ==
    /\ session = "granted"
    /\ \/ /\ wanted \in DOMAIN files
          /\ session' = "measured" /\ size' = SizeOf(files[wanted].version)
          /\ UNCHANGED <<wanted, sent, socket>>
       \/ /\ wanted \notin DOMAIN files
          /\ Return("away")
    /\ UNCHANGED <<fileVars, writerVars, connected, faults, kept, slipped>>

OpenFile ==
    /\ session = "measured"
    /\ \/ /\ wanted \in DOMAIN files
          /\ session' = "sending" /\ socket' = IF connected THEN "own" ELSE "closed"
          /\ UNCHANGED <<wanted, size, sent>>
       \/ /\ wanted \notin DOMAIN files
          /\ Return("sync")
    /\ UNCHANGED <<fileVars, writerVars, connected, faults, kept, slipped>>

Sending == session = "sending" /\ sent < size

\* The number stays what it was, whoever's socket has it by now.
SendNow ==
    /\ Sending /\ socket # "closed"
    /\ sent' = sent + 1
    /\ UNCHANGED <<fileVars, writerVars, session, wanted, size, connected, socket, faults, kept, slipped>>

\* sendfile returns 0: the file is shorter than it was measured.
Shortened == wanted \in DOMAIN files /\ SizeOf(files[wanted].version) <= sent /\ socket # "closed"

\* Mutant of Fails: the error of a closed socket is tried again, like EAGAIN.
Fails_NotIfClosed == socket # "closed"
\* It returns an error: the socket is closed, the peer gone, the system out of something.
Fails == TRUE

GiveUp ==
    /\ Sending
    /\ Shortened \/ Fails
    /\ connected' = FALSE
    /\ Return("away")
    /\ UNCHANGED <<fileVars, writerVars, faults, kept, slipped>>

AllSent ==
    /\ session = "sending" /\ sent = size
    /\ Return("sync")
    /\ UNCHANGED <<fileVars, writerVars, connected, faults, kept, slipped>>

\* DisconnectClient by another thread: a namesake's login, a plugin, the console.
Disconnect ==
    /\ connected
    /\ connected' = FALSE
    /\ socket' = IF socket = "own" THEN "closed" ELSE socket
    /\ UNCHANGED <<fileVars, writerVars, session, wanted, size, sent, faults, kept, slipped>>

\* Another client is accepted and gets the number, or goes again.
Reuse ==
    /\ \/ socket = "closed" /\ socket' = "other"
       \/ socket = "other" /\ socket' = "closed"
    /\ UNCHANGED <<fileVars, writerVars, session, wanted, size, sent, connected, faults, kept, slipped>>
-----------------------------------------------------------------------------
Scan == \E m \in Mods : LoadFromCache(m) \/ Hash(m) \/ SkipVanished(m) \/ Throw(m)
RefreshFiles == LoadDB \/ Scan \/ EnterHashed \/ Prune \/ Update \/ RefreshUnwritten
Commands == ReloadMods \/ \E m \in Mods, protect \in BOOLEAN : ProtectMod(m, protect)
SetProtected == ParseDB \/ Rewrite \/ ProtectUnwritten

Download == FindFile \/ Measure \/ OpenFile \/ SendNow \/ GiveUp \/ AllSent

Next ==
    \/ RefreshFiles \/ Commands \/ SetProtected
    \/ \E m \in Mods : Change(m) \/ Remove(m)
    \/ Crash \/ TerminateAtStart
    \/ Connect \/ LeaveSync \/ Download \/ Disconnect \/ Reuse
    \/ \E m \in Mods : SendFile(m)

Spec == Init /\ [][Next]_vars
\* The peer reads what is sent, and a thread that can run does.
FairSpec == Spec /\ WF_vars(RefreshFiles) /\ WF_vars(SetProtected) /\ WF_vars(Download)
-----------------------------------------------------------------------------
(* What every step keeps, and the properties follow from. *)

\* Every mod that a database and the list know is the same in both, but for some.
AgreesBut(db, some) ==
    \A m \in (DOMAIN mMods \cap DOMAIN db) \ some :
       mMods[m] = [hash |-> db[m].hash, protected |-> db[m].protected]

\* The next refresh will find the mod in the database, protected.
Held(db, m) == m \in DOMAIN db /\ db[m].protected /\ Believed(db[m], files[m])

\* What would be believed is true, or slipped.
Believable(db) ==
    \A m \in DOMAIN db \cap DOMAIN files :
       Believed(db[m], files[m]) => db[m].hash = files[m].version \/ m \in slipped

Setting == writer \in {"inMemory", "parsed"}

SubjectIsKnown ==
    /\ writer = "hashed" => subject \in [mod : Mods, hash : Versions]
    /\ Setting =>
         /\ subject \in [mod : Mods, protected : BOOLEAN]
         /\ IsProtected(subject.mod) <=> subject.protected
    /\ writer = "parsed" /\ subject.mod \in DOMAIN modsDB =>
         (modsDB[subject.mod].protected <=> subject.protected)

ListAgrees ==
    /\ writer = "load" => DOMAIN mMods = {}
    /\ writer \in {"scan", "hashed", "truncated"} => AgreesBut(modsDB, {})
    /\ writer = "ready" /\ ~cutShort => AgreesBut(modsJson, unwritten)
    /\ writer = "inMemory" /\ ~cutShort => AgreesBut(Protected(modsJson), unwritten)
    /\ writer = "parsed" /\ ~cutShort => AgreesBut(modsDB, unwritten)

\* A refresh has mods.json's word for the files it has still to look at.
StillAsRead ==
    writer \in {"scan", "hashed"} =>
       \A m \in left : m \in DOMAIN modsJson => m \in DOMAIN modsDB /\ modsDB[m] = modsJson[m]

\* A protection that is to last is in mods.json, or in the copy that is about
\* to be, and in the list once a refresh got to it.
KeptIsHeld ==
    \A m \in kept :
       /\ m \in DOMAIN files
       /\ IF writer = "truncated" THEN DOMAIN modsJson = {} ELSE Held(modsJson, m)
       /\ writer \in {"scan", "hashed", "truncated", "parsed"} => Held(modsDB, m)
       /\ writer \in {"scan", "hashed"} => m \in left \/ IsProtected(m)
       /\ writer = "hashed" => m # subject.mod
       /\ writer = "truncated" => IsProtected(m)
       /\ writer = "ready" \/ Setting => cutShort \/ IsProtected(m)
       /\ Setting /\ m = subject.mod => subject.protected

HashesAreCurrent ==
    /\ Believable(modsDB)
    /\ Believable(modsJson)
    /\ writer = "hashed" /\ subject.mod \in DOMAIN files =>
          subject.hash = files[subject.mod].version \/ subject.mod \in slipped

IndInv == TypeOK /\ SubjectIsKnown /\ ListAgrees /\ StillAsRead /\ KeptIsHeld /\ HashesAreCurrent
-----------------------------------------------------------------------------
(* Properties. *)

\* A mod that the operator protected is not sent: not after reloads, and not
\* after restarts, until its file changes or the operator takes the protection
\* back.  It may be while a reload is under way or one was ended by an
\* exception, for RefreshFiles empties the list that SendFile reads before it
\* has another (TResourceManager.cpp:62, TNetwork.cpp:1088), and after a reload
\* or restart if the protection did not get into mods.json, or a write of the
\* file that failed or was crashed took it out (lines 202, 237).
ProtectedIsRefused ==
    [][session = "sync" /\ session' = "allowed" => wanted' \notin kept \/ Refreshing \/ cutShort]_vars

\* The hash that a refresh enters for a mod, from mods.json or computed, is
\* that of the file at the time, unless the last change of the file came while
\* it was hashed (TResourceManager.cpp:131, 175) or brought the size and no
\* later time than mods.json has (line 95).
EnteredHashIsCurrent ==
    [][\A m \in Mods :
          Refreshing /\ m \notin DOMAIN mMods /\ m \in DOMAIN mMods' =>
             mMods'[m].hash = files[m].version \/ m \in slipped]_vars

\* The list and mods.json agree on every mod that both know, whenever no
\* command is under way: what a restart finds is what clients were told.  A
\* write that failed is only logged (TResourceManager.cpp:202, 237), and the
\* mods it was for may differ until the next reload.
FileAgreesWithList ==
    writer = "ready" /\ ~cutShort =>
       \A m \in (DOMAIN mMods \cap DOMAIN modsJson) \ unwritten :
          mMods[m] = [hash |-> modsJson[m].hash, protected |-> modsJson[m].protected]

\* A download ends, whatever becomes of its socket and its file: SendFileToClient
\* never asks whether the client is disconnected and relies on the system's
\* error, or on the reader of another socket that has got the number since
\* (TNetwork.cpp:1133, Client.cpp:93).
DownloadsEnd == session = "allowed" ~> session \in {"sync", "away"}
=============================================================================
