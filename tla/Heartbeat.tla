------------------------------- MODULE Heartbeat -------------------------------
(***************************************************************************)
(* THeartbeatThread: the loop that tells the backend about the server, 30  *)
(* seconds after it last did or, when something changed, 5.  The backend   *)
(* has several addresses, which are tried in turn; a request or its answer *)
(* may be lost.  The settings are those of Settings, which change below it.*)
(***************************************************************************)
EXTENDS Settings

CONSTANTS
    Urls,           \* number of the backend's addresses
    Threshold       \* for an unchanged body, in steps of the 5 seconds for a changed one

ASSUME HeartbeatAssumption ==
    /\ Urls \in Nat \ {0}
    /\ Threshold \in Nat \ {0, 1}

VARIABLES
    loop,       \* what the heartbeat's thread is doing
    LastBody,   \* the body it posted last
    passed,     \* time since then, or since its start
    url,        \* the address it is at
    Status,     \* of the answer
    isAuth,
    subsystem,  \* the subsystem's status
    known       \* the body that the backend got last from this process

heartbeatVars == <<loop, LastBody, passed, url, Status, isAuth, subsystem, known>>
vars == <<settingsVars, heartbeatVars>>

Body == [name |-> settings["Name"], port |-> settings["Port"], private |-> settings["Private"]]
Bodies == [name : Values, port : Values, private : Values]
\* Status "2000" or "200"; any other, or members are missing.
Answers == {"accepted", "refused"}
IsPrivate == settings["Private"] # 0

TypeOK ==
    /\ SettingsTypeOK
    /\ loop \in {"wait", "post", "answered", "failed"}
    /\ LastBody \in Bodies \cup {None} /\ known \in Bodies \cup {None}
    /\ passed \in 0..Threshold /\ url \in 1..Urls
    /\ Status \in Answers \cup {None}
    /\ isAuth \in BOOLEAN /\ subsystem \in {"Starting", "Good"}

Init ==
    /\ SettingsInit
    /\ loop = "wait" /\ LastBody = None /\ passed = 0 /\ url = 1 /\ Status = None
    /\ isAuth = FALSE /\ subsystem = "Starting"
    /\ known = None

Running == phase = "up"
-----------------------------------------------------------------------------
Tick ==
    /\ Running
    /\ passed < Threshold
    /\ passed' = passed + 1
    /\ UNCHANGED <<settingsVars, loop, LastBody, url, Status, isAuth, subsystem, known>>

\* Mutant of MayPost: a body is posted when it changed, and not again.
MayPost_OnChange == LastBody # Body /\ passed >= 1
MayPost == passed >= IF LastBody = Body THEN Threshold ELSE 1

\* The body counts as the last before it is posted.
Generate ==
    /\ Running
    /\ loop = "wait" /\ MayPost
    /\ LastBody' = Body /\ passed' = 0
    /\ url' = 1 /\ Status' = None
    /\ loop' = "post"
    /\ UNCHANGED <<settingsVars, isAuth, subsystem, known>>

NextUrl ==
    IF url < Urls THEN url' = url + 1 /\ UNCHANGED loop
                  ELSE loop' = "failed" /\ UNCHANGED url

\* The backend gets the body; its answer may be lost, or be no JSON object with code 200.
Reaches ==
    /\ Running /\ loop = "post"
    /\ known' = LastBody
    /\ \/ Status' \in Answers /\ loop' = "answered" /\ UNCHANGED url
       \/ NextUrl /\ UNCHANGED Status
    /\ UNCHANGED <<settingsVars, LastBody, passed, isAuth, subsystem>>

Lost ==
    /\ Running /\ loop = "post"
    /\ NextUrl
    /\ UNCHANGED <<settingsVars, LastBody, passed, Status, isAuth, subsystem, known>>

Judge ==
    /\ Running /\ loop \in {"answered", "failed"}
    /\ isAuth' = (isAuth \/ (~IsPrivate /\ loop = "answered" /\ Status = "accepted"))
    /\ subsystem' = IF isAuth' \/ IsPrivate THEN "Good" ELSE subsystem
    /\ loop' = "wait" /\ url' = 1 /\ Status' = None
    /\ UNCHANGED <<settingsVars, LastBody, passed, known>>
-----------------------------------------------------------------------------
\* The loop's variables live as long as the process.
StopAll ==
    /\ Stop
    /\ loop' = "wait" /\ LastBody' = None /\ passed' = 0 /\ url' = 1 /\ Status' = None
    /\ isAuth' = FALSE /\ subsystem' = "Starting" /\ known' = None

Next ==
    \/ SettingsNext /\ UNCHANGED heartbeatVars
    \/ StopAll
    \/ Tick \/ Generate \/ Reaches \/ Lost \/ Judge

Spec == Init /\ [][Next]_vars
\* Time passes, the thread runs, and not every request to the backend is lost.
FairSpec ==
    /\ Spec
    /\ WF_vars(Tick) /\ WF_vars(Generate) /\ WF_vars(Judge)
    /\ WF_vars(Reaches \/ Lost) /\ SF_vars(Reaches)
-----------------------------------------------------------------------------
(* Properties. *)

\* The heartbeat names the port that the network has bound, although it reads
\* the setting later, over and over, and starts before the network does
\* (main.cpp:155, 188, THeartbeatThread.cpp:141, Settings.cpp:52) - but for a
\* setting from the file or the environment that no port can be: that is cut to
\* 16 bits for the network (TNetwork.cpp:147, 246) and not for the heartbeat.
AdvertisesBoundPort == bound # None /\ LastBody # None => LastBody.port = bound \/ LastBody.port \notin Ports

\* Invariant: both ports come from the setting, which nobody changes while the server runs.
PortsAreTheSetting ==
    /\ phase # "up" => bound = None /\ LastBody = None
    /\ bound # None => bound = Narrow(settings["Port"])
    /\ LastBody # None => LastBody.port = settings["Port"]

IndInv == TypeOK /\ SettingsInv /\ PortsAreTheSetting

\* If the server is left running and its settings alone, the backend comes to
\* know them and does not lose them again, although a failed heartbeat counts
\* as done and every answer, or late request, may be lost
\* (THeartbeatThread.cpp:56, 62).
BackendCatchesUp == <>[]Running => <>[](known = Body)
=============================================================================
