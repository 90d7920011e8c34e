---------------------------- MODULE SkillDispatch ----------------------------
(***************************************************************************)
(* One skill: the gateway's catalog, which several admins change at once   *)
(* statement by statement; the fleet install, which streams the artifact   *)
(* of a version to one device after the other; and the skill managers of   *)
(* the devices.                                                            *)
(*                                                                         *)
(* An artifact is N chunks of an upload, and its SHA-256 is right exactly  *)
(* when these are there in their order; one that was removed and is made   *)
(* again is the same file. A device's report is handled in the step that   *)
(* sends it: it changes nothing. A frame that is sent twice on one         *)
(* connection is left to Tunnel.                                           *)
(***************************************************************************)
EXTENDS Integers, Sequences, FiniteSets, FiniteSetsExt, Functions

CONSTANTS
    Devices,   \* numbered in the order in which they are listed
    Versions,
    Uploads,   \* contents of artifacts
    Users,
    Calls,     \* HTTP requests that may run at once
    None,
    N,         \* chunks of an artifact; fewer than the 8 in flight
    Budgets    \* bounds: versions published, installs, actions sent to the
               \* fleet, rows edited, connections lost, artifacts and frames that
               \* cannot be written, read or queued; and devices enrolled

ASSUME SkillDispatchConstantsOK ==
    /\ Devices \subseteq Nat /\ Calls \subseteq Nat /\ N \in Nat \ {0}
    /\ None \notin Devices \cup Versions \cup Uploads
    /\ Budgets \subseteq
         [{"publishes", "installs", "actions", "edits", "drops", "errors", "devices"} -> Nat]

VARIABLES
    skill,    \* the row of skills: whether it exists, its visibility, latest_version
    granted,  \* users with a row in skill_grants
    sha,      \* the upload whose hash each row of skill_versions holds
    file,     \* the artifact of each version, and what a reader of it sees
    row,      \* device_skills
    call,     \* the requests under way
    link, down,
    buf,      \* SkillManager._dispatch_bufs
    cache,    \* device_skills of the device, with the artifact
    cut,      \* history: devices with a lost connection, or a dispatch that met an error
    left      \* events still allowed

catalog == <<skill, granted, sha, file>>
tunnel  == <<link, down, cut>>
device  == <<buf, cache>>
vars    == <<catalog, row, call, tunnel, device, left>>

-----------------------------------------------------------------------------
Chunk    == [i : 1 .. N, of : Uploads \cup {None}]   \* of None: a hole in the file
Skill    == [there : BOOLEAN, visibility : {"public", "restricted"}, latest : Versions \cup {None}]
Frame    == [type : {"begin"}, ver : Versions, sha : Uploads] \cup [type : {"chunk"}, c : Chunk]
            \cup [type : {"end", "disable", "enable", "delete", "retry"}]
Call     == [pc : {"idle", "copy", "insert", "latest", "write", "version", "row", "open", "stream", "check"},
             ver : Versions \cup {None}, of : Uploads \cup {None}, read : Skill, todo : SUBSET Devices,
             i : Nat, pend : SUBSET (Devices \X Chunk), failed : BOOLEAN]
Buffer   == [ver : Versions, sha : Uploads, got : Seq(Chunk)]
Cached   == [ver : Versions, data : Seq(Chunk), st : {"cached", "installed", "disabled", "deleting", "error"}]
States   == {"installing", "installed", "disabled", "updating", "deleting", "error", "pending"}

Published == {v \in Versions : sha[v] # None}
Whole(data, of) == data = [i \in 1 .. N |-> [i |-> i, of |-> of]]

\* IsSkillVisibleToUser
Visible(u) == skill.there /\ (skill.visibility = "public" \/ u \in granted)

\* IsSkillInstalledOnDevice
Installed(d) == row[d] # None /\ row[d].st = "installed"

\* the foreign keys to skills; the rows of skill_versions are deleted with the skill
Referenced == granted # {} \/ \E d \in Devices : row[d] # None

AtRest     == [pc |-> "idle", ver |-> None, of |-> None, todo |-> {}, i |-> 0, pend |-> {}, failed |-> FALSE,
               read |-> [there |-> FALSE, visibility |-> "restricted", latest |-> None]]

\* the goroutines of a dispatch outlive it when the artifact cannot be read
Return(c)  == call' = [call EXCEPT ![c] = [AtRest EXCEPT !.pend = call[c].pend]]
Goto(c, l) == call' = [call EXCEPT ![c].pc = l]
Spend(what)  == left[what] > 0 /\ left' = [left EXCEPT ![what] = @ - 1]

\* the requests that are under way have the lowest numbers
Begin(c, what, r) == /\ call[c] = AtRest /\ \A o \in Calls : o < c => call[o] # AtRest
                     /\ Spend(what) /\ call' = [call EXCEPT ![c] = r]

Enqueue(d, f) == down' = [down EXCEPT ![d] = Append(@, f)]

\* SendFrame: sent; or refused, offline or by a full queue, although the frame is
\* tracked by then and may be sent again
Sent(d, f)    == link[d] /\ Enqueue(d, f) /\ UNCHANGED <<cut, left>>
Refused(d, f) == \/ ~link[d] /\ UNCHANGED <<down, cut, left>>
                 \/ /\ link[d] /\ Spend("errors") /\ cut' = cut \cup {d}
                    /\ UNCHANGED down \/ Enqueue(d, f)

-----------------------------------------------------------------------------
(* The catalog. *)

\* MkdirAll and os.Create, which empties an artifact that is there
Publish(c, v, of) ==
    /\ Begin(c, "publishes", [AtRest EXCEPT !.pc = "copy", !.ver = v, !.of = of])
    /\ file' = [file EXCEPT ![v] = [there |-> TRUE, data |-> <<>>]]
    /\ UNCHANGED <<skill, granted, sha, row, tunnel, device>>

\* a chunk is written at its place, whatever the file is by then
Written(data, k) ==
    [i \in 1 .. Max({k.i, Len(data)}) |->
       IF i = k.i THEN k ELSE IF i <= Len(data) THEN data[i] ELSE [i |-> i, of |-> None]]

\* io.Copy, which may fail
Copy(c) ==
    /\ call[c].pc = "copy"
    /\ LET v == call[c].ver
           k == [i |-> call[c].i + 1, of |-> call[c].of] IN
       \/ /\ file' = [file EXCEPT ![v].data = Written(@, k)]
          /\ call' = [call EXCEPT ![c].i = k.i, ![c].pc = IF k.i = N THEN "insert" ELSE "copy"]
          /\ UNCHANGED left
       \/ Spend("errors") /\ file' = [file EXCEPT ![v].there = FALSE] /\ Return(c)
    /\ UNCHANGED <<skill, granted, sha, row, tunnel, device>>

\* UNIQUE (skill_id, version) and the foreign key; the artifact is removed when
\* the row is refused, although it may be that of the row that is there
CreateVersion(c) ==
    /\ call[c].pc = "insert"
    /\ LET v == call[c].ver IN
       IF skill.there /\ v \notin Published
       THEN sha' = [sha EXCEPT ![v] = call[c].of] /\ Goto(c, "latest") /\ UNCHANGED file
       ELSE file' = [file EXCEPT ![v].there = FALSE] /\ Return(c) /\ UNCHANGED sha
    /\ UNCHANGED <<skill, granted, row, tunnel, device, left>>

SetLatestVersion(c) ==
    /\ call[c].pc = "latest" /\ Return(c)
    /\ skill' = IF skill.there THEN [skill EXCEPT !.latest = call[c].ver] ELSE skill
    /\ UNCHANGED <<granted, sha, file, row, tunnel, device, left>>

\* handleUpdateSkill reads the row and writes all of it
ReadSkill(c, visibility) ==
    /\ skill.there
    /\ Begin(c, "edits", [AtRest EXCEPT !.pc = "write", !.read = [skill EXCEPT !.visibility = visibility]])
    /\ UNCHANGED <<catalog, row, tunnel, device>>

UpdateSkill(c) ==
    /\ call[c].pc = "write" /\ Return(c)
    /\ skill' = IF skill.there THEN call[c].read ELSE skill
    /\ UNCHANGED <<granted, sha, file, row, tunnel, device, left>>

UpdateVisibility(visibility) ==
    /\ skill.there /\ skill.visibility # visibility /\ Spend("edits")
    /\ skill' = [skill EXCEPT !.visibility = visibility]
    /\ UNCHANGED <<granted, sha, file, row, call, tunnel, device>>

GrantVisibility(u) ==
    /\ skill.there /\ u \notin granted /\ Spend("edits") /\ granted' = granted \cup {u}
    /\ UNCHANGED <<skill, sha, file, row, call, tunnel, device>>

RevokeVisibility(u) ==
    /\ u \in granted /\ granted' = granted \ {u}
    /\ UNCHANGED <<skill, sha, file, row, call, tunnel, device, left>>

\* the artifacts stay on the disk
DeleteSkill ==
    /\ skill.there /\ ~Referenced /\ Spend("edits")
    /\ skill' = [skill EXCEPT !.there = FALSE] /\ sha' = [v \in Versions |-> None]
    /\ UNCHANGED <<granted, file, row, call, tunnel, device>>

\* handleEnableAgentSkill: the skill is visible, and then it is to be installed on
\* the agent's device, which no row says: UpdateDeviceSkillState
EnableSkill(c, u, d) ==
    /\ Visible(u) /\ Begin(c, "actions", [AtRest EXCEPT !.pc = "check", !.todo = {d}])
    /\ UNCHANGED <<catalog, row, tunnel, device>>

EnableRefused(c) ==
    /\ call[c].pc = "check" /\ \A d \in call[c].todo : ~Installed(d)
    /\ Return(c)
    /\ UNCHANGED <<catalog, row, tunnel, device, left>>

-----------------------------------------------------------------------------
(* Installing a version on the fleet, one device after the other. *)

Target(c) == Min(call[c].todo)

\* an error with one device: the next one
Skip(c) == LET rest == call[c].todo \ {Target(c)} IN
             IF rest = {} THEN Return(c)
             ELSE call' = [call EXCEPT ![c] = [AtRest EXCEPT !.pc = "version", !.ver = call[c].ver,
                                                                 !.todo = rest, !.pend = call[c].pend]]

\* the devices that are enrolled
Listed == {d \in Devices : d <= left["devices"]}

\* GetVersionByTag; with no device there is nothing to do
Install(c, v) ==
    /\ v \in Published /\ Listed # {}
    /\ Begin(c, "installs", [AtRest EXCEPT !.pc = "version", !.ver = v, !.todo = Listed])
    /\ UNCHANGED <<catalog, row, tunnel, device>>

GetVersion(c) ==
    /\ call[c].pc = "version"
    /\ IF call[c].ver \in Published
       THEN call' = [call EXCEPT ![c].pc = "row", ![c].of = sha[call[c].ver]] ELSE Skip(c)
    /\ UNCHANGED <<catalog, row, tunnel, device, left>>

\* variant: the row is set without its foreign key
SetAnyDeviceSkill(c) ==
    /\ call[c].pc = "row" /\ Goto(c, "open")
    /\ row' = [row EXCEPT ![Target(c)] = [ver |-> call[c].ver, st |-> "installing"]]
    /\ UNCHANGED <<catalog, tunnel, device, left>>

SetDeviceSkill(c) ==
    /\ call[c].pc = "row"
    /\ IF skill.there
       THEN /\ row' = [row EXCEPT ![Target(c)] = [ver |-> call[c].ver, st |-> "installing"]]
            /\ Goto(c, "open")
       ELSE Skip(c) /\ UNCHANGED row
    /\ UNCHANGED <<catalog, tunnel, device, left>>

\* OpenArtifact and SKILL_DISPATCH_BEGIN
Open(c) ==
    /\ call[c].pc = "open"
    /\ LET d     == Target(c)
           begin == [type |-> "begin", ver |-> call[c].ver, sha |-> call[c].of] IN
       IF file[call[c].ver].there
       THEN (Sent(d, begin) /\ Goto(c, "stream")) \/ (Refused(d, begin) /\ Skip(c))
       ELSE Skip(c) /\ UNCHANGED <<down, cut, left>>
    /\ UNCHANGED <<catalog, row, link, device>>

Data(c) == file[call[c].ver].data
More(c) == call[c].i < Len(Data(c))

ReadChunk(c) ==
    /\ call[c].pc = "stream" /\ More(c)
    /\ call' = [call EXCEPT ![c].i = @ + 1,
                           ![c].pend = @ \cup {<<Target(c), Data(c)[call[c].i + 1]>>}]
    /\ UNCHANGED <<catalog, row, tunnel, device, left>>

\* the function returns, without the END, before its goroutines have ended
ReadError(c) ==
    /\ call[c].pc = "stream" /\ Spend("errors") /\ cut' = cut \cup {Target(c)} /\ Skip(c)
    /\ UNCHANGED <<catalog, row, link, down, device>>

\* a goroutine of its own
SendChunk(c, d, k) ==
    /\ <<d, k>> \in call[c].pend
    /\ LET f     == [type |-> "chunk", c |-> k]
           mine  == call[c].pc = "stream" /\ d = Target(c)
           ended == [call EXCEPT ![c].pend = @ \ {<<d, k>>}] IN
       \/ Sent(d, f) /\ call' = ended
       \/ Refused(d, f) /\ call' = [ended EXCEPT ![c].failed = @ \/ mine]
    /\ UNCHANGED <<catalog, row, link, device>>

\* wg.Wait
AllSent(c) == call[c].pc = "stream" /\ ~More(c) /\ \A k \in Chunk : <<Target(c), k>> \notin call[c].pend

\* variant: the END is left out when the artifact was shorter than its size
SendEndOfWhole(c) ==
    /\ AllSent(c) /\ Skip(c)
    /\ LET end == [type |-> "end"] IN
       IF call[c].failed \/ call[c].i < N THEN UNCHANGED <<down, cut, left>>
       ELSE Sent(Target(c), end) \/ Refused(Target(c), end)
    /\ UNCHANGED <<catalog, row, link, device>>

\* no END when a chunk was refused
SendEnd(c) ==
    /\ AllSent(c) /\ Skip(c)
    /\ LET end == [type |-> "end"] IN
       IF call[c].failed THEN UNCHANGED <<down, cut, left>>
       ELSE Sent(Target(c), end) \/ Refused(Target(c), end)
    /\ UNCHANGED <<catalog, row, link, device>>

\* SKILL_ACTION to every device; a frame that is refused is not sent again
FleetAction(action) ==
    /\ Spend("actions")
    /\ \E told \in SUBSET {d \in Devices : link[d]} :
         down' = [d \in Devices |-> IF d \in told THEN Append(down[d], [type |-> action]) ELSE down[d]]
    /\ UNCHANGED <<catalog, row, call, link, cut, device>>

DisableFleet == FleetAction("disable")
DeleteFleet  == FleetAction("delete")
EnableFleet  == FleetAction("enable")

\* the device is online
RetryFailedAgents(d) == link[d] /\ Enqueue(d, [type |-> "retry"])

RetryFleet(d) ==
    /\ Spend("actions") /\ RetryFailedAgents(d)
    /\ UNCHANGED <<catalog, row, call, link, cut, device>>

\* the gateway sends what was not acknowledged again, in the order of a Go map
Connect(d) ==
    /\ ~link[d] /\ link' = [link EXCEPT ![d] = TRUE]
    /\ \E p \in Bijection(DOMAIN down[d], DOMAIN down[d]) :
         down' = [down EXCEPT ![d] = [i \in DOMAIN @ |-> @[p[i]]]]
    /\ UNCHANGED <<catalog, row, call, cut, device, left>>

\* the frames that the lost connection was given may be lost with it
Drop(d) ==
    /\ link[d] /\ Spend("drops") /\ link' = [link EXCEPT ![d] = FALSE] /\ cut' = cut \cup {d}
    /\ \E k \in 0 .. Len(down[d]) : down' = [down EXCEPT ![d] = SubSeq(@, k + 1, Len(@))]
    /\ UNCHANGED <<catalog, row, call, device>>

-----------------------------------------------------------------------------
(* The device, whose handlers run one after the other. *)

\* SKILL_STATE lists the skills of the device and has no scope
UpdateDeviceSkillState(d, scope, st) ==
    row' = IF scope = "device" /\ row[d] # None THEN [row EXCEPT ![d].st = st] ELSE row

\* variant: the chunks are counted
HandleEndCounted(d) ==
    /\ buf' = [buf EXCEPT ![d] = None]
    /\ cache' = IF buf[d] # None /\ Len(buf[d].got) = N
                THEN [cache EXCEPT ![d] = [ver |-> buf[d].ver, data |-> buf[d].got, st |-> "cached"]] ELSE cache

\* handle_dispatch_end
HandleEnd(d) ==
    /\ buf' = [buf EXCEPT ![d] = None]
    /\ cache' = IF buf[d] # None /\ Whole(buf[d].got, buf[d].sha)
                THEN [cache EXCEPT ![d] = [ver |-> buf[d].ver, data |-> buf[d].got, st |-> "cached"]] ELSE cache

\* handle_skill_action and handle_skill_retry; an agent may fail
Apply(d, action, st) ==
    /\ cache' = IF cache[d] = None THEN cache
                ELSE IF action = "delete" /\ st = "deleted" THEN [cache EXCEPT ![d] = None]
                ELSE [cache EXCEPT ![d].st = st]
    /\ UpdateDeviceSkillState(d, "", st)

Outcomes(d, action) ==
    CASE action = "disable" -> {"disabled", "error"}
      [] action = "delete"  -> {"deleted", "deleting"}
      [] action = "enable"  -> {cache[d].st}
      [] action = "retry"   -> {"installed", cache[d].st}

\* a chunk is appended to whatever was begun last
DeviceReads(d) ==
    /\ link[d] /\ down[d] # <<>> /\ down' = [down EXCEPT ![d] = Tail(@)]
    /\ LET f == Head(down[d]) IN
       \/ /\ f.type = "begin" /\ UNCHANGED <<cache, row>>
          /\ buf' = [buf EXCEPT ![d] = [ver |-> f.ver, sha |-> f.sha, got |-> <<>>]]
       \/ /\ f.type = "chunk" /\ UNCHANGED <<cache, row>>
          /\ buf' = IF buf[d] = None THEN buf ELSE [buf EXCEPT ![d].got = Append(@, f.c)]
       \/ f.type = "end" /\ HandleEnd(d) /\ UNCHANGED row
       \/ /\ f.type \notin {"begin", "chunk", "end"} /\ UNCHANGED buf
          /\ IF cache[d] = None THEN UNCHANGED <<cache, row>>
             ELSE \E st \in Outcomes(d, f.type) : Apply(d, f.type, st)
    /\ UNCHANGED <<catalog, call, link, cut, left>>

-----------------------------------------------------------------------------
Init ==
    /\ skill = [there |-> TRUE, visibility |-> "restricted", latest |-> None] /\ granted = {}
    /\ sha = [v \in Versions |-> None] /\ file = [v \in Versions |-> [there |-> FALSE, data |-> <<>>]]
    /\ row = [d \in Devices |-> None] /\ call = [c \in Calls |-> AtRest]
    /\ link = [d \in Devices |-> TRUE] /\ down = [d \in Devices |-> <<>>] /\ cut = {}
    /\ buf = [d \in Devices |-> None] /\ cache = [d \in Devices |-> None]
    /\ left \in Budgets

Step(c) == Copy(c) \/ CreateVersion(c) \/ SetLatestVersion(c) \/ UpdateSkill(c) \/ EnableRefused(c)
           \/ GetVersion(c) \/ SetDeviceSkill(c) \/ Open(c) \/ ReadChunk(c) \/ ReadError(c)
           \/ SendEnd(c) \/ \E p \in call[c].pend : SendChunk(c, p[1], p[2])

Next ==
    \/ \E c \in Calls :
         \/ Step(c)
         \/ \E v \in Versions : Install(c, v) \/ \E of \in Uploads : Publish(c, v, of)
         \/ \E visibility \in {"public", "restricted"} : ReadSkill(c, visibility)
         \/ \E u \in Users, d \in Devices : EnableSkill(c, u, d)
    \/ \E visibility \in {"public", "restricted"} : UpdateVisibility(visibility)
    \/ \E u \in Users : GrantVisibility(u) \/ RevokeVisibility(u)
    \/ DeleteSkill
    \/ DisableFleet \/ DeleteFleet \/ EnableFleet
    \/ \E d \in Devices : RetryFleet(d) \/ Connect(d) \/ Drop(d) \/ DeviceReads(d)

\* a request goes on; a device that is not connected dials again, and one that is reads
Fairness ==
    /\ \A c \in Calls : WF_vars(Step(c))
    /\ \A d \in Devices : WF_vars(Connect(d) \/ DeviceReads(d))

Spec     == Init /\ [][Next]_vars
FairSpec == Spec /\ Fairness

-----------------------------------------------------------------------------
(* Properties. *)

\* Rows, artifacts, calls, frames and the state of the devices have their types.
TypeOK ==
    /\ skill \in Skill /\ granted \subseteq Users /\ sha \in [Versions -> Uploads \cup {None}]
    /\ \A v \in Versions : file[v].there \in BOOLEAN /\ file[v].data \in Seq(Chunk)
    /\ \A d \in Devices : /\ row[d] = None \/ (row[d].ver \in Versions /\ row[d].st \in States)
                          /\ \A i \in DOMAIN down[d] : down[d][i] \in Frame
                          /\ buf[d] = None \/ buf[d] \in Buffer
                          /\ cache[d] = None \/ cache[d] \in Cached
    /\ call \in [Calls -> Call] /\ link \in [Devices -> BOOLEAN] /\ cut \subseteq Devices

\* What a device caches as a version is what was published as that version: not a
\* mixture of two dispatches, of chunks out of order, or of an artifact that was
\* published again while it was read (HandleEnd, Publish, SendChunk).
CachedIsPublished ==
    \A d \in Devices : cache[d] # None =>
        \E of \in Uploads : Whole(cache[d].data, of) /\ (cache[d].ver \in Published => sha[cache[d].ver] = of)

\* A version that a device is to have does not leave the catalog, although the
\* install reads the version before it writes the row (DeleteSkill, GetVersion,
\* SetDeviceSkill).
WantedIsPublished == \A d \in Devices : row[d] # None => row[d].ver \in Published

\* latest_version names a version there is, although an edit writes back the one
\* it read and the skill may be deleted in between (handleUpdateSkill).
LatestIsPublished == skill.there /\ skill.latest # None => skill.latest \in Published

\* Rows are well formed, and what they name is in the catalog, although every
\* handler reads before it writes and another may write in between.
CatalogSound == TypeOK /\ WantedIsPublished /\ LatestIsPublished

\* When the installs, which are bounded, are over, no device goes on holding what
\* it began to receive, unless its connection was lost, its queue refused a frame
\* of a dispatch, or an artifact could not be read: the gateway sends the END also
\* of an artifact that another request empties, removes or writes while it is read
\* (SendEnd, Publish, handle_dispatch_end).
BuffersEnd == <>[](\A d \in Devices : buf[d] = None \/ d \in cut)

\* 01-architecture.md:122 says "Device -> SKILL_STATE -> Gateway updates
\* device_skills": a device that stays connected and is told to install a skill
\* does not stay in installing.
InstallEnds ==
    \A d \in Devices : (row[d] # None /\ row[d].st = "installing")
                         ~> (d \in cut \/ row[d] = None \/ row[d].st # "installing")
=============================================================================
