------------------------- MODULE SkillDispatchProofs -------------------------
(***************************************************************************)
(* What is proved of the skill catalog and of what the devices cache, for  *)
(* every number of devices, versions, uploads, users and requests at once, *)
(* and every size of an artifact.                                          *)
(***************************************************************************)
EXTENDS SkillDispatch, SequenceTheorems, WellFoundedInduction, TLAPS

-----------------------------------------------------------------------------
(* Numbers and queues                                                      *)

\* the first of some devices
LEMMA FirstOfSome ==
  ASSUME NEW S \in SUBSET Devices, S # {}
  PROVE  Min(S) \in S
<1>1. S \subseteq Nat
  BY SkillDispatchConstantsOK
<1>2. PICK x \in S : \A y \in S : ~ (<<y, x>> \in OpToRel(<, Nat))
  BY <1>1, NatLessThanWellFounded, WFMin
<1>3. ASSUME NEW y \in S
      PROVE  x =< y
  <2>1. y \in Nat /\ x \in Nat
    BY <1>1
  <2>2. ~ (y < x)
    BY <1>2, <2>1 DEF OpToRel
  <2> QED
    BY <2>1, <2>2
<1> QED
  BY <1>3 DEF Min

\* What a queue holds is what was put into it, in whatever order.
LEMMA QueueOps ==
  ASSUME NEW S, NEW q \in Seq(S)
  PROVE  /\ DOMAIN q = 1 .. Len(q) /\ Len(q) \in Nat
         /\ \A i \in DOMAIN q : q[i] \in S
         /\ \A x \in S : /\ Append(q, x) \in Seq(S)
                         /\ \A i \in DOMAIN Append(q, x) :
                              \/ Append(q, x)[i] = x
                              \/ i \in DOMAIN q /\ Append(q, x)[i] = q[i]
         /\ q # << >> => /\ Head(q) \in S /\ Tail(q) \in Seq(S)
                         /\ 1 \in DOMAIN q /\ Head(q) = q[1]
                         /\ \A i \in DOMAIN Tail(q) : i + 1 \in DOMAIN q /\ Tail(q)[i] = q[i + 1]
<1>1. DOMAIN q = 1 .. Len(q) /\ Len(q) \in Nat
  BY LenProperties
<1>2. \A i \in DOMAIN q : q[i] \in S
  BY <1>1, ElementOfSeq
<1>3. ASSUME NEW x \in S
      PROVE  /\ Append(q, x) \in Seq(S)
             /\ \A i \in DOMAIN Append(q, x) : \/ Append(q, x)[i] = x
                                               \/ i \in DOMAIN q /\ Append(q, x)[i] = q[i]
  <2> DEFINE z == Append(q, x)
  <2>1. /\ z \in Seq(S) /\ Len(z) = Len(q) + 1
        /\ (\A i \in 1 .. Len(q) : z[i] = q[i]) /\ z[Len(q) + 1] = x
    BY AppendProperties
  <2> HIDE DEF z
  <2>2. DOMAIN z = 1 .. Len(z)
    BY <2>1, LenProperties
  <2> QED
    BY <1>1, <2>1, <2>2 DEF z
<1>4. ASSUME q # << >>
      PROVE  /\ Head(q) \in S /\ Tail(q) \in Seq(S)
             /\ 1 \in DOMAIN q /\ Head(q) = q[1]
             /\ \A i \in DOMAIN Tail(q) : i + 1 \in DOMAIN q /\ Tail(q)[i] = q[i + 1]
  <2> DEFINE z == Tail(q)
  <2>0. Len(q) > 0
    BY <1>1, <1>4, EmptySeq
  <2>1. /\ z \in Seq(S) /\ Len(z) = Len(q) - 1
        /\ (\A i \in 1 .. Len(z) : z[i] = q[i + 1]) /\ Head(q) = q[1] /\ Head(q) \in S
    BY <1>4, HeadTailProperties
  <2> HIDE DEF z
  <2>2. DOMAIN z = 1 .. Len(z)
    BY <2>1, LenProperties
  <2>3. 1 \in DOMAIN q
    BY <1>1, <2>0
  <2> QED
    BY <1>1, <2>0, <2>1, <2>2, <2>3 DEF z
<1> QED
  BY <1>1, <1>2, <1>3, <1>4

LEMMA WholeFile ==
  ASSUME NEW of \in Uploads
  PROVE  [i \in 1 .. N |-> [i |-> i, of |-> of]] \in Seq(Chunk)
<1>1. N \in Nat
  BY SkillDispatchConstantsOK
<1>2. \A i \in 1 .. N : [i |-> i, of |-> of] \in Chunk
  BY DEF Chunk
<1> QED
  BY <1>1, <1>2, IsASeq

-----------------------------------------------------------------------------
(* The inductive invariant                                                 *)

Wanted == [ver : Versions, st : States]

Types ==
  /\ skill \in Skill /\ granted \subseteq Users /\ sha \in [Versions -> Uploads \cup {None}]
  /\ file \in [Versions -> [there : BOOLEAN, data : Seq(Chunk)]]
  /\ row \in [Devices -> {None} \cup Wanted]
  /\ call \in [Calls -> Call]
  /\ link \in [Devices -> BOOLEAN] /\ cut \subseteq Devices
  /\ down \in [Devices -> Seq(Frame)]
  /\ buf \in [Devices -> {None} \cup Buffer]
  /\ cache \in [Devices -> {None} \cup Cached]

\* As long as the skill exists its row of this version holds this hash: what a
\* request that has read it, a frame, a buffer or a cache says of a version.
Said(v, of) == skill.there => sha[v] = of

\* The rows of versions go with the skill, and none before; the rows that name
\* a version name one there is.
Kept ==
  /\ ~skill.there => \A v \in Versions : sha[v] = None
  /\ \A d \in Devices : row[d] # None => sha[row[d].ver] # None
  /\ skill.there /\ skill.latest # None => sha[skill.latest] # None

\* what a request knows, by how far it is
Knows(r, sk, sh) ==
  /\ r.pc \in {"copy", "insert"} => r.ver \in Versions /\ r.of \in Uploads
  /\ r.pc = "copy" => r.i < N
  /\ r.pc = "latest" => r.ver \in Versions /\ (sk.there => sh[r.ver] # None)
  /\ r.pc = "write" => r.read.there /\ (sk.there /\ r.read.latest # None => sh[r.read.latest] # None)
  /\ r.pc \in {"version", "row", "open", "stream"} => r.ver \in Versions /\ r.todo # {}
  /\ r.pc \in {"row", "open", "stream"} => r.of \in Uploads /\ (sk.there => sh[r.ver] = r.of)

Requests == \A c \in Calls : Knows(call[c], skill, sha)

\* What a BEGIN announces, what a device receives, and what it has cached.
Begins ==
  \A d \in Devices : \A i \in DOMAIN down[d] :
    down[d][i].type = "begin" => Said(down[d][i].ver, down[d][i].sha)
Received == \A d \in Devices : buf[d] # None => Said(buf[d].ver, buf[d].sha)
Stored ==
  \A d \in Devices : cache[d] # None =>
    \E of \in Uploads : Whole(cache[d].data, of) /\ Said(cache[d].ver, of)

Told == Begins /\ Received /\ Stored

Inv == Types /\ Kept /\ Requests /\ Told

LEMMA InitInv == Init => Inv
<1> SUFFICES ASSUME Init PROVE Inv
  OBVIOUS
<1>1. AtRest \in Call /\ AtRest.pc = "idle"
  BY DEF AtRest, Call, Skill
<1>2. call \in [Calls -> Call] /\ \A c \in Calls : call[c].pc = "idle"
  <2> HIDE DEF AtRest
  <2> QED
    BY <1>1 DEF Init
<1>3. Types
  BY <1>2 DEF Init, Types, Skill
<1>4. Kept
  BY DEF Init, Kept
<1>5. Requests
  BY <1>2 DEF Requests, Knows
<1>6. Told
  BY DEF Init, Told, Begins, Received, Stored
<1> QED
  BY <1>3, <1>4, <1>5, <1>6 DEF Inv
-----------------------------------------------------------------------------
(* The catalog                                                             *)

\* While the skill exists a version that is published keeps its hash.
Grows ==
  /\ skill'.there => skill.there
  /\ \A v \in Versions : skill'.there /\ sha[v] # None => sha'[v] = sha[v]

CatalogTyped ==
  /\ skill' \in Skill /\ granted' \subseteq Users /\ sha' \in [Versions -> Uploads \cup {None}]
  /\ file' \in [Versions -> [there : BOOLEAN, data : Seq(Chunk)]]

LEMMA VersionIsNot ==
  None \notin Versions /\ None \notin Uploads
BY SkillDispatchConstantsOK

LEMMA SkillSame ==
  ASSUME Types, Kept, skill' = skill, sha' = sha, row' = row
  PROVE  Grows /\ Kept'
BY DEF Grows, Kept

LEMMA CatalogSame ==
  ASSUME Types, Kept, UNCHANGED catalog, row' = row
  PROVE  CatalogTyped /\ Grows /\ Kept'
BY SkillSame DEF CatalogTyped, catalog, Types

LEMMA FilePublish ==
  ASSUME Types, Kept, NEW c \in Calls, NEW v \in Versions, NEW of \in Uploads, Publish(c, v, of)
  PROVE  CatalogTyped /\ Grows /\ Kept'
<1>1. [there |-> TRUE, data |-> << >>] \in [there : BOOLEAN, data : Seq(Chunk)]
  OBVIOUS
<1>2. PICK r : r = [there |-> TRUE, data |-> << >>] /\ r \in [there : BOOLEAN, data : Seq(Chunk)]
  BY <1>1
<1>3. file' = [file EXCEPT ![v] = r]
  BY <1>2 DEF Publish
<1>4. skill' = skill /\ granted' = granted /\ sha' = sha /\ row' = row
  BY DEF Publish
<1> QED
  BY <1>2, <1>3, <1>4, SkillSame DEF CatalogTyped, Types

\* a file stays a sequence of chunks and holes when a chunk is written
LEMMA WrittenFile ==
  ASSUME NEW data \in Seq(Chunk), NEW k \in Chunk
  PROVE  Written(data, k) \in Seq(Chunk)
<1>1. PICK l \in Nat : l = Len(data)
  BY LenProperties
<1>2. \A i \in 1 .. l : data[i] \in Chunk
  BY <1>1, ElementOfSeq
<1>3. PICK m : m = k.i
  OBVIOUS
<1>4. m \in Nat /\ m \in 1 .. N /\ N \in Nat
  BY <1>3, SkillDispatchConstantsOK DEF Chunk
<1>5. PICK n : n = Max({m, l})
  OBVIOUS
<1>6. n \in {m, l} /\ n >= m /\ n >= l
  BY <1>1, <1>4, <1>5 DEF Max
<1>7. ASSUME NEW i \in 1 .. n
      PROVE  (IF i = m THEN k ELSE IF i <= l THEN data[i] ELSE [i |-> i, of |-> None]) \in Chunk
  <2>1. CASE i = m \/ i <= l
    BY <1>1, <1>2, <1>4, <1>6, <2>1
  <2>2. CASE i # m /\ ~ (i <= l)
    <3>1. i \in 1 .. N
      BY <1>1, <1>4, <1>6, <2>2
    <3> QED
      BY <2>2, <3>1 DEF Chunk
  <2> QED
    BY <2>1, <2>2
<1>8. Written(data, k) = [i \in 1 .. n |-> IF i = m THEN k
                                         ELSE IF i <= l THEN data[i] ELSE [i |-> i, of |-> None]]
  BY <1>1, <1>3, <1>5 DEF Written
<1>9. n \in Nat
  BY <1>1, <1>4, <1>6
<1> QED
  BY <1>7, <1>8, <1>9, IsASeq

\* the chunk a request is about to write
LEMMA ChunkWritten ==
  ASSUME Types, Requests, NEW c \in Calls, call[c].pc = "copy"
  PROVE  [i |-> call[c].i + 1, of |-> call[c].of] \in Chunk
<1>1. call[c].of \in Uploads /\ call[c].i < N /\ call[c].i \in Nat
  BY DEF Types, Requests, Knows, Call
<1>2. call[c].i + 1 \in 1 .. N
  BY <1>1, SkillDispatchConstantsOK
<1> QED
  BY <1>1, <1>2 DEF Chunk

LEMMA FileCopy ==
  ASSUME Types, Kept, Requests, NEW c \in Calls, Copy(c)
  PROVE  CatalogTyped /\ Grows /\ Kept'
<1>1. PICK v \in Versions : v = call[c].ver
  BY DEF Copy, Requests, Knows
<1>2. PICK k \in Chunk : k = [i |-> call[c].i + 1, of |-> call[c].of]
  BY ChunkWritten DEF Copy
<1>3. PICK r : /\ \/ r = [file[v] EXCEPT !.data = Written(file[v].data, k)]
                  \/ r = [file[v] EXCEPT !.there = FALSE]
               /\ file' = [file EXCEPT ![v] = r]
  <2>1. \/ file' = [file EXCEPT ![v].data = Written(@, k)]
        \/ file' = [file EXCEPT ![v].there = FALSE]
    BY <1>1, <1>2 DEF Copy
  <2>2. CASE file' = [file EXCEPT ![v].data = Written(@, k)]
    <3>1. PICK data : data = Written(file[v].data, k)
      OBVIOUS
    <3>2. PICK r : r = [file[v] EXCEPT !.data = data]
      OBVIOUS
    <3>3. file' = [file EXCEPT ![v] = r]
      BY <2>2, <3>1, <3>2 DEF Types
    <3> QED
      BY <3>1, <3>2, <3>3
  <2>3. CASE file' = [file EXCEPT ![v].there = FALSE]
    <3>1. PICK r : r = [file[v] EXCEPT !.there = FALSE]
      OBVIOUS
    <3>2. file' = [file EXCEPT ![v] = r]
      BY <2>3, <3>1 DEF Types
    <3> QED
      BY <3>1, <3>2
  <2> QED
    BY <2>1, <2>2, <2>3
<1>4. file[v] \in [there : BOOLEAN, data : Seq(Chunk)]
  BY DEF Types
<1>5. Written(file[v].data, k) \in Seq(Chunk)
  BY <1>4, WrittenFile
<1>6. r \in [there : BOOLEAN, data : Seq(Chunk)]
  <2>1. PICK data \in Seq(Chunk) : data = Written(file[v].data, k)
    BY <1>5
  <2> QED
    BY <1>3, <1>4, <2>1
<1>7. file' \in [Versions -> [there : BOOLEAN, data : Seq(Chunk)]]
  BY <1>3, <1>6 DEF Types
<1>8. skill' = skill /\ granted' = granted /\ sha' = sha /\ row' = row
  BY DEF Copy
<1> QED
  BY <1>7, <1>8, SkillSame DEF CatalogTyped, Types

LEMMA VersionCreated ==
  ASSUME Types, Kept, Requests, NEW c \in Calls, CreateVersion(c)
  PROVE  CatalogTyped /\ Grows /\ Kept'
<1>1. PICK v \in Versions : v = call[c].ver
  BY DEF CreateVersion, Requests, Knows
<1>2. PICK of \in Uploads : of = call[c].of
  BY DEF CreateVersion, Requests, Knows
<1>0. skill' = skill /\ granted' = granted /\ row' = row
  BY DEF CreateVersion
<1>3. CASE skill.there /\ v \notin Published
  <2>1. sha' = [sha EXCEPT ![v] = of] /\ file' = file /\ sha[v] = None
    BY <1>1, <1>2, <1>3 DEF CreateVersion, Published
  <2>2. CatalogTyped
    BY <1>0, <2>1 DEF CatalogTyped, Types
  <2>3. Grows
    BY <1>0, <2>1 DEF Grows, Types
  <2>4. \A w \in Versions : sha[w] # None => sha'[w] # None
    BY <2>1 DEF Types
  <2>5. /\ \A d \in Devices : row[d] # None => row[d].ver \in Versions
        /\ skill.latest # None => skill.latest \in Versions
    BY DEF Types, Wanted, Skill
  <2>6. Kept'
    BY <1>0, <1>3, <2>4, <2>5 DEF Kept
  <2> QED
    BY <2>2, <2>3, <2>6
<1>4. CASE ~ (skill.there /\ v \notin Published)
  <2>1. sha' = sha /\ file' = [file EXCEPT ![v].there = FALSE]
    BY <1>1, <1>4 DEF CreateVersion
  <2>2. PICK r : r = [file[v] EXCEPT !.there = FALSE]
    OBVIOUS
  <2>3. r \in [there : BOOLEAN, data : Seq(Chunk)]
    BY <2>2 DEF Types
  <2>4. file' = [file EXCEPT ![v] = r]
    BY <2>1, <2>2 DEF Types
  <2> QED
    BY <1>0, <2>1, <2>3, <2>4, SkillSame DEF CatalogTyped, Types
<1> QED
  BY <1>3, <1>4

\* a write of the skill's row that keeps it, with a latest_version there is
LEMMA SkillWritten ==
  ASSUME Types, Kept, NEW r \in Skill, skill' = r, skill.there,
         r.there, r.latest # None => sha[r.latest] # None,
         granted' \subseteq Users, sha' = sha, file' = file, row' = row
  PROVE  CatalogTyped /\ Grows /\ Kept'
<1>1. CatalogTyped
  BY DEF CatalogTyped, Types
<1>2. Grows /\ Kept'
  BY DEF Grows, Kept
<1> QED
  BY <1>1, <1>2

LEMMA SkillEdited ==
  ASSUME Types, Kept, Requests,
         \/ \E c \in Calls : SetLatestVersion(c) \/ UpdateSkill(c)
         \/ \E visibility \in {"public", "restricted"} : UpdateVisibility(visibility)
  PROVE  CatalogTyped /\ Grows /\ Kept'
<1>0. skill \in Skill
  BY DEF Types
<1>1. ASSUME NEW c \in Calls, SetLatestVersion(c)
      PROVE  CatalogTyped /\ Grows /\ Kept'
  <2>1. PICK v \in Versions : v = call[c].ver /\ (skill.there => sha[v] # None)
    BY <1>1 DEF SetLatestVersion, Requests, Knows
  <2>2. PICK r : r = [skill EXCEPT !.latest = v]
    OBVIOUS
  <2>3. r \in Skill /\ r.there = skill.there /\ r.latest = v
    BY <1>0, <2>2 DEF Skill
  <2>4. granted' = granted /\ sha' = sha /\ file' = file /\ row' = row
    BY <1>1 DEF SetLatestVersion
  <2>5. CASE skill.there
    <3>1. skill' = r
      BY <1>1, <2>1, <2>2, <2>5 DEF SetLatestVersion
    <3> QED
      BY <2>1, <2>3, <2>4, <2>5, <3>1, SkillWritten DEF Types
  <2>6. CASE ~skill.there
    BY <1>1, <2>4, <2>6, CatalogSame DEF SetLatestVersion, catalog
  <2> QED
    BY <2>5, <2>6
<1>2. ASSUME NEW c \in Calls, UpdateSkill(c)
      PROVE  CatalogTyped /\ Grows /\ Kept'
  <2>1. PICK r \in Skill : r = call[c].read /\ r.there /\ (skill.there /\ r.latest # None => sha[r.latest] # None)
    BY <1>2 DEF UpdateSkill, Requests, Knows, Types, Call
  <2>2. granted' = granted /\ sha' = sha /\ file' = file /\ row' = row
    BY <1>2 DEF UpdateSkill
  <2>3. CASE skill.there
    <3>1. skill' = r
      BY <1>2, <2>1, <2>3 DEF UpdateSkill
    <3> QED
      BY <2>1, <2>2, <2>3, <3>1, SkillWritten DEF Types
  <2>4. CASE ~skill.there
    BY <1>2, <2>2, <2>4, CatalogSame DEF UpdateSkill, catalog
  <2> QED
    BY <2>3, <2>4
<1>3. ASSUME NEW visibility \in {"public", "restricted"}, UpdateVisibility(visibility)
      PROVE  CatalogTyped /\ Grows /\ Kept'
  <2>1. PICK r : r = [skill EXCEPT !.visibility = visibility]
    OBVIOUS
  <2>2. r \in Skill /\ r.there = skill.there /\ r.latest = skill.latest
    BY <1>0, <2>1 DEF Skill
  <2>3. skill' = r /\ skill.there /\ granted' = granted /\ sha' = sha /\ file' = file /\ row' = row
    BY <1>3, <2>1 DEF UpdateVisibility
  <2> QED
    BY <2>2, <2>3, SkillWritten DEF Kept, Types
<1> QED
  BY <1>1, <1>2, <1>3

LEMMA SkillDeleted ==
  ASSUME Types, Kept, DeleteSkill
  PROVE  CatalogTyped /\ Grows /\ Kept'
<1>1. PICK r : r = [skill EXCEPT !.there = FALSE]
  OBVIOUS
<1>2. r \in Skill /\ ~r.there
  BY <1>1 DEF Skill, Types
<1>3. /\ skill' = r /\ granted' = granted /\ file' = file /\ row' = row
      /\ sha' = [v \in Versions |-> None]
  BY <1>1 DEF DeleteSkill
<1>4. \A d \in Devices : row[d] = None
  BY DEF DeleteSkill, Referenced
<1>5. CatalogTyped
  BY <1>2, <1>3 DEF CatalogTyped, Types
<1>6. Grows /\ Kept'
  BY <1>2, <1>3, <1>4 DEF Grows, Kept
<1> QED
  BY <1>5, <1>6

LEMMA RowSet ==
  ASSUME Types, Kept, Requests, NEW c \in Calls, SetDeviceSkill(c)
  PROVE  CatalogTyped /\ Grows /\ Kept' /\ row' \in [Devices -> {None} \cup Wanted]
<1>0. UNCHANGED catalog
  BY DEF SetDeviceSkill
<1>1. CASE ~skill.there
  BY <1>0, <1>1, CatalogSame DEF SetDeviceSkill, Types
<1>2. CASE skill.there
  <2>1. PICK t : t = Target(c)
    OBVIOUS
  <2>2. PICK v \in Versions : v = call[c].ver /\ sha[v] # None
    BY <1>2, VersionIsNot DEF SetDeviceSkill, Requests, Knows
  <2>3. PICK r : r = [ver |-> v, st |-> "installing"]
    OBVIOUS
  <2>4. r \in Wanted /\ r.ver = v
    BY <2>3 DEF Wanted, States
  <2>5. row' = [row EXCEPT ![t] = r]
    BY <1>2, <2>1, <2>2, <2>3 DEF SetDeviceSkill
  <2>6. row' \in [Devices -> {None} \cup Wanted]
    BY <2>4, <2>5 DEF Types
  <2>7. skill' = skill /\ sha' = sha /\ granted' = granted /\ file' = file
    BY <1>0 DEF catalog
  <2>8. CatalogTyped
    BY <2>7 DEF CatalogTyped, Types
  <2>9. Grows
    BY <2>7 DEF Grows
  <2>10. Kept'
    BY <2>2, <2>4, <2>5, <2>7 DEF Kept, Types
  <2> QED
    BY <2>6, <2>8, <2>9, <2>10
<1> QED
  BY <1>1, <1>2

LEMMA DeviceKeepsRow ==
  ASSUME NEW d \in Devices, DeviceReads(d)
  PROVE  row' = row
BY DEF DeviceReads, Apply, UpdateDeviceSkillState

LEMMA CatalogHolds ==
  ASSUME Types, Kept, Requests, Next
  PROVE  CatalogTyped /\ Grows /\ Kept' /\ row' \in [Devices -> {None} \cup Wanted]
<1>1. CASE \E c \in Calls : SetDeviceSkill(c)
  BY <1>1, RowSet
<1>2. CASE ~ \E c \in Calls : SetDeviceSkill(c)
  <2>0. row' = row
    BY <1>2, DeviceKeepsRow DEF Next, Step, Copy, CreateVersion, SetLatestVersion, UpdateSkill,
       EnableRefused, GetVersion, Open, ReadChunk, ReadError, SendEnd, AllSent, SendChunk, Install, Publish, ReadSkill,
       EnableSkill, UpdateVisibility, GrantVisibility, RevokeVisibility, DeleteSkill, DisableFleet,
       DeleteFleet, EnableFleet, FleetAction, RetryFleet, Connect, Drop
  <2>1. ASSUME NEW c \in Calls, NEW v \in Versions, NEW of \in Uploads, Publish(c, v, of)
        PROVE  CatalogTyped /\ Grows /\ Kept'
    BY <2>1, FilePublish
  <2>2. ASSUME NEW c \in Calls, Copy(c) \/ CreateVersion(c)
        PROVE  CatalogTyped /\ Grows /\ Kept'
    BY <2>2, FileCopy, VersionCreated
  <2>3. ASSUME \/ \E c \in Calls : SetLatestVersion(c) \/ UpdateSkill(c)
               \/ \E visibility \in {"public", "restricted"} : UpdateVisibility(visibility)
        PROVE  CatalogTyped /\ Grows /\ Kept'
    BY <2>3, SkillEdited
  <2>4. ASSUME DeleteSkill PROVE CatalogTyped /\ Grows /\ Kept'
    BY <2>4, SkillDeleted
  <2>5. ASSUME NEW u \in Users, GrantVisibility(u) \/ RevokeVisibility(u)
        PROVE  CatalogTyped /\ Grows /\ Kept'
    <3>1. skill' = skill /\ sha' = sha /\ file' = file /\ granted' \subseteq Users
      BY <2>5 DEF GrantVisibility, RevokeVisibility, Types
    <3> QED
      BY <2>0, <3>1, SkillSame DEF CatalogTyped, Types
  <2>6. ASSUME \/ \E c \in Calls :
                    \/ EnableRefused(c) \/ GetVersion(c) \/ Open(c) \/ ReadChunk(c)
                    \/ ReadError(c) \/ SendEnd(c) \/ \E p \in call[c].pend : SendChunk(c, p[1], p[2])
                    \/ \E v \in Versions : Install(c, v)
                    \/ \E visibility \in {"public", "restricted"} : ReadSkill(c, visibility)
                    \/ \E u \in Users, d \in Devices : EnableSkill(c, u, d)
               \/ DisableFleet \/ DeleteFleet \/ EnableFleet
               \/ \E d \in Devices : RetryFleet(d) \/ Connect(d) \/ Drop(d) \/ DeviceReads(d)
        PROVE  CatalogTyped /\ Grows /\ Kept'
    <3>1. UNCHANGED catalog
      BY <2>6 DEF EnableRefused, GetVersion, Open, ReadChunk, ReadError, SendEnd, AllSent, SendChunk, Install, ReadSkill,
         EnableSkill, DisableFleet, DeleteFleet, EnableFleet, FleetAction, RetryFleet, Connect, Drop,
         DeviceReads
    <3> QED
      BY <2>0, <3>1, CatalogSame
  <2>7. CatalogTyped /\ Grows /\ Kept'
    BY <1>2, <2>1, <2>2, <2>3, <2>4, <2>5, <2>6 DEF Next, Step
  <2> QED
    BY <2>0, <2>7 DEF Types
<1> QED
  BY <1>1, <1>2
-----------------------------------------------------------------------------
(* The requests                                                            *)

\* what a request knows stays so
LEMMA KnowsKept ==
  ASSUME Types, Grows, NEW r \in Call, Knows(r, skill, sha)
  PROVE  Knows(r, skill', sha')
<1>1. r.read.latest \in Versions \cup {None}
  BY DEF Call, Skill
<1>2. None \notin Uploads
  BY VersionIsNot
<1>3. r.pc = "latest" => r.ver \in Versions /\ (skill'.there => sha'[r.ver] # None)
  BY DEF Knows, Grows
<1>4. r.pc = "write" => r.read.there /\ (skill'.there /\ r.read.latest # None => sha'[r.read.latest] # None)
  BY <1>1 DEF Knows, Grows
<1>5. r.pc \in {"row", "open", "stream"} => r.of \in Uploads /\ (skill'.there => sha'[r.ver] = r.of)
  BY <1>2 DEF Knows, Grows
<1> QED
  BY <1>3, <1>4, <1>5 DEF Knows

LEMMA CallSame ==
  ASSUME Types, Requests, Grows, call' = call
  PROVE  call' \in [Calls -> Call] /\ Requests'
<1>1. \A c \in Calls : call[c] \in Call /\ Knows(call[c], skill, sha)
  BY DEF Types, Requests
<1>2. \A c \in Calls : Knows(call[c], skill', sha')
  BY <1>1, KnowsKept
<1> QED
  BY <1>2 DEF Types, Requests

LEMMA CallChange ==
  ASSUME Types, Requests, Grows, NEW c \in Calls, NEW r \in Call, Knows(r, skill', sha'),
         call' = [call EXCEPT ![c] = r]
  PROVE  call' \in [Calls -> Call] /\ Requests'
<1>1. \A o \in Calls : call[o] \in Call /\ Knows(call[o], skill, sha)
  BY DEF Types, Requests
<1>2. \A o \in Calls : Knows(call[o], skill', sha')
  BY <1>1, KnowsKept
<1>3. \A o \in Calls : call'[o] = (IF o = c THEN r ELSE call[o])
  BY DEF Types
<1>4. \A o \in Calls : Knows(call'[o], skill', sha')
  BY <1>2, <1>3
<1> QED
  BY <1>4 DEF Types, Requests

LEMMA RestIsCall ==
  AtRest \in Call /\ AtRest.pc = "idle"
BY DEF AtRest, Call, Skill

LEMMA CallReturns ==
  ASSUME Types, Requests, Grows, NEW c \in Calls, Return(c)
  PROVE  call' \in [Calls -> Call] /\ Requests'
<1>1. PICK pend \in SUBSET (Devices \X Chunk) : pend = call[c].pend
  BY DEF Types, Call
<1>2. PICK r : r = [AtRest EXCEPT !.pend = pend]
  OBVIOUS
<1>3. r \in Call /\ r.pc = "idle"
  BY <1>2, RestIsCall DEF Call
<1>4. call' = [call EXCEPT ![c] = r]
  BY <1>1, <1>2 DEF Return
<1>5. Knows(r, skill', sha')
  BY <1>3 DEF Knows
<1> QED
  BY <1>3, <1>4, <1>5, CallChange

\* the next device
LEMMA CallSkips ==
  ASSUME Types, Requests, Grows, NEW c \in Calls,
         call[c].pc \in {"version", "row", "open", "stream"}, Skip(c)
  PROVE  call' \in [Calls -> Call] /\ Requests'
<1>1. PICK rest : rest = call[c].todo \ {Target(c)}
  OBVIOUS
<1>2. rest \subseteq Devices
  BY <1>1 DEF Types, Call
<1>3. CASE rest = {}
  BY <1>1, <1>3, CallReturns DEF Skip
<1>4. CASE rest # {}
  <2>1. PICK v \in Versions : v = call[c].ver
    BY DEF Requests, Knows
  <2>6. PICK pend \in SUBSET (Devices \X Chunk) : pend = call[c].pend
    BY DEF Types, Call
  <2>2. PICK r : r = [AtRest EXCEPT !.pc = "version", !.ver = v, !.todo = rest, !.pend = pend]
    OBVIOUS
  <2>3. r \in Call /\ r.pc = "version" /\ r.ver = v /\ r.todo = rest
    BY <1>2, <2>2 DEF AtRest, Call, Skill
  <2>4. call' = [call EXCEPT ![c] = r]
    BY <1>1, <1>4, <2>1, <2>2, <2>6 DEF Skip
  <2>5. Knows(r, skill', sha')
    BY <1>4, <2>3 DEF Knows
  <2> QED
    BY <2>3, <2>4, <2>5, CallChange
<1> QED
  BY <1>3, <1>4

LEMMA CallGoes ==
  ASSUME Types, Requests, Grows, NEW c \in Calls, NEW l \in {"latest", "open", "stream"},
         Goto(c, l),
         l = "latest" => call[c].ver \in Versions /\ sha'[call[c].ver] # None,
         l = "open"   => call[c].pc = "row",
         l = "stream" => call[c].pc = "open"
  PROVE  call' \in [Calls -> Call] /\ Requests'
<1>1. PICK r : r = [call[c] EXCEPT !.pc = l]
  OBVIOUS
<1>2. call[c] \in Call /\ Knows(call[c], skill, sha)
  BY DEF Types, Requests
<1>3. /\ r \in Call /\ r.pc = l /\ r.ver = call[c].ver /\ r.of = call[c].of /\ r.todo = call[c].todo
  BY <1>1, <1>2 DEF Call
<1>4. call' = [call EXCEPT ![c] = r]
  BY <1>1 DEF Goto, Types
<1>5. Knows(call[c], skill', sha')
  BY <1>2, KnowsKept
<1>6. Knows(r, skill', sha')
  BY <1>3, <1>5 DEF Knows
<1> QED
  BY <1>3, <1>4, <1>6, CallChange
\* what the goroutines of a stream change of it
LEMMA CallStreams ==
  ASSUME Types, Requests, Grows, NEW c \in Calls, NEW i \in Nat, NEW pend \in SUBSET (Devices \X Chunk),
         NEW failed \in BOOLEAN, NEW r, r = [call[c] EXCEPT !.i = i, !.pend = pend, !.failed = failed],
         call' = [call EXCEPT ![c] = r], call[c].pc # "copy"
  PROVE  call' \in [Calls -> Call] /\ Requests'
<1>1. call[c] \in Call /\ Knows(call[c], skill, sha)
  BY DEF Types, Requests
<1>2. /\ r \in Call /\ r.pc = call[c].pc /\ r.ver = call[c].ver /\ r.of = call[c].of
      /\ r.read = call[c].read /\ r.todo = call[c].todo
  BY <1>1 DEF Call
<1>3. Knows(r, skill', sha')
  BY <1>1, <1>2, KnowsKept DEF Knows
<1> QED
  BY <1>2, <1>3, CallChange

LEMMA RequestsBegin ==
  ASSUME Types, Kept, Requests, Grows,
         \E c \in Calls :
              \/ \E v \in Versions : Install(c, v) \/ \E of \in Uploads : Publish(c, v, of)
              \/ \E visibility \in {"public", "restricted"} : ReadSkill(c, visibility)
              \/ \E u \in Users, d \in Devices : EnableSkill(c, u, d)
  PROVE  call' \in [Calls -> Call] /\ Requests'
<1>1. ASSUME NEW c \in Calls, NEW v \in Versions, NEW of \in Uploads, Publish(c, v, of)
      PROVE  call' \in [Calls -> Call] /\ Requests'
  <2>1. PICK r : r = [AtRest EXCEPT !.pc = "copy", !.ver = v, !.of = of]
    OBVIOUS
  <2>2. r \in Call /\ r.pc = "copy" /\ r.ver = v /\ r.of = of /\ r.i < N
    <3>1. r \in Call /\ r.pc = "copy" /\ r.ver = v /\ r.of = of /\ r.i = 0
      BY <2>1 DEF AtRest, Call, Skill
    <3> QED
      BY <3>1, SkillDispatchConstantsOK
  <2>3. call' = [call EXCEPT ![c] = r]
    BY <1>1, <2>1 DEF Publish, Begin
  <2>4. Knows(r, skill', sha')
    BY <2>2 DEF Knows
  <2> QED
    BY <2>2, <2>3, <2>4, CallChange
<1>2. ASSUME NEW c \in Calls, NEW visibility \in {"public", "restricted"}, ReadSkill(c, visibility)
      PROVE  call' \in [Calls -> Call] /\ Requests'
  <2>1. PICK sk : sk = [skill EXCEPT !.visibility = visibility]
    OBVIOUS
  <2>2. sk \in Skill /\ sk.latest = skill.latest /\ sk.there = skill.there /\ skill.there
    BY <1>2, <2>1 DEF Skill, Types, ReadSkill
  <2>3. PICK r : r = [AtRest EXCEPT !.pc = "write", !.read = sk]
    OBVIOUS
  <2>4. r \in Call /\ r.pc = "write" /\ r.read = sk
    BY <2>2, <2>3 DEF AtRest, Call
  <2>5. call' = [call EXCEPT ![c] = r] /\ skill' = skill /\ sha' = sha
    BY <1>2, <2>1, <2>3 DEF ReadSkill, Begin, catalog
  <2>6. Knows(r, skill', sha')
    BY <2>2, <2>4, <2>5 DEF Knows, Kept
  <2> QED
    BY <2>4, <2>5, <2>6, CallChange
<1>3. ASSUME NEW c \in Calls, NEW u \in Users, NEW d \in Devices, EnableSkill(c, u, d)
      PROVE  call' \in [Calls -> Call] /\ Requests'
  <2>1. PICK r : r = [AtRest EXCEPT !.pc = "check", !.todo = {d}]
    OBVIOUS
  <2>2. r \in Call /\ r.pc = "check"
    BY <2>1 DEF AtRest, Call, Skill
  <2>3. call' = [call EXCEPT ![c] = r]
    BY <1>3, <2>1 DEF EnableSkill, Begin
  <2>4. Knows(r, skill', sha')
    BY <2>2 DEF Knows
  <2> QED
    BY <2>2, <2>3, <2>4, CallChange
<1>4. ASSUME NEW c \in Calls, NEW v \in Versions, Install(c, v)
      PROVE  call' \in [Calls -> Call] /\ Requests'
  <2>0. PICK listed \in SUBSET Devices : listed = Listed /\ listed # {}
    BY <1>4 DEF Install, Listed
  <2>1. PICK r : r = [AtRest EXCEPT !.pc = "version", !.ver = v, !.todo = listed]
    OBVIOUS
  <2>2. r \in Call /\ r.pc = "version" /\ r.ver = v /\ r.todo # {}
    BY <2>0, <2>1 DEF AtRest, Call, Skill
  <2>3. call' = [call EXCEPT ![c] = r]
    BY <1>4, <2>0, <2>1 DEF Install, Begin
  <2>4. Knows(r, skill', sha')
    BY <2>2 DEF Knows
  <2> QED
    BY <2>2, <2>3, <2>4, CallChange
<1> QED
  BY <1>1, <1>2, <1>3, <1>4

LEMMA RequestGoes ==
  ASSUME Types, Requests, Grows, NEW c \in Calls, Step(c)
  PROVE  call' \in [Calls -> Call] /\ Requests'
<1>0. call[c] \in Call /\ Knows(call[c], skill, sha) /\ None \notin Uploads
  BY VersionIsNot DEF Types, Requests
<1>1. CASE Copy(c)
  <2>1. CASE Return(c)
    BY <2>1, CallReturns
  <2>2. CASE ~Return(c)
    <3>1. PICK n \in Nat : n = call[c].i + 1
      BY <1>0 DEF Call
    <3>2. PICK l \in {"insert", "copy"} : l = IF n = N THEN "insert" ELSE "copy"
      OBVIOUS
    <3>3. PICK r : r = [call[c] EXCEPT !.i = n, !.pc = l]
      OBVIOUS
    <3>4. call[c].pc = "copy" /\ call' = [call EXCEPT ![c].i = n, ![c].pc = l]
      BY <1>1, <2>2, <3>1, <3>2 DEF Copy
    <3>5. call' = [call EXCEPT ![c] = r]
      BY <1>0, <3>3, <3>4 DEF Types, Call
    <3>6. r \in Call /\ r.pc = l /\ r.i = n /\ r.ver = call[c].ver /\ r.of = call[c].of
      BY <1>0, <3>3 DEF Call
    <3>7. call[c].ver \in Versions /\ call[c].of \in Uploads /\ call[c].i < N /\ call[c].i \in Nat
      BY <1>0, <3>4 DEF Knows, Call
    <3>8. l = "copy" => n < N
      BY <3>1, <3>2, <3>7, SkillDispatchConstantsOK
    <3>9. Knows(r, skill', sha')
      BY <3>6, <3>7, <3>8 DEF Knows
    <3> QED
      BY <3>5, <3>6, <3>9, CallChange
  <2> QED
    BY <2>1, <2>2
<1>2. CASE CreateVersion(c)
  <2>1. CASE Return(c)
    BY <2>1, CallReturns
  <2>2. CASE ~Return(c)
    <3>1. /\ Goto(c, "latest") /\ sha' = [sha EXCEPT ![call[c].ver] = call[c].of]
          /\ call[c].pc = "insert"
      BY <1>2, <2>2 DEF CreateVersion
    <3>2. call[c].ver \in Versions /\ call[c].of \in Uploads
      BY <1>0, <3>1 DEF Knows
    <3>3. sha'[call[c].ver] # None
      BY <1>0, <3>1, <3>2 DEF Types
    <3> QED
      BY <3>1, <3>2, <3>3, CallGoes
  <2> QED
    BY <2>1, <2>2
<1>3. CASE SetLatestVersion(c) \/ UpdateSkill(c) \/ EnableRefused(c)
  BY <1>3, CallReturns DEF SetLatestVersion, UpdateSkill, EnableRefused
<1>4. CASE GetVersion(c)
  <2>1. CASE call[c].ver \notin Published
    BY <1>4, <2>1, CallSkips DEF GetVersion
  <2>2. CASE call[c].ver \in Published
    <3>1. PICK of \in Uploads : of = sha[call[c].ver]
      BY <2>2 DEF Published, Types
    <3>2. PICK r : r = [call[c] EXCEPT !.pc = "row", !.of = of]
      OBVIOUS
    <3>3. r \in Call /\ r.pc = "row" /\ r.of = of /\ r.ver = call[c].ver /\ r.todo = call[c].todo
      BY <1>0, <3>2 DEF Call
    <3>4. call' = [call EXCEPT ![c] = r] /\ skill' = skill /\ sha' = sha
      BY <1>4, <2>2, <3>1, <3>2 DEF GetVersion, catalog, Types
    <3>5. Knows(r, skill', sha')
      BY <1>0, <1>4, <3>1, <3>3, <3>4 DEF Knows, GetVersion
    <3> QED
      BY <3>3, <3>4, <3>5, CallChange
  <2> QED
    BY <2>1, <2>2
<1>5. CASE SetDeviceSkill(c)
  <2>1. call[c].pc = "row" /\ (Skip(c) \/ Goto(c, "open"))
    BY <1>5 DEF SetDeviceSkill
  <2> QED
    BY <2>1, CallSkips, CallGoes
<1>6. CASE Open(c)
  <2>1. call[c].pc = "open" /\ (Skip(c) \/ Goto(c, "stream"))
    BY <1>6 DEF Open
  <2> QED
    BY <2>1, CallSkips, CallGoes
<1>7. CASE ReadChunk(c)
  <2>1. call[c].pc = "stream" /\ call[c].ver \in Versions /\ call[c].i < Len(Data(c))
    BY <1>0, <1>7 DEF ReadChunk, More, Knows
  <2>2. PICK q \in Seq(Chunk) : q = Data(c)
    BY <2>1 DEF Data, Types
  <2>3. PICK n \in Nat : n = call[c].i /\ n < Len(q)
    BY <1>0, <2>1, <2>2 DEF Call
  <2>4. n + 1 \in 1 .. Len(q)
    <3>1. Len(q) \in Nat
      BY LenProperties
    <3> QED
      BY <2>3, <3>1
  <2>5. PICK k \in Chunk : k = q[n + 1]
    BY <2>4, ElementOfSeq
  <2>6. PICK m \in Nat : m = n + 1
    OBVIOUS
  <2>12. Target(c) \in Devices
    <3>1. call[c].todo \in SUBSET Devices /\ call[c].todo # {}
      BY <1>0, <1>7 DEF ReadChunk, Knows, Call
    <3> QED
      BY <3>1, FirstOfSome DEF Target
  <2>13. PICK p \in Devices \X Chunk : p = <<Target(c), k>>
    BY <2>12
  <2>7. PICK pend \in SUBSET (Devices \X Chunk) : pend = call[c].pend \cup {p}
    BY <1>0 DEF Call
  <2>8. PICK r : r = [call[c] EXCEPT !.i = m, !.pend = pend, !.failed = call[c].failed]
    OBVIOUS
  <2>9. call' = [call EXCEPT ![c].i = @ + 1, ![c].pend = @ \cup {p}]
    BY <1>7, <2>2, <2>3, <2>5, <2>13 DEF ReadChunk
  <2>10. call' = [call EXCEPT ![c] = r]
    BY <1>0, <2>3, <2>6, <2>7, <2>8, <2>9 DEF Call, Types
  <2>11. call[c].failed \in BOOLEAN /\ call[c].pc # "copy"
    BY <1>0, <1>7 DEF Call, ReadChunk
  <2> QED
    BY <2>8, <2>10, <2>11, CallStreams
<1>8. ASSUME NEW p \in call[c].pend, SendChunk(c, p[1], p[2])
      PROVE  call' \in [Calls -> Call] /\ Requests'
  <2>0. PICK d, k : p = <<d, k>>
    BY <1>0 DEF Call
  <2>1. PICK pend \in SUBSET (Devices \X Chunk) : pend = call[c].pend \ {<<d, k>>}
    BY <1>0 DEF Call
  <2>2. PICK b : b = (call[c].pc = "stream" /\ d = Target(c)) /\ b \in BOOLEAN
    OBVIOUS
  <2>3. PICK ended : ended = [call EXCEPT ![c].pend = pend]
    OBVIOUS
  <2>4. call' = ended \/ call' = [ended EXCEPT ![c].failed = @ \/ b]
    BY <1>8, <2>0, <2>1, <2>2, <2>3 DEF SendChunk
  <2>5. PICK q : q = [call[c] EXCEPT !.pend = pend]
    OBVIOUS
  <2>6. ended = [call EXCEPT ![c] = q]
    BY <2>3, <2>5 DEF Types
  <2>7. q \in Call /\ q.pc = call[c].pc /\ q.ver = call[c].ver /\ q.of = call[c].of
        /\ q.read = call[c].read /\ q.todo = call[c].todo /\ q.i = call[c].i
    BY <1>0, <2>5 DEF Call
  <2>8. PICK failed \in BOOLEAN : failed = (q.failed \/ b)
    OBVIOUS
  <2>9. PICK s : s = [q EXCEPT !.failed = failed]
    OBVIOUS
  <2>10. s \in Call /\ s.pc = call[c].pc /\ s.ver = call[c].ver /\ s.of = call[c].of
        /\ s.read = call[c].read /\ s.todo = call[c].todo /\ s.i = call[c].i
    BY <2>7, <2>9 DEF Call
  <2>11. call' = [call EXCEPT ![c] = q] \/ call' = [call EXCEPT ![c] = s]
    BY <2>4, <2>6, <2>8, <2>9 DEF Types
  <2>12. Knows(call[c], skill', sha')
    BY <1>0, KnowsKept
  <2>13. Knows(q, skill', sha') /\ Knows(s, skill', sha')
    BY <2>7, <2>10, <2>12 DEF Knows
  <2> QED
    BY <2>7, <2>10, <2>11, <2>13, CallChange
<1>9. CASE SendEnd(c) \/ ReadError(c)
  <2>1. call[c].pc = "stream" /\ Skip(c)
    BY <1>9 DEF SendEnd, AllSent, ReadError
  <2> QED
    BY <2>1, CallSkips
<1> QED
  BY <1>1, <1>2, <1>3, <1>4, <1>5, <1>6, <1>7, <1>8, <1>9 DEF Step

LEMMA RequestsHold ==
  ASSUME Types, Kept, Requests, Grows, Next
  PROVE  call' \in [Calls -> Call] /\ Requests'
<1>1. CASE \E c \in Calls : Step(c)
  BY <1>1, RequestGoes
<1>2. CASE \E c \in Calls :
             \/ \E v \in Versions : Install(c, v) \/ \E of \in Uploads : Publish(c, v, of)
             \/ \E visibility \in {"public", "restricted"} : ReadSkill(c, visibility)
             \/ \E u \in Users, d \in Devices : EnableSkill(c, u, d)
  BY <1>2, RequestsBegin
<1>3. ASSUME \/ \E visibility \in {"public", "restricted"} : UpdateVisibility(visibility)
             \/ \E u \in Users : GrantVisibility(u) \/ RevokeVisibility(u)
             \/ DeleteSkill \/ DisableFleet \/ DeleteFleet \/ EnableFleet
             \/ \E d \in Devices : RetryFleet(d) \/ Connect(d) \/ Drop(d) \/ DeviceReads(d)
      PROVE  call' = call
  BY <1>3 DEF UpdateVisibility, GrantVisibility, RevokeVisibility, DeleteSkill, DisableFleet, DeleteFleet,
     EnableFleet, FleetAction, RetryFleet, Connect, Drop, DeviceReads
<1> QED
  BY <1>1, <1>2, <1>3, CallSame DEF Next
-----------------------------------------------------------------------------
(* The frames and the devices                                              *)

LEMMA SaidKept ==
  ASSUME Types, Grows, NEW v \in Versions, NEW of \in Uploads, Said(v, of)
  PROVE  skill'.there => sha'[v] = of
BY VersionIsNot DEF Said, Grows

\* the device a dispatch is made to
LEMMA TargetIs ==
  ASSUME Types, Requests, NEW c \in Calls, call[c].pc \in {"version", "row", "open", "stream"}
  PROVE  Target(c) \in Devices
<1>1. call[c].todo \in SUBSET Devices /\ call[c].todo # {}
  BY DEF Types, Call, Requests, Knows
<1> QED
  BY <1>1, FirstOfSome DEF Target

\* frames are the old ones, or say what is so
LEMMA BeginsKept ==
  ASSUME Types, Grows, Begins, down' \in [Devices -> Seq(Frame)],
         \A d \in Devices : \A i \in DOMAIN down'[d] :
           \/ \E k \in DOMAIN down[d] : down'[d][i] = down[d][k]
           \/ down'[d][i].type = "begin" => (skill'.there => sha'[down'[d][i].ver] = down'[d][i].sha)
  PROVE  Begins'
<1>1. ASSUME NEW d \in Devices, NEW k \in DOMAIN down[d], down[d][k].type = "begin"
      PROVE  skill'.there => sha'[down[d][k].ver] = down[d][k].sha
  <2>1. PICK f : f = down[d][k] /\ f \in Frame
    BY QueueOps DEF Types
  <2>2. f.ver \in Versions /\ f.sha \in Uploads
    BY <1>1, <2>1 DEF Frame
  <2>3. Said(f.ver, f.sha)
    BY <1>1, <2>1 DEF Begins
  <2> QED
    BY <2>1, <2>2, <2>3, SaidKept
<1> QED
  BY <1>1 DEF Begins, Said

LEMMA SendHolds ==
  ASSUME Types, Grows, Begins, NEW d \in Devices, NEW f \in Frame,
         f.type = "begin" => (skill'.there => sha'[f.ver] = f.sha), Enqueue(d, f) \/ down' = down
  PROVE  down' \in [Devices -> Seq(Frame)] /\ Begins'
<1>1. CASE down' = down
  BY <1>1, BeginsKept DEF Types
<1>2. CASE down' # down
  <2>1. down' = [down EXCEPT ![d] = Append(@, f)]
    BY <1>2 DEF Enqueue
  <2>2. PICK q : q = Append(down[d], f)
    OBVIOUS
  <2>3. /\ q \in Seq(Frame)
        /\ \A i \in DOMAIN q : q[i] = f \/ (i \in DOMAIN down[d] /\ q[i] = down[d][i])
    BY <2>1, <2>2, QueueOps DEF Types
  <2>4. down' = [down EXCEPT ![d] = q]
    BY <2>1, <2>2
  <2>5. down' \in [Devices -> Seq(Frame)]
    BY <2>3, <2>4 DEF Types
  <2>6. \A e \in Devices : down'[e] = (IF e = d THEN q ELSE down[e])
    BY <2>4 DEF Types
  <2> QED
    BY <2>3, <2>5, <2>6, BeginsKept
<1> QED
  BY <1>1, <1>2

\* a frame that is sent, or refused
LEMMA Offered ==
  ASSUME NEW d, NEW f, Sent(d, f) \/ Refused(d, f)
  PROVE  Enqueue(d, f) \/ down' = down
BY DEF Sent, Refused

LEMMA PlainFrames ==
  \A t \in {"end", "disable", "enable", "delete", "retry"} : [type |-> t] \in Frame /\ [type |-> t].type # "begin"
BY DEF Frame

LEMMA FleetHolds ==
  ASSUME Types, Grows, Begins, NEW t \in {"disable", "enable", "delete"}, FleetAction(t)
  PROVE  down' \in [Devices -> Seq(Frame)] /\ Begins'
<1>1. PICK f : f = [type |-> t] /\ f \in Frame /\ f.type # "begin"
  BY PlainFrames
<1>2. PICK told \in SUBSET Devices : down' = [d \in Devices |-> IF d \in told THEN Append(down[d], f) ELSE down[d]]
  BY <1>1 DEF FleetAction
<1>3. \A d \in Devices : /\ Append(down[d], f) \in Seq(Frame)
                         /\ \A i \in DOMAIN Append(down[d], f) :
                              \/ Append(down[d], f)[i] = f
                              \/ i \in DOMAIN down[d] /\ Append(down[d], f)[i] = down[d][i]
  BY <1>1, QueueOps DEF Types
<1>4. down' \in [Devices -> Seq(Frame)]
  BY <1>2, <1>3 DEF Types
<1>5. \A d \in Devices : down'[d] = Append(down[d], f) \/ down'[d] = down[d]
  BY <1>2
<1>6. \A d \in Devices : \A i \in DOMAIN down'[d] :
        (\E k \in DOMAIN down[d] : down'[d][i] = down[d][k]) \/ down'[d][i].type # "begin"
  BY <1>1, <1>3, <1>5
<1> QED
  BY <1>4, <1>6, BeginsKept

LEMMA ConnectHolds ==
  ASSUME Types, Grows, Begins, NEW d \in Devices, Connect(d)
  PROVE  down' \in [Devices -> Seq(Frame)] /\ Begins'
<1>1. PICK p \in Bijection(DOMAIN down[d], DOMAIN down[d]) :
        down' = [down EXCEPT ![d] = [i \in DOMAIN @ |-> @[p[i]]]]
  BY DEF Connect
<1>2. PICK q : q = [i \in DOMAIN down[d] |-> down[d][p[i]]]
  OBVIOUS
<1>3. q \in Seq(Frame) /\ \A i \in DOMAIN q : \E k \in DOMAIN down[d] : q[i] = down[d][k]
  <2>1. PICK old \in Seq(Frame) : old = down[d]
    BY DEF Types
  <2>2. DOMAIN old = 1 .. Len(old) /\ Len(old) \in Nat /\ \A i \in DOMAIN old : old[i] \in Frame
    BY QueueOps
  <2>3. \A i \in DOMAIN old : p[i] \in DOMAIN old
    BY <2>1 DEF Bijection, Injection, Surjection
  <2>4. \A i \in 1 .. Len(old) : old[p[i]] \in Frame
    BY <2>2, <2>3
  <2>5. [i \in 1 .. Len(old) |-> old[p[i]]] \in Seq(Frame)
    BY <2>2, <2>4, IsASeq
  <2>6. q = [i \in 1 .. Len(old) |-> old[p[i]]]
    BY <1>2, <2>1, <2>2
  <2>7. \A i \in DOMAIN q : i \in DOMAIN old /\ q[i] = old[p[i]]
    BY <2>2, <2>6
  <2> QED
    BY <2>1, <2>3, <2>5, <2>6, <2>7
<1>4. down' = [down EXCEPT ![d] = q]
  BY <1>1, <1>2
<1>5. down' \in [Devices -> Seq(Frame)]
  BY <1>3, <1>4 DEF Types
<1>6. \A e \in Devices : down'[e] = (IF e = d THEN q ELSE down[e])
  BY <1>4 DEF Types
<1> QED
  BY <1>3, <1>5, <1>6, BeginsKept

\* the frames that a lost connection leaves
LEMMA DropHolds ==
  ASSUME Types, Grows, Begins, NEW d \in Devices, Drop(d)
  PROVE  down' \in [Devices -> Seq(Frame)] /\ Begins'
<1>1. PICK old \in Seq(Frame) : old = down[d]
  BY DEF Types
<1>2. DOMAIN old = 1 .. Len(old) /\ Len(old) \in Nat /\ \A i \in DOMAIN old : old[i] \in Frame
  BY QueueOps
<1>14. PICK n \in Nat : n = Len(old)
  BY <1>2
<1>3. PICK k \in 0 .. n : down' = [down EXCEPT ![d] = SubSeq(@, k + 1, Len(@))]
  BY <1>1, <1>14 DEF Drop
<1>4. n = Len(old) /\ k <= n /\ k \in Nat
  BY <1>3, <1>14
<1>5. PICK q : q = SubSeq(old, k + 1, n)
  OBVIOUS
<1>6. PICK m \in 1 .. n + 1 : m = k + 1
  BY <1>3, <1>4
<1>7. \A i \in m .. n : old[i] \in Frame
  BY <1>2, <1>4
<1>8. /\ q \in Seq(Frame) /\ Len(q) = (IF m <= n THEN n - m + 1 ELSE 0)
      /\ \A i \in 1 .. n - m + 1 : q[i] = old[m + i - 1]
  BY <1>4, <1>5, <1>6, <1>7, SubSeqProperties
<1>9. DOMAIN q = 1 .. Len(q)
  BY <1>8, LenProperties
<1>10. ASSUME NEW i \in DOMAIN q
       PROVE  m + i - 1 \in DOMAIN old /\ q[i] = old[m + i - 1]
  <2>1. m \in Nat /\ Len(q) \in Nat /\ i \in 1 .. Len(q) /\ m <= n
    BY <1>6, <1>8, <1>9
  <2>2. i \in 1 .. n - m + 1
    BY <1>8, <2>1
  <2>3. m + i - 1 \in 1 .. n
    BY <1>6, <2>1, <2>2
  <2> QED
    BY <1>2, <1>4, <1>8, <2>2, <2>3
<1>11. down' = [down EXCEPT ![d] = q]
  BY <1>1, <1>3, <1>4, <1>5
<1>12. down' \in [Devices -> Seq(Frame)]
  BY <1>8, <1>11 DEF Types
<1>13. \A e \in Devices : down'[e] = (IF e = d THEN q ELSE down[e])
  BY <1>11 DEF Types
<1>15. ASSUME NEW e \in Devices, NEW i \in DOMAIN down'[e]
       PROVE  \E l \in DOMAIN down[e] : down'[e][i] = down[e][l]
  <2>1. CASE e = d
    <3>1. i \in DOMAIN q /\ down'[e] = q /\ down[e] = old
      BY <1>1, <1>13, <2>1
    <3> QED
      BY <1>10, <3>1
  <2>2. CASE e # d
    BY <1>13, <2>2
  <2> QED
    BY <2>1, <2>2
<1> QED
  BY <1>12, <1>15, BeginsKept

LEMMA TailHolds ==
  ASSUME Types, Grows, Begins, NEW d \in Devices, DeviceReads(d)
  PROVE  /\ down' \in [Devices -> Seq(Frame)] /\ Begins'
         /\ Head(down[d]) \in Frame
         /\ Head(down[d]).type = "begin" => Said(Head(down[d]).ver, Head(down[d]).sha)
<1>1. down[d] \in Seq(Frame) /\ down[d] # << >>
  BY DEF Types, DeviceReads
<1>2. PICK q : q = Tail(down[d])
  OBVIOUS
<1>3. /\ q \in Seq(Frame) /\ (\A i \in DOMAIN q : i + 1 \in DOMAIN down[d] /\ q[i] = down[d][i + 1])
      /\ 1 \in DOMAIN down[d] /\ Head(down[d]) = down[d][1] /\ Head(down[d]) \in Frame
  BY <1>1, <1>2, QueueOps
<1>4. down' = [down EXCEPT ![d] = q]
  BY <1>2 DEF DeviceReads
<1>5. down' \in [Devices -> Seq(Frame)]
  BY <1>3, <1>4 DEF Types
<1>6. \A e \in Devices : down'[e] = (IF e = d THEN q ELSE down[e])
  BY <1>4 DEF Types
<1>7. Begins'
  BY <1>3, <1>5, <1>6, BeginsKept, SMTT(30)
<1>8. Head(down[d]).type = "begin" => Said(Head(down[d]).ver, Head(down[d]).sha)
  BY <1>3 DEF Begins
<1> QED
  BY <1>3, <1>5, <1>7, <1>8

LEMMA BeginsHold ==
  ASSUME Types, Requests, Grows, Begins, Next
  PROVE  down' \in [Devices -> Seq(Frame)] /\ Begins'
<1>1. ASSUME NEW c \in Calls, Open(c) PROVE down' \in [Devices -> Seq(Frame)] /\ Begins'
  <2>1. call[c].ver \in Versions /\ call[c].of \in Uploads /\ Said(call[c].ver, call[c].of)
    BY <1>1 DEF Open, Requests, Knows, Said
  <2>2. PICK f : f = [type |-> "begin", ver |-> call[c].ver, sha |-> call[c].of]
    OBVIOUS
  <2>3. f \in Frame /\ f.ver = call[c].ver /\ f.sha = call[c].of
    BY <2>1, <2>2 DEF Frame
  <2>4. skill'.there => sha'[f.ver] = f.sha
    BY <2>1, <2>3, SaidKept
  <2>5. Sent(Target(c), f) \/ Refused(Target(c), f) \/ down' = down
    BY <1>1, <2>2 DEF Open
  <2>6. Target(c) \in Devices
    BY <1>1, TargetIs DEF Open
  <2> QED
    BY <2>3, <2>4, <2>5, <2>6, Offered, SendHolds
<1>2. ASSUME NEW c \in Calls, NEW p \in call[c].pend, SendChunk(c, p[1], p[2])
      PROVE  down' \in [Devices -> Seq(Frame)] /\ Begins'
  <2>0. p[1] \in Devices /\ p[2] \in Chunk
    BY DEF Types, Call
  <2>1. PICK f : f = [type |-> "chunk", c |-> p[2]]
    OBVIOUS
  <2>2. f \in Frame /\ f.type # "begin"
    BY <2>0, <2>1 DEF Frame
  <2>3. Sent(p[1], f) \/ Refused(p[1], f)
    BY <1>2, <2>1 DEF SendChunk
  <2> QED
    BY <2>0, <2>2, <2>3, Offered, SendHolds
<1>3. ASSUME NEW c \in Calls, SendEnd(c) PROVE down' \in [Devices -> Seq(Frame)] /\ Begins'
  <2>1. PICK f : f = [type |-> "end"] /\ f \in Frame /\ f.type # "begin"
    BY PlainFrames
  <2>2. Sent(Target(c), f) \/ Refused(Target(c), f) \/ down' = down
    BY <1>3, <2>1 DEF SendEnd
  <2>3. Target(c) \in Devices
    BY <1>3, TargetIs DEF SendEnd, AllSent
  <2> QED
    BY <2>1, <2>2, <2>3, Offered, SendHolds
<1>4. ASSUME NEW d \in Devices, RetryFleet(d) PROVE down' \in [Devices -> Seq(Frame)] /\ Begins'
  <2>1. PICK f : f = [type |-> "retry"] /\ f \in Frame /\ f.type # "begin"
    BY PlainFrames
  <2>2. Enqueue(d, f)
    BY <1>4, <2>1 DEF RetryFleet, RetryFailedAgents
  <2> QED
    BY <2>1, <2>2, SendHolds
<1>5. CASE DisableFleet \/ DeleteFleet \/ EnableFleet
  BY <1>5, FleetHolds DEF DisableFleet, DeleteFleet, EnableFleet
<1>6. ASSUME NEW d \in Devices, Connect(d) \/ DeviceReads(d) \/ Drop(d)
      PROVE  down' \in [Devices -> Seq(Frame)] /\ Begins'
  BY <1>6, ConnectHolds, TailHolds, DropHolds
<1>7. ASSUME \/ \E c \in Calls :
                  \/ Copy(c) \/ CreateVersion(c) \/ SetLatestVersion(c) \/ UpdateSkill(c)
                  \/ EnableRefused(c) \/ GetVersion(c) \/ SetDeviceSkill(c) \/ ReadChunk(c)
                  \/ ReadError(c) \/ \E v \in Versions : Install(c, v) \/ \E of \in Uploads : Publish(c, v, of)
                  \/ \E visibility \in {"public", "restricted"} : ReadSkill(c, visibility)
                  \/ \E u \in Users, d \in Devices : EnableSkill(c, u, d)
             \/ \E visibility \in {"public", "restricted"} : UpdateVisibility(visibility)
             \/ \E u \in Users : GrantVisibility(u) \/ RevokeVisibility(u)
             \/ DeleteSkill
      PROVE  down' = down
  BY <1>7 DEF Copy, CreateVersion, SetLatestVersion, UpdateSkill, EnableRefused, GetVersion,
     SetDeviceSkill, ReadChunk, ReadError, Install, Publish, ReadSkill, EnableSkill, UpdateVisibility,
     GrantVisibility, RevokeVisibility, DeleteSkill, tunnel
<1>8. CASE down' = down
  BY <1>8, BeginsKept DEF Types
<1> QED
  BY <1>1, <1>2, <1>3, <1>4, <1>5, <1>6, <1>7, <1>8 DEF Next, Step
\* what a step that leaves the devices alone does to them
LEMMA DevicesSame ==
  ASSUME Types, Grows, Received, Stored, buf' = buf, cache' = cache
  PROVE  /\ buf' \in [Devices -> {None} \cup Buffer] /\ cache' \in [Devices -> {None} \cup Cached]
         /\ Received' /\ Stored'
<1>1. Received'
  <2>1. ASSUME NEW d \in Devices, buf[d] # None
        PROVE  skill'.there => sha'[buf[d].ver] = buf[d].sha
    <3>1. buf[d].ver \in Versions /\ buf[d].sha \in Uploads
      BY <2>1 DEF Types, Buffer
    <3>2. Said(buf[d].ver, buf[d].sha)
      BY <2>1 DEF Received
    <3> QED
      BY <3>1, <3>2, SaidKept
  <2> QED
    BY <2>1 DEF Received, Said
<1>2. Stored'
  <2>1. ASSUME NEW d \in Devices, cache[d] # None
        PROVE  \E of \in Uploads : /\ Whole(cache[d].data, of)
                                   /\ skill'.there => sha'[cache[d].ver] = of
    <3>1. cache[d].ver \in Versions
      BY <2>1 DEF Types, Cached
    <3>2. PICK of \in Uploads : Whole(cache[d].data, of) /\ Said(cache[d].ver, of)
      BY <2>1 DEF Stored
    <3> QED
      BY <3>1, <3>2, SaidKept
  <2> QED
    BY <2>1 DEF Stored, Said, Whole
<1> QED
  BY <1>1, <1>2 DEF Types

LEMMA BufChange ==
  ASSUME Types, Received, Stored, skill' = skill, sha' = sha, cache' = cache, NEW d \in Devices,
         NEW b \in Buffer, Said(b.ver, b.sha), buf' = [buf EXCEPT ![d] = b]
  PROVE  /\ buf' \in [Devices -> {None} \cup Buffer] /\ cache' \in [Devices -> {None} \cup Cached]
         /\ Received' /\ Stored'
<1>1. \A e \in Devices : buf'[e] = (IF e = d THEN b ELSE buf[e])
  BY DEF Types
<1>2. Received'
  BY <1>1 DEF Received, Said
<1>3. Stored'
  BY DEF Stored, Said, Whole
<1> QED
  BY <1>2, <1>3 DEF Types

LEMMA CacheChange ==
  ASSUME Types, Received, Stored, skill' = skill, sha' = sha, NEW d \in Devices,
         buf' = buf \/ buf' = [buf EXCEPT ![d] = None], NEW b,
         \/ b = None
         \/ b \in Cached /\ \E of \in Uploads : Whole(b.data, of) /\ Said(b.ver, of),
         cache' = [cache EXCEPT ![d] = b]
  PROVE  /\ buf' \in [Devices -> {None} \cup Buffer] /\ cache' \in [Devices -> {None} \cup Cached]
         /\ Received' /\ Stored'
<1>1. \A e \in Devices : cache'[e] = (IF e = d THEN b ELSE cache[e])
  BY DEF Types
<1>2. Received'
  <2>1. \A e \in Devices : buf'[e] \in {buf[e], None}
    BY DEF Types
  <2> QED
    BY <2>1 DEF Received, Said
<1>3. Stored'
  <2>1. ASSUME NEW e \in Devices, cache'[e] # None
        PROVE  \E of \in Uploads : /\ Whole(cache'[e].data, of)
                                   /\ skill'.there => sha'[cache'[e].ver] = of
    <3>1. CASE e = d
      BY <1>1, <2>1, <3>1 DEF Said
    <3>2. CASE e # d
      <4>1. cache'[e] = cache[e]
        BY <1>1, <3>2
      <4>2. PICK of \in Uploads : Whole(cache[e].data, of) /\ Said(cache[e].ver, of)
        BY <2>1, <4>1 DEF Stored
      <4> QED
        BY <4>1, <4>2 DEF Said
    <3> QED
      BY <3>1, <3>2
  <2> QED
    BY <2>1 DEF Stored, Said, Whole
<1>4. buf' \in [Devices -> {None} \cup Buffer]
  BY DEF Types
<1>5. cache' \in [Devices -> {None} \cup Cached]
  BY DEF Types
<1> QED
  BY <1>2, <1>3, <1>4, <1>5
LEMMA DeviceHolds ==
  ASSUME Types, Begins, Received, Stored, Grows, NEW d \in Devices, DeviceReads(d)
  PROVE  /\ buf' \in [Devices -> {None} \cup Buffer] /\ cache' \in [Devices -> {None} \cup Cached]
         /\ Received' /\ Stored'
<1>0. skill' = skill /\ sha' = sha
  BY DEF DeviceReads, catalog
<1>1. PICK f : /\ f = Head(down[d]) /\ f \in Frame
               /\ f.type = "begin" => Said(f.ver, f.sha)
  BY TailHolds
<1>2. CASE f.type = "begin"
  <2>1. f.ver \in Versions /\ f.sha \in Uploads
    BY <1>1, <1>2 DEF Frame
  <2>2. PICK b : b = [ver |-> f.ver, sha |-> f.sha, got |-> << >>]
    OBVIOUS
  <2>3. b \in Buffer /\ b.ver = f.ver /\ b.sha = f.sha
    BY <2>1, <2>2 DEF Buffer
  <2>4. cache' = cache /\ buf' = [buf EXCEPT ![d] = b]
    BY <1>1, <1>2, <2>2 DEF DeviceReads, HandleEnd
  <2> QED
    BY <1>0, <1>1, <1>2, <2>3, <2>4, BufChange
<1>3. CASE f.type = "chunk"
  <2>1. cache' = cache
    BY <1>1, <1>3 DEF DeviceReads
  <2>2. CASE buf[d] = None
    <3>1. buf' = buf
      BY <1>1, <1>3, <2>2 DEF DeviceReads
    <3> QED
      BY <2>1, <3>1, DevicesSame
  <2>3. CASE buf[d] # None
    <3>1. f.c \in Chunk
      BY <1>1, <1>3 DEF Frame
    <3>2. buf[d] \in Buffer
      BY <2>3 DEF Types
    <3>3. PICK got : got = Append(buf[d].got, f.c)
      OBVIOUS
    <3>4. got \in Seq(Chunk)
      BY <3>1, <3>2, <3>3, QueueOps DEF Buffer
    <3>5. PICK b : b = [buf[d] EXCEPT !.got = got]
      OBVIOUS
    <3>6. b \in Buffer /\ b.ver = buf[d].ver /\ b.sha = buf[d].sha
      BY <3>2, <3>4, <3>5 DEF Buffer
    <3>7. buf' = [buf EXCEPT ![d].got = Append(@, f.c)]
      BY <1>1, <1>3, <2>3 DEF DeviceReads
    <3>8. buf' = [buf EXCEPT ![d] = b]
      BY <3>2, <3>3, <3>5, <3>7 DEF Types, Buffer
    <3>9. Said(b.ver, b.sha)
      BY <2>3, <3>6 DEF Received
    <3> QED
      BY <1>0, <2>1, <3>6, <3>8, <3>9, BufChange
  <2> QED
    BY <2>2, <2>3
<1>4. CASE f.type = "end"
  <2>1. HandleEnd(d)
    BY <1>1, <1>4 DEF DeviceReads
  <2>2. CASE buf[d] # None /\ Whole(buf[d].got, buf[d].sha)
    <3>1. PICK b : b = [ver |-> buf[d].ver, data |-> buf[d].got, st |-> "cached"]
      OBVIOUS
    <3>2. buf[d] \in Buffer /\ Said(buf[d].ver, buf[d].sha)
      BY <2>2 DEF Types, Received
    <3>3. /\ b \in Cached /\ b.ver = buf[d].ver /\ b.data = buf[d].got /\ buf[d].sha \in Uploads
      BY <3>1, <3>2 DEF Buffer, Cached
    <3>4. \E of \in Uploads : Whole(b.data, of) /\ Said(b.ver, of)
      BY <2>2, <3>2, <3>3
    <3>5. buf' = [buf EXCEPT ![d] = None] /\ cache' = [cache EXCEPT ![d] = b]
      BY <2>1, <2>2, <3>1 DEF HandleEnd
    <3> QED
      BY <1>0, <3>3, <3>4, <3>5, CacheChange
  <2>3. CASE ~ (buf[d] # None /\ Whole(buf[d].got, buf[d].sha))
    <3>1. buf' = [buf EXCEPT ![d] = None] /\ cache' = cache
      BY <2>1, <2>3 DEF HandleEnd
    <3>2. PICK b : b = cache[d]
      OBVIOUS
    <3>3. cache' = [cache EXCEPT ![d] = b]
      BY <3>1, <3>2 DEF Types
    <3>4. b = None \/ (b \in Cached /\ \E of \in Uploads : Whole(b.data, of) /\ Said(b.ver, of))
      BY <3>2 DEF Types, Stored
    <3> QED
      BY <1>0, <3>1, <3>3, <3>4, CacheChange
  <2> QED
    BY <2>2, <2>3
<1>5. CASE f.type \notin {"begin", "chunk", "end"}
  <2>1. buf' = buf
    BY <1>1, <1>5 DEF DeviceReads
  <2>2. CASE cache' = cache
    BY <2>1, <2>2, DevicesSame
  <2>3. CASE cache' # cache
    <3>1. PICK st \in Outcomes(d, f.type) : Apply(d, f.type, st) /\ cache[d] # None
      BY <1>1, <1>5, <2>3 DEF DeviceReads
    <3>2. f.type \in {"disable", "enable", "delete", "retry"}
      BY <1>1, <1>5 DEF Frame
    <3>3. cache[d] \in Cached
      BY <3>1 DEF Types
    <3>4. CASE f.type = "delete" /\ st = "deleted"
      <4>1. PICK b : b = None
        OBVIOUS
      <4>2. cache' = [cache EXCEPT ![d] = b]
        BY <3>1, <3>4, <4>1 DEF Apply
      <4> QED
        BY <1>0, <2>1, <4>1, <4>2, CacheChange
    <3>5. CASE ~ (f.type = "delete" /\ st = "deleted")
      <4>1. st \in {"cached", "installed", "disabled", "deleting", "error"}
        BY <3>1, <3>2, <3>3, <3>5 DEF Outcomes, Cached
      <4>2. PICK b : b = [cache[d] EXCEPT !.st = st]
        OBVIOUS
      <4>3. b \in Cached /\ b.ver = cache[d].ver /\ b.data = cache[d].data
        BY <3>3, <4>1, <4>2 DEF Cached
      <4>4. cache' = [cache EXCEPT ![d].st = st]
        BY <3>1, <3>5 DEF Apply
      <4>5. cache' = [cache EXCEPT ![d] = b]
        BY <4>2, <4>4 DEF Types
      <4>6. \E of \in Uploads : Whole(b.data, of) /\ Said(b.ver, of)
        BY <3>1, <4>3 DEF Stored
      <4> QED
        BY <1>0, <2>1, <4>3, <4>5, <4>6, CacheChange
    <3> QED
      BY <3>4, <3>5
  <2> QED
    BY <2>2, <2>3
<1> QED
  BY <1>2, <1>3, <1>4, <1>5

LEMMA DevicesHold ==
  ASSUME Types, Begins, Received, Stored, Grows, Next
  PROVE  /\ buf' \in [Devices -> {None} \cup Buffer] /\ cache' \in [Devices -> {None} \cup Cached]
         /\ Received' /\ Stored'
<1>1. CASE \E d \in Devices : DeviceReads(d)
  BY <1>1, DeviceHolds
<1>2. CASE ~ \E d \in Devices : DeviceReads(d)
  <2>1. buf' = buf /\ cache' = cache
    BY <1>2 DEF Next, Step, Copy, CreateVersion, SetLatestVersion, UpdateSkill, EnableRefused,
       GetVersion, SetDeviceSkill, Open, ReadChunk, ReadError, SendEnd, AllSent, SendChunk, Install, Publish, ReadSkill,
       EnableSkill, UpdateVisibility, GrantVisibility, RevokeVisibility, DeleteSkill, DisableFleet,
       DeleteFleet, EnableFleet, FleetAction, RetryFleet, Connect, Drop, device
  <2> QED
    BY <2>1, DevicesSame
<1> QED
  BY <1>1, <1>2

LEMMA LinksHold ==
  ASSUME Types, Requests, Next
  PROVE  link' \in [Devices -> BOOLEAN] /\ cut' \subseteq Devices
<1>1. CASE \E d \in Devices : Connect(d) \/ Drop(d)
  BY <1>1 DEF Connect, Drop, Types
<1>2. ASSUME NEW c \in Calls, Open(c) \/ SendEnd(c) \/ ReadError(c)
      PROVE  link' = link /\ cut' \subseteq Devices
  <2>1. Target(c) \in Devices
    BY <1>2, TargetIs DEF Open, SendEnd, AllSent, ReadError
  <2>2. link' = link /\ cut' \in {cut, cut \cup {Target(c)}}
    BY <1>2 DEF Open, SendEnd, ReadError, Sent, Refused
  <2> QED
    BY <2>1, <2>2 DEF Types
<1>3. ASSUME NEW c \in Calls, NEW p \in call[c].pend, SendChunk(c, p[1], p[2])
      PROVE  link' = link /\ cut' \subseteq Devices
  <2>1. p[1] \in Devices
    BY DEF Types, Call
  <2>2. link' = link /\ cut' \in {cut, cut \cup {p[1]}}
    BY <1>3 DEF SendChunk, Sent, Refused
  <2> QED
    BY <2>1, <2>2 DEF Types
<1>4. ASSUME \/ \E c \in Calls :
                  \/ Copy(c) \/ CreateVersion(c) \/ SetLatestVersion(c) \/ UpdateSkill(c)
                  \/ EnableRefused(c) \/ GetVersion(c) \/ SetDeviceSkill(c) \/ ReadChunk(c)
                  \/ \E v \in Versions : Install(c, v) \/ \E of \in Uploads : Publish(c, v, of)
                  \/ \E visibility \in {"public", "restricted"} : ReadSkill(c, visibility)
                  \/ \E u \in Users, d \in Devices : EnableSkill(c, u, d)
             \/ \E visibility \in {"public", "restricted"} : UpdateVisibility(visibility)
             \/ \E u \in Users : GrantVisibility(u) \/ RevokeVisibility(u)
             \/ DeleteSkill \/ DisableFleet \/ DeleteFleet \/ EnableFleet
             \/ \E d \in Devices : RetryFleet(d) \/ DeviceReads(d)
      PROVE  link' = link /\ cut' = cut
  BY <1>4 DEF Copy, CreateVersion, SetLatestVersion, UpdateSkill, EnableRefused, GetVersion,
     SetDeviceSkill, ReadChunk, Install, Publish, ReadSkill, EnableSkill, UpdateVisibility,
     GrantVisibility, RevokeVisibility, DeleteSkill, DisableFleet, DeleteFleet, EnableFleet,
     FleetAction, RetryFleet, DeviceReads, tunnel
<1>5. CASE link' = link /\ cut' = cut
  BY <1>5 DEF Types
<1> QED
  BY <1>1, <1>2, <1>3, <1>4, <1>5 DEF Next, Step, Types

-----------------------------------------------------------------------------
(* Theorems                                                                *)

LEMMA NextInv == Inv /\ [Next]_vars => Inv'
<1> SUFFICES ASSUME Inv, [Next]_vars PROVE Inv'
  OBVIOUS
<1>0. Types /\ Kept /\ Requests /\ Begins /\ Received /\ Stored
  BY DEF Inv, Told
<1>1. CASE Next
  <2>1. CatalogTyped /\ Grows /\ Kept' /\ row' \in [Devices -> {None} \cup Wanted]
    BY <1>0, <1>1, CatalogHolds
  <2>2. call' \in [Calls -> Call] /\ Requests'
    BY <1>0, <1>1, <2>1, RequestsHold
  <2>3. down' \in [Devices -> Seq(Frame)] /\ Begins'
    BY <1>0, <1>1, <2>1, BeginsHold
  <2>4. /\ buf' \in [Devices -> {None} \cup Buffer] /\ cache' \in [Devices -> {None} \cup Cached]
        /\ Received' /\ Stored'
    BY <1>0, <1>1, <2>1, DevicesHold
  <2>5. Types'
    BY <1>0, <1>1, <2>1, <2>2, <2>3, <2>4, LinksHold DEF Types, CatalogTyped
  <2>6. Told'
    BY <2>3, <2>4 DEF Told, Begins, Received, Stored
  <2> QED
    BY <2>1, <2>2, <2>5, <2>6 DEF Inv
<1>2. CASE UNCHANGED vars
  <2>1. Types' /\ Kept'
    BY <1>0, <1>2 DEF vars, catalog, tunnel, device, Types, Kept
  <2>2. Requests'
    BY <1>0, <1>2 DEF vars, catalog, tunnel, device, Requests
  <2>3. Told'
    BY <1>0, <1>2 DEF vars, catalog, tunnel, device, Told, Begins, Received, Stored, Said, Whole
  <2> QED
    BY <2>1, <2>2, <2>3 DEF Inv
<1> QED
  BY <1>1, <1>2

\* Rows are well formed and name versions that are in the catalog, although
\* PublishVersion, DeleteSkill, handleUpdateSkill and the fleet install read
\* and write in statements of their own: the rows of versions go only with the
\* skill, which the foreign keys keep while a device has a row.
THEOREM CatalogHoldsTogether == Spec => []CatalogSound
<1>1. Inv => CatalogSound
  <2> SUFFICES ASSUME Inv PROVE CatalogSound
    OBVIOUS
  <2>1. Types /\ Kept
    BY DEF Inv
  <2>2. TypeOK
    <3>1. \A d \in Devices : \A i \in DOMAIN down[d] : down[d][i] \in Frame
      BY <2>1, QueueOps DEF Types
    <3> QED
      BY <2>1, <3>1 DEF Types, TypeOK, Wanted
  <2>3. WantedIsPublished
    BY <2>1 DEF Types, Kept, Wanted, WantedIsPublished, Published
  <2>4. LatestIsPublished
    BY <2>1 DEF Types, Kept, Skill, LatestIsPublished, Published
  <2> QED
    BY <2>2, <2>3, <2>4 DEF CatalogSound
<1> QED
  BY InitInv, NextInv, <1>1, PTL DEF Spec

\* A device caches as a version only what was published as that version,
\* whatever dispatches are mixed, chunks reordered and artifacts overwritten:
\* the hash travels with SKILL_DISPATCH_BEGIN from the row of the version,
\* which keeps it while the skill exists, and handle_dispatch_end checks it.
THEOREM CacheIsPublished == Spec => []CachedIsPublished
<1>1. Inv => CachedIsPublished
  <2> SUFFICES ASSUME Inv PROVE CachedIsPublished
    OBVIOUS
  <2>1. Types /\ Kept /\ Stored
    BY DEF Inv, Told
  <2>2. ASSUME NEW d \in Devices, cache[d] # None
        PROVE  \E of \in Uploads : /\ Whole(cache[d].data, of)
                                   /\ cache[d].ver \in Published => sha[cache[d].ver] = of
    <3>1. PICK of \in Uploads : Whole(cache[d].data, of) /\ Said(cache[d].ver, of)
      BY <2>1, <2>2 DEF Stored
    <3>2. cache[d].ver \in Published => sha[cache[d].ver] = of
      BY <2>1, <3>1 DEF Published, Kept, Said
    <3> QED
      BY <3>1, <3>2
  <2> QED
    BY <2>2 DEF CachedIsPublished
<1> QED
  BY InitInv, NextInv, <1>1, PTL DEF Spec
=============================================================================
