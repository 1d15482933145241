----------------------------- MODULE JobInputs -----------------------------
(***************************************************************************)
(* What a render request takes with it, and what becomes of it until the   *)
(* job runs.  handleRenderRequest copies the project's connections, reads  *)
(* a template and presigns URLs for its assets; meanwhile and afterwards   *)
(* users connect, disconnect, edit and delete, tokens expire and are       *)
(* refreshed, and dead letters are replayed (orchestrator/, and in         *)
(* distributor/ the TikTok adapter).                                       *)
(*                                                                         *)
(* One project is modelled, with a template ID that the system has a       *)
(* template for, a layer with one file, and one asset.  A background that  *)
(* the request brings is a URL of its own and left out.  The unit of time  *)
(* is long against a request or a delivery and short against the lives of  *)
(* URLs and tokens.  The rows and the queues of a job are Pipeline's,      *)
(* times within a delivery are Distribution's.                             *)
(***************************************************************************)
EXTENDS Naturals, FiniteSets

CONSTANTS
  Requests,    \* requests, and the jobs that they become
  NoRow,       \* no connection, no template, no file
  Lifetime,    \* of a presigned URL, 15 minutes in the code
  TokenLife,   \* of an access token
  MaxTime,     \* bound: the clock
  MaxEdits,    \* bound: what users change
  MaxTokens,   \* bound: tokens issued
  MaxFaults    \* bound: statements and requests that fail half-way

ASSUME JobInputsAssumption ==
  /\ {Lifetime, MaxTime, MaxEdits, MaxFaults} \subseteq Nat
  /\ {TokenLife, MaxTokens} \subseteq Nat \ {0}
  /\ NoRow \notin {"system", "project", "payload"}

VARIABLES
  now,
  key,          \* the project's key
  rows,         \* connections: a configuration for each platform
  own,          \* templates: the project's of this ID
  there,        \* the asset is in storage, where the API puts it
  issued,       \* the tokens that TikTok has issued
  dies,         \* when each access token expires
  refreshable,  \* the refresh tokens that TikTok takes
  pc,           \* where each request and its job is
  copy,         \* the destinations in its message
  layer,        \* the file of its layer, as the template names it
  file,         \* and as its message does
  using,        \* the access token of the delivery at work
  videos,       \* the jobs whose work directory has their video
  moments,      \* history: the database in the meantime
  stayed,       \* history: the asset was there ever since
  hit,          \* history: the requests and jobs that a fault has hit
  edits

dbVars == <<key, rows, own, there>>
tokenVars == <<issued, dies, refreshable>>
jobVars == <<pc, copy, layer, file, using, videos>>
historyVars == <<moments, stayed, hit>>
vars == <<now, dbVars, tokenVars, jobVars, historyVars, edits>>

\* connections is unique on (project_id, platform).  YouTube has a callback
\* like TikTok's, and tokens that are refreshed without being replaced.
Platforms == {"tiktok", "webhook"}
Config(access, refresh) == [access |-> access, refresh |-> refresh]

\* sanitizeKey: lower case, no spaces.
Keys == {"news", "Daily News"}
sanitizeKey(k) == IF k = "Daily News" THEN "daily_news" ELSE k

\* The file of a layer: {{SYSTEM_ASSETS}}/logo.png or {{PROJECT_ASSETS}}/logo.png,
\* or {{PROJECT_ASSETS}}/{{.logo}} for a name that the payload gives.
Files == {"system", "project", "payload"}
SystemTemplate == "system"

\* SELECT ... ORDER BY project_id DESC NULLS LAST LIMIT 1: the project's own
\* template comes before the system's.
\* Seeded fault: NULLS FIRST.
ChosenFirst == SystemTemplate
Chosen == IF own # NoRow THEN own ELSE SystemTemplate

\* Where the API puts an upload, and deletes.
Uploaded == <<sanitizeKey(key), "logo.png">>
SystemAsset == <<"system", "logo.png">>
Bucket == {SystemAsset} \cup (IF there THEN {Uploaded} ELSE {})

\* createFinalTemplate: what the placeholders become.  The URL is presigned
\* before the payload is filled in, and has no braces left to fill.
\* Seeded fault: a project's assets are looked for beside the system's.
ObjectShared(f) == SystemAsset
Object(f) ==
  CASE f = "system" -> SystemAsset
    [] f = "project" -> <<key, "logo.png">>
    [] OTHER -> <<key, "%7B%7B.logo%7D%7D">>

Presigned(f) == [object |-> Object(f), until |-> now + Lifetime]

Init ==
  /\ now = 0
  /\ key \in Keys
  /\ rows = [p \in Platforms |-> IF p = "webhook" THEN Config(0, 0) ELSE Config(1, 1)]
  /\ own = NoRow /\ there = FALSE
  /\ issued = 1
  /\ dies = [n \in 1..MaxTokens |-> IF n = 1 THEN TokenLife ELSE 0]
  /\ refreshable = {1}
  /\ pc = [j \in Requests |-> "idle"]
  /\ copy = [j \in Requests |-> [p \in Platforms |-> NoRow]]
  /\ layer = [j \in Requests |-> NoRow]
  /\ file = [j \in Requests |-> NoRow]
  /\ using = [j \in Requests |-> 0]
  /\ videos = {}
  /\ moments = [j \in Requests |-> {}]
  /\ stayed = {} /\ hit = {}
  /\ edits = 0

Goto(j, place) == pc' = [pc EXCEPT ![j] = place]

\* In a request: its handler has not dispatched it yet.
Asking == {j \in Requests : pc[j] \in {"arrived", "connected", "chosen", "final"}}

-----------------------------------------------------------------------------
(* What users do meanwhile, each one statement or one call to storage.     *)

\* The database as a request may see it.
Database == [rows |-> rows, template |-> IF own # NoRow THEN own ELSE SystemTemplate]

Edit ==
  /\ edits < MaxEdits
  /\ edits' = edits + 1
  /\ moments' = [j \in Requests |-> IF j \in Asking THEN moments[j] \cup {Database'}
                                    ELSE moments[j]]
  /\ stayed' = IF there' THEN stayed ELSE {}
  /\ UNCHANGED <<now, key, jobVars, hit>>

\* Bound: rows that no request will read any more are left alone.
StillRead == \E j \in Requests : pc[j] = "idle" \/ j \in Asking

EditConnection(p, config) ==
  /\ rows' = [rows EXCEPT ![p] = config]
  /\ UNCHANGED <<own, there>>
  /\ Edit

EditTemplate(f) ==
  /\ StillRead
  /\ own' = f
  /\ UNCHANGED <<rows, there, tokenVars>>
  /\ Edit

EditAsset(uploaded) ==
  /\ there' = uploaded
  /\ UNCHANGED <<rows, own, tokenVars>>
  /\ Edit

\* handleTikTokOAuthCallback: the code is exchanged for tokens, and the row
\* is overwritten.  TikTok may end what it granted before.
TikTokCallback ==
  /\ issued < MaxTokens
  /\ issued' = issued + 1
  /\ dies' = [dies EXCEPT ![issued'] = now + TokenLife]
  /\ \E kept \in {{}, refreshable} : refreshable' = kept \cup {issued'}
  /\ EditConnection("tiktok", Config(issued', issued'))

\* A second webhook is refused by the unique constraint.
CreateConnection ==
  /\ StillRead
  /\ rows["webhook"] = NoRow
  /\ EditConnection("webhook", Config(0, 0))
  /\ UNCHANGED tokenVars

DeleteConnection ==
  /\ StillRead
  /\ \E p \in Platforms : rows[p] # NoRow /\ EditConnection(p, NoRow)
  /\ UNCHANGED tokenVars

\* POST refuses an ID that the project has; PUT and the admin's upsert replace.
CreateTemplate == own = NoRow /\ \E f \in Files : EditTemplate(f)
UpdateTemplate == own # NoRow /\ \E f \in Files \ {own} : EditTemplate(f)
DeleteTemplate == own # NoRow /\ EditTemplate(NoRow)

\* The client PUTs the file to the URL that handleGetUploadURL signed.  An
\* asset is deleted by itself or with its folder.
UploadAsset == ~there /\ EditAsset(TRUE)
DeleteAsset == there /\ EditAsset(FALSE)

-----------------------------------------------------------------------------
(* handleRenderRequest and handleDashboardRenderRequest.                   *)

WorldSame == UNCHANGED <<now, dbVars, tokenVars, edits>>
NoFault == UNCHANGED hit
Fault(j) ==
  /\ Cardinality(hit) < MaxFaults
  /\ hit' = hit \cup {j}

Arrive(j) ==
  /\ pc[j] = "idle"
  /\ Goto(j, "arrived")
  /\ moments' = [moments EXCEPT ![j] = {Database}]
  /\ stayed' = IF there THEN stayed \cup {j} ELSE stayed
  /\ WorldSame /\ NoFault
  /\ UNCHANGED <<copy, layer, file, using, videos>>

Asked == WorldSame /\ UNCHANGED <<using, videos, stayed>>

Connected == {p \in Platforms : rows[p] # NoRow}
Take(j, read) ==
  copy' = [copy EXCEPT ![j] = [p \in Platforms |-> IF p \in read THEN rows[p] ELSE NoRow]]

\* getDestinationsForProject: one SELECT, all rows.
\* Seeded fault: "if rows.Next()" for "for rows.Next()".
AllRowsFirst == {{p} : p \in Connected}
AllRows == {Connected}

ReadDestinations(j) ==
  /\ pc[j] = "arrived"
  /\ \E read \in AllRows : read # {} /\ Take(j, read)
  /\ Goto(j, "connected")
  /\ Asked /\ NoFault
  /\ UNCHANGED <<layer, file, moments>>

\* The connection to the database breaks between two rows: rows.Next returns
\* false, and rows.Err, which would tell, is not asked.
ReadSomeDestinations(j) ==
  /\ pc[j] = "arrived"
  /\ \E read \in SUBSET Connected \ {{}, Connected} : Take(j, read)
  /\ Goto(j, "connected")
  /\ Asked /\ Fault(j)
  /\ UNCHANGED <<layer, file, moments>>

ReadTemplate(j) ==
  /\ pc[j] = "connected"
  /\ layer' = [layer EXCEPT ![j] = Chosen]
  /\ Goto(j, "chosen")
  /\ Asked /\ NoFault
  /\ UNCHANGED <<copy, file, moments>>

CreateFinalTemplate(j) ==
  /\ pc[j] = "chosen"
  /\ file' = [file EXCEPT ![j] = Presigned(layer[j])]
  /\ Goto(j, "final")
  /\ Asked /\ NoFault
  /\ UNCHANGED <<copy, layer, moments>>

\* The job's row and the entry: see Pipeline.
Dispatch(j) ==
  /\ pc[j] = "final"
  /\ Goto(j, "queued")
  /\ moments' = [moments EXCEPT ![j] = {}]
  /\ Asked /\ NoFault
  /\ UNCHANGED <<copy, layer, file>>

\* No connection, a statement that fails, a client that has gone.
Reject(j) ==
  /\ j \in Asking
  /\ Goto(j, "rejected")
  /\ copy' = [copy EXCEPT ![j] = [p \in Platforms |-> NoRow]]
  /\ layer' = [layer EXCEPT ![j] = NoRow]
  /\ file' = [file EXCEPT ![j] = NoRow]
  /\ moments' = [moments EXCEPT ![j] = {}]
  /\ stayed' = stayed \ {j}
  /\ WorldSame /\ NoFault
  /\ UNCHANGED <<using, videos>>

-----------------------------------------------------------------------------
(* The job: the renderer fetches the file, the distributor delivers.       *)

JobSame == UNCHANGED <<copy, layer, file, moments, stayed>>

Fetchable(f) == f.object \in Bucket /\ now <= f.until

\* downloadFileToPath: any status but 200 fails the job.
Fetch(j) ==
  /\ pc[j] = "queued"
  /\ Goto(j, IF Fetchable(file[j]) THEN "rendered" ELSE "unrendered")
  /\ videos' = IF Fetchable(file[j]) THEN videos \cup {j} ELSE videos
  /\ WorldSame /\ JobSame /\ NoFault
  /\ UNCHANGED using

\* cleanupWorkDir ends a delivery, whatever has come of it.
CleanUp(j) == videos' = videos \ {j}

DeliverOthers(j) ==
  /\ pc[j] = "rendered"
  /\ copy[j]["tiktok"] = NoRow
  /\ Goto(j, "complete") /\ CleanUp(j)
  /\ WorldSame /\ JobSame /\ NoFault
  /\ UNCHANGED using

\* The tokens that the message has brought.
Tokens(j) == copy[j]["tiktok"]

\* refreshTikTokAccessToken, with the message's refresh token.  TikTok may
\* replace it; the new one stays in the adapter's copy, which ends with it.
Refresh(j) ==
  /\ pc[j] = "rendered"
  /\ Tokens(j) # NoRow
  /\ Tokens(j).refresh \in refreshable
  /\ issued < MaxTokens
  /\ issued' = issued + 1
  /\ dies' = [dies EXCEPT ![issued'] = now + TokenLife]
  /\ \E kept \in {refreshable, (refreshable \ {Tokens(j).refresh}) \cup {issued'}} :
       refreshable' = kept
  /\ using' = [using EXCEPT ![j] = issued']
  /\ Goto(j, "upload")
  /\ JobSame /\ NoFault
  /\ UNCHANGED <<now, dbVars, videos, edits>>

\* "will try with existing token".
\* Seeded fault: it does not, and asks for the upload without a token.
ExistingNone(j) == 0
Existing(j) == Tokens(j).access

\* TikTok does not take the refresh token any more, or the request fails.
RefreshFails(j) ==
  /\ pc[j] = "rendered"
  /\ Tokens(j) # NoRow
  /\ \/ Tokens(j).refresh \notin refreshable /\ NoFault
     \/ Tokens(j).refresh \in refreshable /\ Fault(j)
  /\ using' = [using EXCEPT ![j] = Existing(j)]
  /\ Goto(j, "upload")
  /\ WorldSame /\ JobSame
  /\ UNCHANGED videos

Alive(access) == access \in 1..issued /\ now < dies[access]

\* The tokens have been refreshed before the adapter looks for the video.
Upload(j) ==
  /\ pc[j] = "upload"
  /\ Goto(j, IF j \notin videos THEN "lost"
             ELSE IF Alive(using[j]) THEN "complete" ELSE "refused")
  /\ CleanUp(j)
  /\ using' = [using EXCEPT ![j] = 0]
  /\ WorldSame /\ JobSame /\ NoFault

\* An operator replays the dead letter: the same message again, for a video
\* that has gone if it was the distributor's.
Replay(j) ==
  /\ pc[j] \in {"unrendered", "refused", "lost"}
  /\ Goto(j, IF pc[j] = "unrendered" THEN "queued" ELSE "rendered")
  /\ WorldSame /\ JobSame /\ NoFault
  /\ UNCHANGED <<using, videos>>

\* Deliveries take seconds: the clock waits for those at work.
Tick ==
  /\ now < MaxTime
  /\ \A j \in Requests : pc[j] # "upload"
  /\ now' = now + 1
  /\ UNCHANGED <<dbVars, tokenVars, jobVars, historyVars, edits>>

-----------------------------------------------------------------------------

Users ==
  \/ TikTokCallback \/ CreateConnection \/ DeleteConnection
  \/ CreateTemplate \/ UpdateTemplate \/ DeleteTemplate
  \/ UploadAsset \/ DeleteAsset

Handler(j) ==
  \/ Arrive(j) \/ ReadDestinations(j) \/ ReadSomeDestinations(j)
  \/ ReadTemplate(j) \/ CreateFinalTemplate(j) \/ Dispatch(j) \/ Reject(j)

Job(j) ==
  \/ Fetch(j) \/ DeliverOthers(j) \/ Refresh(j) \/ RefreshFails(j)
  \/ Upload(j) \/ Replay(j)

Next == Tick \/ Users \/ \E j \in Requests : Handler(j) \/ Job(j)

Spec == Init /\ [][Next]_vars

-----------------------------------------------------------------------------
(* Properties.                                                             *)

\* The destinations in a job's message were the project's connections, all of
\* them at one moment of its request, and its template was the one that the ID
\* meant at another; only a read that broke off leaves destinations out.
CarriesWhatWasThere ==
  /\ \A j \in Requests : pc[j] \in {"connected", "chosen", "final"} =>
       \E m \in moments[j] : \A p \in Platforms :
         copy[j][p] = m.rows[p] \/ (j \in hit /\ copy[j][p] = NoRow)
  /\ \A j \in Requests :
       pc[j] = "chosen" => \E m \in moments[j] : layer[j] = m.template

\* The file is never where the template looks for it: sanitizeKey has changed
\* the project's key, or the payload was to fill in the name.
Misplaced(j) ==
  \/ layer[j] = "project" /\ sanitizeKey(key) # key
  \/ layer[j] = "payload"

\* What a video is rendered from is the file that its template names, the
\* system's or the project's upload.  A job whose asset stays in storage from
\* the request on is rendered from it, early or late and after any replays,
\* unless its URL has run out; and a job whose file is misplaced never is,
\* whatever users upload.
FetchesWhatItNames ==
  /\ \A j \in Requests : pc[j] = "rendered" =>
       /\ ~Misplaced(j)
       /\ file[j].object = IF layer[j] = "system" THEN SystemAsset ELSE Uploaded
  /\ \A j \in stayed : pc[j] = "unrendered" /\ ~Misplaced(j) => now > file[j].until

\* What TODO.md says of assets: a file that the project has not is taken from
\* the system's.  The placeholder of a project's file stands for one place.
AssetsFallBack ==
  \A j \in Requests :
    pc[j] = "unrendered" /\ layer[j] = "project" /\ now <= file[j].until =>
      SystemAsset \notin Bucket

\* TikTok refuses a delivery only after the access token in its message has
\* expired and the refresh token has been replaced, by the refresh of another
\* job that carries it, also one whose video has gone, or by a new consent.
RefusedOnlyWhenSpent ==
  \A j \in Requests \ hit : pc[j] = "refused" =>
    ~Alive(Tokens(j).access) /\ Tokens(j).refresh \notin refreshable
=============================================================================
