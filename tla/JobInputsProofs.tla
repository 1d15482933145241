-------------------------- MODULE JobInputsProofs --------------------------
(***************************************************************************)
(* Proofs about JobInputs, for any number of requests, edits, tokens and   *)
(* faults and any lives of URLs and tokens.  Three facts carry the         *)
(* properties over the time between a request and its delivery: what the   *)
(* message names is fixed by the template it was read from, an asset that  *)
(* stayed is still there, and a token that has gone never comes back.      *)
(***************************************************************************)
EXTENDS JobInputs, TLAPS

Places ==
  {"idle", "arrived", "connected", "chosen", "final", "rejected", "queued",
   "rendered", "unrendered", "upload", "complete", "refused", "lost"}
Configs == [access : 0..issued, refresh : 0..issued]
Urls == [object : {Object(f) : f \in Files}, until : Nat]

Types ==
  /\ now \in Nat /\ key \in Keys
  /\ rows \in [Platforms -> Configs \cup {NoRow}]
  /\ own \in Files \cup {NoRow}
  /\ issued \in 1..MaxTokens
  /\ dies \in [1..MaxTokens -> Nat]
  /\ refreshable \subseteq 1..issued
  /\ pc \in [Requests -> Places]
  /\ copy \in [Requests -> [Platforms -> Configs \cup {NoRow}]]
  /\ layer \in [Requests -> Files \cup {NoRow}]
  /\ file \in [Requests -> Urls \cup {NoRow}]
  /\ using \in [Requests -> 0..issued]
  /\ DOMAIN moments = Requests
  /\ stayed \subseteq Requests

-----------------------------------------------------------------------------
(* Types.                                                                  *)

LEMMA InitTypes == Init => Types
  BY JobInputsAssumption
  DEF Init, Types, JobInputsAssumption, Platforms, Config, Configs, Places, Files, Urls

\* Configurations stay what they are while tokens are issued.
LEMMA ConfigsGrow ==
  ASSUME Types, issued' \in 1..MaxTokens, issued <= issued'
  PROVE  /\ Configs \subseteq Configs' /\ 0..issued \subseteq 0..issued'
         /\ 1..issued \subseteq 1..issued'
  BY DEF Types, Configs

LEMMA EditTypes ==
  ASSUME Types, Edit,
         issued' \in 1..MaxTokens, issued <= issued',
         rows' \in [Platforms -> Configs' \cup {NoRow}],
         own' \in Files \cup {NoRow},
         dies' \in [1..MaxTokens -> Nat],
         refreshable' \subseteq 1..issued'
  PROVE  Types'
  <1>1. Configs \subseteq Configs' /\ 0..issued \subseteq 0..issued'
    BY ConfigsGrow
  <1>2. /\ UNCHANGED <<now, key, jobVars>>
        /\ DOMAIN moments' = Requests
        /\ stayed' \subseteq Requests
    BY DEF Edit, Types, jobVars
  <1>3. UNCHANGED Urls BY <1>2 DEF Urls, Object, SystemAsset
  <1>4. /\ copy' \in [Requests -> [Platforms -> Configs' \cup {NoRow}]]
        /\ using' \in [Requests -> 0..issued']
    BY <1>1, <1>2 DEF Types, jobVars
  <1> QED BY <1>2, <1>3, <1>4 DEF Types, jobVars

\* No token is issued.
LEMMA QuietEditTypes ==
  ASSUME Types, Edit, UNCHANGED tokenVars,
         rows' \in [Platforms -> Configs \cup {NoRow}],
         own' \in Files \cup {NoRow}
  PROVE  Types'
  BY EditTypes DEF Types, tokenVars, Configs

LEMMA UsersTypes == ASSUME Types, Users PROVE Types'
  <1>1. CASE TikTokCallback
    <2>1. issued' \in 1..MaxTokens /\ issued <= issued' /\ issued' = issued + 1
      BY <1>1, JobInputsAssumption DEF TikTokCallback, Types, JobInputsAssumption
    <2>2. Edit /\ UNCHANGED own
      BY <1>1 DEF TikTokCallback, EditConnection
    <2>3. Configs \subseteq Configs' BY <2>1, ConfigsGrow
    <2>4. Config(issued', issued') \in Configs'
      BY <2>1 DEF Config, Configs, Types
    <2>5. rows' \in [Platforms -> Configs' \cup {NoRow}]
      BY <1>1, <2>3, <2>4 DEF TikTokCallback, EditConnection, Types
    <2>6. now + TokenLife \in Nat
      BY JobInputsAssumption DEF Types, JobInputsAssumption
    <2>7. dies' \in [1..MaxTokens -> Nat]
      <3>1. dies' = [dies EXCEPT ![issued'] = now + TokenLife]
        BY <1>1 DEF TikTokCallback
      <3> QED BY <3>1, <2>6 DEF Types
    <2>8. refreshable' \subseteq 1..issued'
      <3>1. PICK kept \in {{}, refreshable} : refreshable' = kept \cup {issued'}
        BY <1>1 DEF TikTokCallback
      <3>2. 1..issued \subseteq 1..issued' /\ issued' \in 1..issued'
        BY <2>1 DEF Types
      <3> QED BY <3>1, <3>2 DEF Types
    <2> QED BY <2>1, <2>2, <2>5, <2>7, <2>8, EditTypes DEF Types
  <1>2. CASE CreateConnection \/ DeleteConnection
    <2>1. Config(0, 0) \in Configs BY DEF Types, Config, Configs
    <2>2. PICK p \in Platforms, c \in Configs \cup {NoRow} : EditConnection(p, c)
      <3>1. CASE CreateConnection
        BY <2>1, <3>1 DEF CreateConnection, Platforms
      <3>2. CASE DeleteConnection
        BY <3>2 DEF DeleteConnection
      <3> QED BY <1>2, <3>1, <3>2
    <2>3. UNCHANGED <<own, tokenVars>> /\ Edit
      BY <1>2, <2>2 DEF CreateConnection, DeleteConnection, EditConnection
    <2>4. rows' \in [Platforms -> Configs \cup {NoRow}]
      BY <2>2 DEF EditConnection, Types
    <2> QED BY <2>3, <2>4, QuietEditTypes DEF Types
  <1>3. CASE CreateTemplate \/ UpdateTemplate \/ DeleteTemplate
    <2>1. own' \in Files \cup {NoRow} /\ UNCHANGED <<rows, tokenVars>> /\ Edit
      BY <1>3 DEF CreateTemplate, UpdateTemplate, DeleteTemplate, EditTemplate
    <2> QED BY <2>1, QuietEditTypes DEF Types
  <1>4. CASE UploadAsset \/ DeleteAsset
    <2>1. UNCHANGED <<own, rows, tokenVars>> /\ Edit
      BY <1>4 DEF UploadAsset, DeleteAsset, EditAsset
    <2> QED BY <2>1, QuietEditTypes DEF Types
  <1> QED BY <1>1, <1>2, <1>3, <1>4 DEF Users

\* A step of a request or job, which leaves what users change alone.
LEMMA OwnTypes ==
  ASSUME Types, UNCHANGED <<now, dbVars>>,
         issued' \in 1..MaxTokens, issued <= issued',
         dies' \in [1..MaxTokens -> Nat], refreshable' \subseteq 1..issued',
         NEW j \in Requests, NEW place \in Places, Goto(j, place),
         copy' \in [Requests -> [Platforms -> Configs \cup {NoRow}]],
         layer' \in [Requests -> Files \cup {NoRow}],
         file' \in [Requests -> Urls \cup {NoRow}],
         using' \in [Requests -> 0..issued'],
         DOMAIN moments' = Requests, stayed' \subseteq Requests
  PROVE  Types'
  <1>1. Configs \subseteq Configs' BY ConfigsGrow
  <1>2. UNCHANGED Urls BY DEF Urls, Object, SystemAsset, dbVars
  <1>3. /\ rows' \in [Platforms -> Configs' \cup {NoRow}]
        /\ copy' \in [Requests -> [Platforms -> Configs' \cup {NoRow}]]
    BY <1>1 DEF Types, dbVars
  <1>4. pc' \in [Requests -> Places] BY DEF Types, Goto
  <1> QED BY <1>2, <1>3, <1>4 DEF Types, dbVars

\* And issues no token.
LEMMA QuietTypes ==
  ASSUME Types, UNCHANGED <<now, dbVars, tokenVars>>,
         NEW j \in Requests, NEW place \in Places, Goto(j, place),
         copy' \in [Requests -> [Platforms -> Configs \cup {NoRow}]],
         layer' \in [Requests -> Files \cup {NoRow}],
         file' \in [Requests -> Urls \cup {NoRow}],
         using' \in [Requests -> 0..issued],
         DOMAIN moments' = Requests, stayed' \subseteq Requests
  PROVE  Types'
  <1>1. /\ issued' \in 1..MaxTokens /\ issued <= issued'
        /\ dies' \in [1..MaxTokens -> Nat] /\ refreshable' \subseteq 1..issued'
        /\ using' \in [Requests -> 0..issued']
    BY DEF Types, tokenVars
  <1> QED BY <1>1, OwnTypes

\* What a SELECT returns is a row or nothing.
LEMMA TakeTypes ==
  ASSUME Types, NEW j \in Requests, NEW read, Take(j, read)
  PROVE  copy' \in [Requests -> [Platforms -> Configs \cup {NoRow}]]
  <1>1. [p \in Platforms |-> IF p \in read THEN rows[p] ELSE NoRow]
          \in [Platforms -> Configs \cup {NoRow}]
    BY DEF Types
  <1> QED BY <1>1 DEF Take, Types

LEMMA HandlerTypes ==
  ASSUME Types, NEW j \in Requests, Handler(j),
         pc[j] = "chosen" => layer[j] \in Files
  PROVE  Types'
  <1>1. CASE Arrive(j)
    BY <1>1, QuietTypes DEF Arrive, WorldSame, Types, Places
  <1>2. CASE ReadDestinations(j) \/ ReadSomeDestinations(j)
    <2>1. copy' \in [Requests -> [Platforms -> Configs \cup {NoRow}]]
      BY <1>2, TakeTypes DEF ReadDestinations, ReadSomeDestinations
    <2>2. /\ UNCHANGED <<now, dbVars, tokenVars, layer, file, using, moments, stayed>>
          /\ Goto(j, "connected")
      BY <1>2 DEF ReadDestinations, ReadSomeDestinations, Asked, WorldSame
    <2> QED BY <2>1, <2>2, QuietTypes DEF Types, Places
  <1>3. CASE ReadTemplate(j)
    <2>1. Chosen \in Files BY DEF Chosen, SystemTemplate, Files, Types
    <2>2. layer' \in [Requests -> Files \cup {NoRow}]
      BY <1>3, <2>1 DEF ReadTemplate, Types
    <2>3. /\ UNCHANGED <<now, dbVars, tokenVars, copy, file, using, moments, stayed>>
          /\ Goto(j, "chosen")
      BY <1>3 DEF ReadTemplate, Asked, WorldSame
    <2> QED BY <2>2, <2>3, QuietTypes DEF Types, Places
  <1>4. CASE CreateFinalTemplate(j)
    <2>1. Presigned(layer[j]) \in Urls
      BY <1>4, JobInputsAssumption
      DEF CreateFinalTemplate, Presigned, Urls, Types, JobInputsAssumption
    <2>2. file' \in [Requests -> Urls \cup {NoRow}]
      BY <1>4, <2>1 DEF CreateFinalTemplate, Types
    <2>3. /\ UNCHANGED <<now, dbVars, tokenVars, copy, layer, using, moments, stayed>>
          /\ Goto(j, "final")
      BY <1>4 DEF CreateFinalTemplate, Asked, WorldSame
    <2> QED BY <2>2, <2>3, QuietTypes DEF Types, Places
  <1>5. CASE Dispatch(j)
    BY <1>5, QuietTypes DEF Dispatch, Asked, WorldSame, Types, Places
  <1>6. CASE Reject(j)
    BY <1>6, QuietTypes DEF Reject, WorldSame, Types, Places
  <1> QED BY <1>1, <1>2, <1>3, <1>4, <1>5, <1>6 DEF Handler

LEMMA JobTypes ==
  ASSUME Types, NEW j \in Requests, Job(j) PROVE Types'
  <1>1. CASE Fetch(j)
    <2>1. PICK place \in Places : Goto(j, place)
      BY <1>1 DEF Fetch, Places
    <2> QED BY <1>1, <2>1, QuietTypes DEF Fetch, WorldSame, JobSame, Types
  <1>2. CASE DeliverOthers(j)
    BY <1>2, QuietTypes DEF DeliverOthers, WorldSame, JobSame, Types, Places
  <1>3. CASE Refresh(j)
    <2>1. issued' \in 1..MaxTokens /\ issued <= issued' /\ issued' = issued + 1
      BY <1>3, JobInputsAssumption DEF Refresh, Types, JobInputsAssumption
    <2>2. now + TokenLife \in Nat
      BY JobInputsAssumption DEF Types, JobInputsAssumption
    <2>3. dies' \in [1..MaxTokens -> Nat]
      BY <1>3, <2>2 DEF Refresh, Types
    <2>4. refreshable' \subseteq 1..issued'
      BY <1>3, <2>1 DEF Refresh, Types
    <2>5. using' \in [Requests -> 0..issued']
      <3>1. 0..issued \subseteq 0..issued' /\ issued' \in 0..issued'
        BY <2>1 DEF Types
      <3> QED BY <1>3, <3>1 DEF Refresh, Types
    <2>6. UNCHANGED <<now, dbVars, copy, layer, file, moments, stayed>> /\ Goto(j, "upload")
      BY <1>3 DEF Refresh, JobSame
    <2> QED BY <2>1, <2>3, <2>4, <2>5, <2>6, OwnTypes DEF Types, Places
  <1>4. CASE RefreshFails(j)
    <2>1. Tokens(j) \in Configs
      BY <1>4 DEF RefreshFails, Tokens, Types, Platforms
    <2>2. Existing(j) \in 0..issued BY <2>1 DEF Existing, Configs
    <2>3. using' \in [Requests -> 0..issued]
      BY <1>4, <2>2 DEF RefreshFails, Types
    <2>4. /\ UNCHANGED <<now, dbVars, tokenVars, copy, layer, file, moments, stayed>>
          /\ Goto(j, "upload")
      BY <1>4 DEF RefreshFails, WorldSame, JobSame
    <2> QED BY <2>3, <2>4, QuietTypes DEF Types, Places
  <1>5. CASE Upload(j)
    <2>1. PICK place \in Places : Goto(j, place)
      BY <1>5 DEF Upload, Places
    <2>2. using' \in [Requests -> 0..issued]
      BY <1>5 DEF Upload, Types
    <2>3. UNCHANGED <<now, dbVars, tokenVars, copy, layer, file, moments, stayed>>
      BY <1>5 DEF Upload, WorldSame, JobSame
    <2> QED BY <2>1, <2>2, <2>3, QuietTypes DEF Types
  <1>6. CASE Replay(j)
    <2>1. PICK place \in Places : Goto(j, place)
      BY <1>6 DEF Replay, Places
    <2> QED BY <1>6, <2>1, QuietTypes DEF Replay, WorldSame, JobSame, Types
  <1> QED BY <1>1, <1>2, <1>3, <1>4, <1>5, <1>6 DEF Job

LEMMA TickTypes == ASSUME Types, Tick PROVE Types'
  <1>1. UNCHANGED <<Urls, Configs>>
    BY DEF Tick, Urls, Configs, Object, SystemAsset, dbVars, tokenVars
  <1> QED BY <1>1 DEF Tick, Types, dbVars, tokenVars, jobVars, historyVars

LEMMA StutterTypes == ASSUME Types, UNCHANGED vars PROVE Types'
  <1>1. UNCHANGED <<Urls, Configs>>
    BY DEF vars, Urls, Configs, Object, SystemAsset, dbVars, tokenVars
  <1> QED BY <1>1 DEF vars, Types, dbVars, tokenVars, jobVars, historyVars

-----------------------------------------------------------------------------
(* A step of one request or job.                                           *)

\* What it leaves alone of another one, k.
Rests(k) ==
  /\ pc'[k] = pc[k] /\ copy'[k] = copy[k] /\ layer'[k] = layer[k]
  /\ file'[k] = file[k] /\ using'[k] = using[k] /\ moments'[k] = moments[k]
  /\ k \in stayed' => k \in stayed
  /\ k \in hit => k \in hit'

LEMMA OthersRest ==
  ASSUME Types, NEW j \in Requests, NEW k \in Requests, k # j, Handler(j) \/ Job(j)
  PROVE  Rests(k)
  <1> USE DEF Rests, Types, Goto, WorldSame, NoFault, Fault, Asked, JobSame, Take
  <1>1. CASE Arrive(j) BY <1>1 DEF Arrive
  <1>2. CASE ReadDestinations(j) BY <1>2 DEF ReadDestinations
  <1>3. CASE ReadSomeDestinations(j) BY <1>3 DEF ReadSomeDestinations
  <1>4. CASE ReadTemplate(j) BY <1>4 DEF ReadTemplate
  <1>5. CASE CreateFinalTemplate(j) BY <1>5 DEF CreateFinalTemplate
  <1>6. CASE Dispatch(j) BY <1>6 DEF Dispatch
  <1>7. CASE Reject(j) BY <1>7 DEF Reject
  <1>8. CASE Fetch(j) BY <1>8 DEF Fetch
  <1>9. CASE DeliverOthers(j) BY <1>9 DEF DeliverOthers
  <1>10. CASE Refresh(j) BY <1>10 DEF Refresh
  <1>11. CASE RefreshFails(j) BY <1>11 DEF RefreshFails
  <1>12. CASE Upload(j) BY <1>12 DEF Upload
  <1>13. CASE Replay(j) BY <1>13 DEF Replay
  <1> QED BY <1>1, <1>2, <1>3, <1>4, <1>5, <1>6, <1>7, <1>8, <1>9, <1>10, <1>11,
             <1>12, <1>13 DEF Handler, Job

LEMMA WorldRests ==
  ASSUME NEW j \in Requests, Handler(j) \/ Job(j)
  PROVE  UNCHANGED <<now, dbVars>>
  BY DEF Handler, Job, Arrive, ReadDestinations, ReadSomeDestinations, ReadTemplate,
         CreateFinalTemplate, Dispatch, Reject, Fetch, DeliverOthers, Refresh,
         RefreshFails, Upload, Replay, WorldSame, Asked

LEMMA UsersEdit == ASSUME Users PROVE Edit
  BY DEF Users, TikTokCallback, CreateConnection, DeleteConnection, CreateTemplate,
         UpdateTemplate, DeleteTemplate, UploadAsset, DeleteAsset, EditConnection,
         EditTemplate, EditAsset

-----------------------------------------------------------------------------
(* Assets.                                                                 *)

\* From the template on, from the URL on, and from the video on.
Video == {"rendered", "upload", "complete", "refused", "lost"}
Final == {"final", "queued", "unrendered"} \cup Video
Stored == {SystemAsset, Uploaded}

\* A message names what its template names; what was rendered was in storage,
\* and what was not could not be found.
AssetsOf(j) ==
  /\ pc[j] \in {"chosen"} \cup Final => layer[j] \in Files
  /\ pc[j] \in Final => file[j] \in Urls /\ file[j].object = Object(layer[j])
  /\ pc[j] \in Video => file[j].object \in Stored
  /\ pc[j] = "unrendered" /\ j \in stayed =>
       now > file[j].until \/ file[j].object \notin Stored
Stays == stayed # {} => there
Assets == Stays /\ \A j \in Requests : AssetsOf(j)

LEMMA InitAssets == Init => Assets
  BY DEF Init, Assets, AssetsOf, Stays, Final, Video

LEMMA SameAssets ==
  ASSUME UNCHANGED key
  PROVE  UNCHANGED <<Urls, Stored>> /\ \A f \in Files : UNCHANGED Object(f)
  BY DEF Urls, Stored, Object, SystemAsset, Uploaded

LEMMA OtherAssets ==
  ASSUME Types, NEW k \in Requests, AssetsOf(k), UNCHANGED key,
         now' \in Nat, now <= now',
         pc'[k] = pc[k], layer'[k] = layer[k], file'[k] = file[k],
         k \in stayed' => k \in stayed
  PROVE  AssetsOf(k)'
  <1>1. UNCHANGED <<Urls, Stored>> /\ \A f \in Files : UNCHANGED Object(f)
    BY SameAssets
  <1>2. pc[k] = "unrendered" => file[k].until \in Nat
    BY DEF AssetsOf, Final, Urls
  <1> QED BY <1>1, <1>2 DEF AssetsOf, Types

LEMMA UsersAssets == ASSUME Types, Assets, Users PROVE Assets'
  <1>1. /\ UNCHANGED <<now, key, pc, layer, file>>
        /\ stayed' = IF there' THEN stayed ELSE {}
    BY UsersEdit DEF Edit, jobVars
  <1>2. ASSUME NEW k \in Requests PROVE AssetsOf(k)'
    <2>1. AssetsOf(k) BY DEF Assets
    <2>2. now' \in Nat /\ now <= now' BY <1>1 DEF Types
    <2>3. k \in stayed' => k \in stayed BY <1>1
    <2> QED BY <1>1, <2>1, <2>2, <2>3, OtherAssets
  <1>3. Stays' BY <1>1 DEF Stays
  <1> QED BY <1>2, <1>3 DEF Assets

LEMMA HandlerAssets ==
  ASSUME Types, Assets, NEW j \in Requests, Handler(j) PROVE AssetsOf(j)'
  <1>1. AssetsOf(j) BY DEF Assets
  <1>2. UNCHANGED key BY WorldRests DEF dbVars
  <1>3. UNCHANGED <<Urls, Stored>> /\ \A f \in Files : UNCHANGED Object(f)
    BY <1>2, SameAssets
  <1>4. CASE Arrive(j) \/ ReadDestinations(j) \/ ReadSomeDestinations(j) \/ Reject(j)
    <2>1. pc'[j] \in {"arrived", "connected", "rejected"}
      BY <1>4 DEF Arrive, ReadDestinations, ReadSomeDestinations, Reject, Goto, Types
    <2> QED BY <2>1 DEF AssetsOf, Final, Video
  <1>5. CASE ReadTemplate(j)
    <2>1. pc'[j] = "chosen" /\ layer'[j] = Chosen
      BY <1>5 DEF ReadTemplate, Goto, Types
    <2>2. Chosen \in Files BY DEF Chosen, SystemTemplate, Files, Types
    <2> QED BY <2>1, <2>2 DEF AssetsOf, Final, Video
  <1>6. CASE CreateFinalTemplate(j)
    <2>1. /\ pc[j] = "chosen" /\ pc'[j] = "final" /\ layer'[j] = layer[j]
          /\ file'[j] = Presigned(layer[j])
      BY <1>6 DEF CreateFinalTemplate, Goto, Types
    <2>2. layer[j] \in Files BY <1>1, <2>1 DEF AssetsOf
    <2>3. Presigned(layer[j]) \in Urls
      BY <2>2, JobInputsAssumption DEF Presigned, Urls, Types, JobInputsAssumption
    <2>4. Presigned(layer[j]).object = Object(layer[j]) BY DEF Presigned
    <2> QED BY <1>3, <2>1, <2>2, <2>3, <2>4 DEF AssetsOf, Video
  <1>7. CASE Dispatch(j)
    <2>1. /\ pc[j] = "final" /\ pc'[j] = "queued" /\ layer'[j] = layer[j]
          /\ file'[j] = file[j]
      BY <1>7 DEF Dispatch, Goto, Types
    <2> QED BY <1>1, <1>3, <2>1 DEF AssetsOf, Final, Video
  <1> QED BY <1>4, <1>5, <1>6, <1>7 DEF Handler

LEMMA JobAssets ==
  ASSUME Types, Assets, NEW j \in Requests, Job(j) PROVE AssetsOf(j)'
  <1>1. AssetsOf(j) BY DEF Assets
  <1>2. UNCHANGED <<now, dbVars>> BY WorldRests
  <1>3. UNCHANGED <<Urls, Stored>> /\ \A f \in Files : UNCHANGED Object(f)
    BY <1>2, SameAssets DEF dbVars
  <1>4. layer'[j] = layer[j] /\ file'[j] = file[j] /\ stayed' = stayed
    BY DEF Job, Fetch, DeliverOthers, Refresh, RefreshFails, Upload, Replay, JobSame
  <1>5. CASE Fetch(j)
    <2>1. pc[j] = "queued" /\ file[j] \in Urls /\ layer[j] \in Files
      BY <1>1, <1>5 DEF Fetch, AssetsOf, Final
    <2>2. pc'[j] = IF Fetchable(file[j]) THEN "rendered" ELSE "unrendered"
      BY <1>5 DEF Fetch, Goto, Types
    <2>3. CASE Fetchable(file[j])
      <3>1. file[j].object \in Stored
        BY <2>3 DEF Fetchable, Bucket, Stored
      <3> QED BY <1>1, <1>3, <1>4, <2>1, <2>2, <2>3, <3>1 DEF AssetsOf, Final, Video
    <2>4. CASE ~Fetchable(file[j])
      <3>1. now \in Nat /\ file[j].until \in Nat BY <2>1 DEF Urls, Types
      <3>2. j \in stayed => Bucket = Stored
        BY DEF Assets, Stays, Bucket, Stored
      <3>3. j \in stayed => now > file[j].until \/ file[j].object \notin Stored
        BY <2>4, <3>1, <3>2 DEF Fetchable
      <3> QED BY <1>1, <1>2, <1>3, <1>4, <2>1, <2>2, <2>4, <3>3
              DEF AssetsOf, Final, Video
    <2> QED BY <2>3, <2>4
  <1>6. CASE Replay(j) /\ pc[j] = "unrendered"
    <2>1. pc'[j] = "queued" BY <1>6 DEF Replay, Goto, Types
    <2> QED BY <1>1, <1>3, <1>4, <1>6, <2>1 DEF AssetsOf, Final, Video
  <1>7. CASE \/ DeliverOthers(j) \/ Refresh(j) \/ RefreshFails(j) \/ Upload(j)
             \/ Replay(j) /\ pc[j] # "unrendered"
    <2>1. pc[j] \in Video /\ pc'[j] \in Video
      BY <1>7 DEF DeliverOthers, Refresh, RefreshFails, Upload, Replay, Goto, Types, Video
    <2> QED BY <1>1, <1>3, <1>4, <2>1 DEF AssetsOf, Final, Video
  <1> QED BY <1>5, <1>6, <1>7 DEF Job

LEMMA NextAssets == ASSUME Types, Assets, Next PROVE Assets'
  <1>1. CASE Tick
    <2>1. UNCHANGED <<key, there, pc, layer, file, stayed>> /\ now' \in Nat /\ now <= now'
      BY <1>1 DEF Tick, dbVars, jobVars, historyVars, Types
    <2>2. ASSUME NEW k \in Requests PROVE AssetsOf(k)'
      BY <2>1, OtherAssets DEF Assets
    <2> QED BY <2>1, <2>2 DEF Assets, Stays
  <1>2. CASE Users BY <1>2, UsersAssets
  <1>3. ASSUME NEW j \in Requests, Handler(j) \/ Job(j) PROVE Assets'
    <2>1. AssetsOf(j)' BY <1>3, HandlerAssets, JobAssets
    <2>2. UNCHANGED <<now, key, there>> BY <1>3, WorldRests DEF dbVars
    <2>3. ASSUME NEW k \in Requests, k # j PROVE AssetsOf(k)'
      <3>1. Rests(k) BY <1>3, <2>3, OthersRest
      <3>2. now' \in Nat /\ now <= now' BY <2>2 DEF Types
      <3> QED BY <2>2, <3>1, <3>2, OtherAssets DEF Assets, Rests
    <2>4. Stays'
      <3>1. CASE Arrive(j) BY <3>1, <2>2 DEF Arrive, Assets, Stays
      <3>2. CASE Reject(j) BY <3>2, <2>2 DEF Reject, Assets, Stays
      <3>3. CASE ~Arrive(j) /\ ~Reject(j)
        <4>1. stayed' = stayed
          BY <1>3, <3>3
          DEF Handler, Job, ReadDestinations, ReadSomeDestinations, ReadTemplate,
              CreateFinalTemplate, Dispatch, Fetch, DeliverOthers, Refresh,
              RefreshFails, Upload, Replay, Asked, JobSame
        <4> QED BY <2>2, <4>1 DEF Assets, Stays
      <3> QED BY <3>1, <3>2, <3>3
    <2> QED BY <2>1, <2>3, <2>4 DEF Assets
  <1> QED BY <1>1, <1>2, <1>3 DEF Next

-----------------------------------------------------------------------------
(* Tokens.                                                                 *)

\* An upload has a new token, or the message's because the refresh token was
\* gone; where TikTok refused it, both were gone.
TokensOf(j) ==
  j \notin hit =>
    /\ pc[j] = "upload" =>
         /\ Tokens(j) \in Configs
         /\ \/ Alive(using[j])
            \/ using[j] = Tokens(j).access /\ Tokens(j).refresh \notin refreshable
    /\ pc[j] = "refused" =>
         /\ Tokens(j) \in Configs
         /\ ~Alive(Tokens(j).access)
         /\ Tokens(j).refresh \notin refreshable
TokensKept == \A j \in Requests : TokensOf(j)

\* A token is issued: older ones live as long as before, and a refresh token
\* that was gone is gone.
Issued ==
  /\ issued' \in 1..MaxTokens /\ issued' = issued + 1
  /\ dies' = [dies EXCEPT ![issued'] = now + TokenLife]
  /\ refreshable' \subseteq refreshable \cup {issued'}
  /\ now' = now

LEMMA IssuedOrNot ==
  ASSUME Types, Next PROVE Issued \/ UNCHANGED tokenVars
  <1>1. CASE TikTokCallback
    BY <1>1, JobInputsAssumption
    DEF TikTokCallback, EditConnection, Edit, Issued, Types, JobInputsAssumption
  <1>2. CASE Users /\ ~TikTokCallback
    BY <1>2 DEF Users, CreateConnection, DeleteConnection, CreateTemplate,
                UpdateTemplate, DeleteTemplate, UploadAsset, DeleteAsset,
                EditTemplate, EditAsset
  <1>3. ASSUME NEW j \in Requests, Refresh(j) PROVE Issued
    BY <1>3, JobInputsAssumption DEF Refresh, Issued, Types, JobInputsAssumption
  <1>4. ASSUME NEW j \in Requests, Handler(j) \/ Job(j), ~Refresh(j)
        PROVE  UNCHANGED tokenVars
    BY <1>4 DEF Handler, Job, Arrive, ReadDestinations, ReadSomeDestinations,
                ReadTemplate, CreateFinalTemplate, Dispatch, Reject, Fetch,
                DeliverOthers, RefreshFails, Upload, Replay, WorldSame, Asked
  <1> QED BY <1>1, <1>2, <1>3, <1>4 DEF Next, Tick

\* Time and new tokens bring no old token back, and only time takes one away.
LEMMA TokensGo ==
  ASSUME Types, Issued \/ UNCHANGED tokenVars, now' \in Nat, now <= now',
         NEW a \in 0..issued
  PROVE  /\ ~Alive(a) => ~Alive(a)'
         /\ a \notin refreshable => a \notin refreshable'
         /\ Alive(a) /\ now' = now => Alive(a)'
  <1>1. CASE Issued
    <2>1. a # issued' /\ issued \in Nat /\ (a \in 1..issued' <=> a \in 1..issued)
      BY <1>1 DEF Issued, Types
    <2>2. a \in 1..issued => dies'[a] = dies[a]
      BY <1>1, <2>1 DEF Issued, Types
    <2>3. a \notin refreshable => a \notin refreshable'
      BY <1>1, <2>1 DEF Issued
    <2>4. now' = now BY <1>1 DEF Issued
    <2>5. Alive(a)' <=> Alive(a) BY <2>1, <2>2, <2>4 DEF Alive
    <2> QED BY <2>3, <2>5 DEF Alive
  <1>2. CASE UNCHANGED tokenVars
    <2>1. a \in 1..issued => dies[a] \in Nat
      BY JobInputsAssumption DEF Types, JobInputsAssumption
    <2> QED BY <1>2, <2>1 DEF tokenVars, Alive, Types
  <1> QED BY <1>1, <1>2

LEMMA InitTokens == Init => TokensKept
  BY DEF Init, TokensKept, TokensOf

\* Tokens change, the request or job does not.
LEMMA OtherTokens ==
  ASSUME Types, Issued \/ UNCHANGED tokenVars, now' \in Nat, now <= now',
         NEW k \in Requests, TokensOf(k),
         pc'[k] = pc[k], copy'[k] = copy[k], using'[k] = using[k],
         k \in hit => k \in hit',
         pc[k] = "upload" => now' = now
  PROVE  TokensOf(k)'
  <1>1. UNCHANGED Tokens(k) BY DEF Tokens
  <1>2. issued' \in 1..MaxTokens /\ issued <= issued'
    BY DEF Issued, tokenVars, Types
  <1>3. Configs \subseteq Configs' BY <1>2, ConfigsGrow
  <1>4. using[k] \in 0..issued BY DEF Types
  <1>5. Tokens(k) \in Configs =>
          Tokens(k).access \in 0..issued /\ Tokens(k).refresh \in 0..issued
    BY DEF Configs
  <1>6. Alive(using[k]) /\ now' = now => (Alive(using[k]))'
    BY <1>4, TokensGo DEF Alive
  <1>7. Tokens(k) \in Configs /\ Tokens(k).refresh \notin refreshable
          => (Tokens(k).refresh \notin refreshable)'
    BY <1>1, <1>5, TokensGo
  <1>8. Tokens(k) \in Configs /\ ~Alive(Tokens(k).access) => (~Alive(Tokens(k).access))'
    BY <1>1, <1>5, TokensGo DEF Alive
  <1> QED BY <1>1, <1>3, <1>6, <1>7, <1>8 DEF TokensOf

\* Requests have no tokens at work.
LEMMA HandlerTokens ==
  ASSUME Types, NEW j \in Requests, Handler(j) PROVE TokensOf(j)'
  <1>1. pc'[j] \notin {"upload", "refused"}
    BY DEF Handler, Arrive, ReadDestinations, ReadSomeDestinations, ReadTemplate,
           CreateFinalTemplate, Dispatch, Reject, Goto, Types
  <1> QED BY <1>1 DEF TokensOf

LEMMA JobTokens ==
  ASSUME Types, TokensKept, NEW j \in Requests, Job(j) PROVE TokensOf(j)'
  <1>1. TokensOf(j) BY DEF TokensKept
  <1>2. UNCHANGED Tokens(j)
    BY DEF Job, Fetch, DeliverOthers, Refresh, RefreshFails, Upload, Replay, JobSame,
           Tokens
  <1>3. Tokens(j) # NoRow => Tokens(j) \in Configs
    BY DEF Tokens, Types, Platforms
  <1>4. CASE Fetch(j) \/ DeliverOthers(j) \/ Replay(j)
    <2>1. pc'[j] \notin {"upload", "refused"}
      BY <1>4 DEF Fetch, DeliverOthers, Replay, Goto, Types
    <2> QED BY <2>1 DEF TokensOf
  <1>5. CASE Refresh(j)
    <2>1. pc'[j] = "upload" /\ using'[j] = issued'
      BY <1>5 DEF Refresh, Goto, Types
    <2>2. issued' \in 1..MaxTokens /\ issued <= issued' /\ now' = now
      BY <1>5, JobInputsAssumption DEF Refresh, Types, JobInputsAssumption
    <2>3. now + TokenLife \in Nat /\ now < now + TokenLife
      BY JobInputsAssumption DEF Types, JobInputsAssumption
    <2>4. dies'[issued'] = now + TokenLife
      BY <1>5, <2>2 DEF Refresh, Types
    <2>5. issued' \in 1..issued' BY <2>2
    <2>6. (Alive(using[j]))' BY <2>1, <2>2, <2>3, <2>4, <2>5 DEF Alive
    <2>7. (Tokens(j) \in Configs)'
      BY <1>2, <1>3, <1>5, <2>2, ConfigsGrow DEF Refresh
    <2> QED BY <2>1, <2>6, <2>7 DEF TokensOf
  <1>6. CASE RefreshFails(j)
    <2>1. pc'[j] = "upload" /\ using'[j] = Tokens(j).access
      BY <1>6 DEF RefreshFails, Goto, Types, Existing
    <2>2. UNCHANGED Configs BY <1>6 DEF RefreshFails, WorldSame, tokenVars, Configs
    <2>3. j \notin hit' => Tokens(j).refresh \notin refreshable'
      BY <1>6 DEF RefreshFails, WorldSame, tokenVars, Fault
    <2> QED BY <1>2, <1>3, <1>6, <2>1, <2>2, <2>3 DEF TokensOf, RefreshFails
  <1>7. CASE Upload(j)
    <2>1. /\ UNCHANGED <<now, tokenVars, hit>>
          /\ pc[j] = "upload"
          /\ pc'[j] \in {"lost", "complete", "refused"}
          /\ Alive(using[j]) => pc'[j] # "refused"
      BY <1>7 DEF Upload, WorldSame, NoFault, Goto, Types
    <2>2. UNCHANGED Configs /\ \A a : UNCHANGED Alive(a)
      BY <2>1 DEF Configs, Alive, tokenVars
    <2>3. UNCHANGED refreshable BY <2>1 DEF tokenVars
    <2>4. CASE j \in hit BY <2>1, <2>4 DEF TokensOf
    <2>5. CASE j \notin hit /\ Alive(using[j])
      BY <2>1, <2>5 DEF TokensOf
    <2>6. CASE j \notin hit /\ ~Alive(using[j])
      <3>1. /\ Tokens(j) \in Configs
            /\ using[j] = Tokens(j).access /\ Tokens(j).refresh \notin refreshable
        BY <1>1, <2>1, <2>6 DEF TokensOf
      <3>2. ~Alive(Tokens(j).access) BY <2>6, <3>1
      <3>3. (~Alive(Tokens(j).access))'
        BY <1>2, <2>1, <3>2 DEF Alive, tokenVars
      <3> QED BY <1>2, <2>1, <2>2, <2>3, <2>6, <3>1, <3>3 DEF TokensOf
    <2> QED BY <2>4, <2>5, <2>6
  <1> QED BY <1>4, <1>5, <1>6, <1>7 DEF Job

LEMMA NextTokens == ASSUME Types, TokensKept, Next PROVE TokensKept'
  <1>1. Issued \/ UNCHANGED tokenVars BY IssuedOrNot
  <1>2. CASE Tick
    <2>1. /\ UNCHANGED <<pc, copy, using, hit>> /\ now' \in Nat /\ now <= now'
          /\ \A k \in Requests : pc[k] # "upload"
      BY <1>2 DEF Tick, jobVars, historyVars, Types
    <2> QED BY <1>1, <2>1, OtherTokens DEF TokensKept
  <1>3. CASE Users
    <2>1. UNCHANGED <<now, pc, copy, using, hit>>
      BY <1>3, UsersEdit DEF Edit, jobVars
    <2>2. now' \in Nat /\ now <= now' BY <2>1 DEF Types
    <2> QED BY <1>1, <2>1, <2>2, OtherTokens DEF TokensKept
  <1>4. ASSUME NEW j \in Requests, Handler(j) \/ Job(j) PROVE TokensKept'
    <2>1. TokensOf(j)' BY <1>4, HandlerTokens, JobTokens
    <2>2. now' = now BY <1>4, WorldRests
    <2>3. ASSUME NEW k \in Requests, k # j PROVE TokensOf(k)'
      <3>1. Rests(k) BY <1>4, <2>3, OthersRest
      <3>2. now' \in Nat /\ now <= now' BY <2>2 DEF Types
      <3> QED BY <1>1, <2>2, <3>1, <3>2, OtherTokens DEF TokensKept, Rests
    <2> QED BY <2>1, <2>3 DEF TokensKept
  <1> QED BY <1>2, <1>3, <1>4 DEF Next

-----------------------------------------------------------------------------
(* What was there.                                                         *)

\* A request has seen the database at one moment for its destinations and at
\* another for its template, and the present one is among those it may see.
CarriesOf(j) ==
  /\ j \in Asking => Database \in moments[j]
  /\ pc[j] \in {"connected", "chosen", "final"} =>
       \E m \in moments[j] : \A p \in Platforms :
         copy[j][p] = m.rows[p] \/ (j \in hit /\ copy[j][p] = NoRow)
  /\ pc[j] = "chosen" => \E m \in moments[j] : layer[j] = m.template
Carries == \A j \in Requests : CarriesOf(j)

LEMMA InitCarries == Init => Carries
  BY DEF Init, Carries, CarriesOf, Asking

\* More moments, and everything else as it was.
LEMMA OtherCarries ==
  ASSUME NEW k \in Requests, CarriesOf(k),
         pc'[k] = pc[k], copy'[k] = copy[k], layer'[k] = layer[k],
         k \in hit => k \in hit', moments[k] \subseteq moments'[k],
         k \in Asking => Database' \in moments'[k]
  PROVE  CarriesOf(k)'
  <1>1. k \in Asking' => k \in Asking BY DEF Asking
  <1> QED BY <1>1 DEF CarriesOf

LEMMA UsersCarry == ASSUME Types, Carries, Users PROVE Carries'
  <1>1. /\ UNCHANGED <<pc, copy, layer, hit>>
        /\ moments' = [j \in Requests |-> IF j \in Asking THEN moments[j] \cup {Database'}
                                          ELSE moments[j]]
    BY UsersEdit DEF Edit, jobVars
  <1>2. ASSUME NEW k \in Requests PROVE CarriesOf(k)'
    <2>1. CarriesOf(k) BY DEF Carries
    <2>2. moments[k] \subseteq moments'[k] /\ (k \in Asking => Database' \in moments'[k])
      BY <1>1
    <2> QED BY <1>1, <2>1, <2>2, OtherCarries
  <1> QED BY <1>2 DEF Carries

LEMMA HandlerCarries ==
  ASSUME Types, Carries, NEW j \in Requests, Handler(j) PROVE CarriesOf(j)'
  <1>1. CarriesOf(j) BY DEF Carries
  <1>2. UNCHANGED <<dbVars, Database>> BY WorldRests DEF dbVars, Database
  <1>3. CASE Arrive(j)
    <2>1. pc'[j] = "arrived" /\ moments'[j] = {Database}
      BY <1>3 DEF Arrive, Goto, Types
    <2> QED BY <1>2, <2>1 DEF CarriesOf
  <1>4. CASE ReadDestinations(j) \/ ReadSomeDestinations(j)
    <2>1. /\ pc[j] = "arrived" /\ pc'[j] = "connected" /\ moments' = moments
      BY <1>4 DEF ReadDestinations, ReadSomeDestinations, Goto, Types
    <2>2. Database \in moments[j] BY <1>1, <2>1 DEF CarriesOf, Asking
    <2>3. \A p \in Platforms :
            copy'[j][p] = Database.rows[p] \/ (j \in hit' /\ copy'[j][p] = NoRow)
      <3>1. CASE ReadDestinations(j)
        <4>1. Take(j, Connected)
          BY <3>1 DEF ReadDestinations, AllRows
        <4>2. \A p \in Platforms : p \notin Connected => rows[p] = NoRow
          BY DEF Connected
        <4> QED BY <4>1, <4>2 DEF Take, Database, Types
      <3>2. CASE ReadSomeDestinations(j)
        <4>1. PICK read \in SUBSET Connected : Take(j, read)
          BY <3>2 DEF ReadSomeDestinations
        <4>2. j \in hit' BY <3>2 DEF ReadSomeDestinations, Fault
        <4> QED BY <4>1, <4>2 DEF Take, Database, Types
      <3> QED BY <1>4, <3>1, <3>2
    <2> QED BY <1>2, <2>1, <2>2, <2>3 DEF CarriesOf
  <1>5. CASE ReadTemplate(j)
    <2>1. /\ pc[j] = "connected" /\ pc'[j] = "chosen" /\ layer'[j] = Chosen
          /\ UNCHANGED <<copy, moments, hit>>
      BY <1>5 DEF ReadTemplate, NoFault, Goto, Types
    <2>2. Database \in moments[j] BY <1>1, <2>1 DEF CarriesOf, Asking
    <2>3. Database.template = Chosen BY DEF Database, Chosen
    <2> QED BY <1>1, <1>2, <2>1, <2>2, <2>3 DEF CarriesOf
  <1>6. CASE CreateFinalTemplate(j)
    <2>1. /\ pc[j] = "chosen" /\ pc'[j] = "final"
          /\ UNCHANGED <<copy, moments, hit>>
      BY <1>6 DEF CreateFinalTemplate, NoFault, Goto, Types
    <2>2. Database \in moments[j] BY <1>1, <2>1 DEF CarriesOf, Asking
    <2> QED BY <1>1, <1>2, <2>1, <2>2 DEF CarriesOf
  <1>7. CASE Dispatch(j) \/ Reject(j)
    <2>1. pc'[j] \in {"queued", "rejected"}
      BY <1>7 DEF Dispatch, Reject, Goto, Types
    <2> QED BY <2>1 DEF CarriesOf, Asking
  <1> QED BY <1>3, <1>4, <1>5, <1>6, <1>7 DEF Handler

LEMMA JobCarries ==
  ASSUME Types, NEW j \in Requests, Job(j) PROVE CarriesOf(j)'
  <1>1. pc'[j] \notin {"arrived", "connected", "chosen", "final"}
    BY DEF Job, Fetch, DeliverOthers, Refresh, RefreshFails, Upload, Replay, Goto, Types
  <1> QED BY <1>1 DEF CarriesOf, Asking

LEMMA NextCarries == ASSUME Types, Carries, Next PROVE Carries'
  <1>1. CASE Tick
    <2>1. UNCHANGED <<pc, copy, layer, hit, moments, Database>>
      BY <1>1 DEF Tick, jobVars, historyVars, dbVars, Database
    <2> QED BY <2>1, OtherCarries DEF Carries, CarriesOf
  <1>2. CASE Users BY <1>2, UsersCarry
  <1>3. ASSUME NEW j \in Requests, Handler(j) \/ Job(j) PROVE Carries'
    <2>1. CarriesOf(j)' BY <1>3, HandlerCarries, JobCarries
    <2>2. UNCHANGED Database BY <1>3, WorldRests DEF dbVars, Database
    <2>3. ASSUME NEW k \in Requests, k # j PROVE CarriesOf(k)'
      <3>1. Rests(k) BY <1>3, <2>3, OthersRest
      <3>2. CarriesOf(k) BY DEF Carries
      <3>3. k \in Asking => Database' \in moments'[k]
        BY <2>2, <3>1, <3>2 DEF CarriesOf, Rests
      <3> QED BY <3>1, <3>2, <3>3, OtherCarries DEF Rests
    <2> QED BY <2>1, <2>3 DEF Carries
  <1> QED BY <1>1, <1>2, <1>3 DEF Next

-----------------------------------------------------------------------------
(* The invariant and the theorems.                                         *)

Inv == Types /\ Assets /\ TokensKept /\ Carries

LEMMA NextInv == ASSUME Inv, [Next]_vars PROVE Inv'
  <1>1. CASE Next
    <2>1. Types'
      <3>1. \A j \in Requests : pc[j] = "chosen" => layer[j] \in Files
        BY DEF Inv, Assets, AssetsOf
      <3> QED BY <1>1, <3>1, TickTypes, UsersTypes, HandlerTypes, JobTypes
              DEF Next, Inv
    <2> QED BY <1>1, <2>1, NextAssets, NextTokens, NextCarries DEF Inv
  <1>2. CASE UNCHANGED vars
    <2>1. Types' BY <1>2, StutterTypes DEF Inv
    <2>2. UNCHANGED <<now, key, there, pc, layer, file, stayed, copy, using, hit, moments>>
          /\ UNCHANGED <<tokenVars, Database>>
      BY <1>2 DEF vars, dbVars, jobVars, historyVars, Database
    <2>3. now' \in Nat /\ now <= now' BY <2>2 DEF Inv, Types
    <2>4. Assets' BY <2>2, <2>3, OtherAssets DEF Inv, Assets, Stays
    <2>5. TokensKept' BY <2>2, <2>3, OtherTokens DEF Inv, TokensKept
    <2>6. Carries' BY <2>2, OtherCarries DEF Inv, Carries, CarriesOf
    <2> QED BY <2>1, <2>4, <2>5, <2>6 DEF Inv
  <1> QED BY <1>1, <1>2

LEMMA SpecInv == Spec => []Inv
  <1>1. Init => Inv BY InitTypes, InitAssets, InitTokens, InitCarries DEF Inv
  <1>2. Inv /\ [Next]_vars => Inv' BY NextInv
  <1> QED BY <1>1, <1>2, PTL DEF Spec

\* For any number of requests and edits: the destinations in a message were the
\* project's connections at one moment of the request, unless the read broke
\* off, and its template is the one that the ID meant at a moment of it.
THEOREM MessageWasThere == Spec => []CarriesWhatWasThere
  <1>1. Inv => CarriesWhatWasThere
    BY DEF Inv, Carries, CarriesOf, CarriesWhatWasThere
  <1> QED BY <1>1, SpecInv, PTL

\* For any number of requests and any life of a URL: a job renders the file that
\* its template names; one whose asset has stayed is not left without it unless
\* the URL has run out or the file is misplaced; and a misplaced one is not found.
THEOREM FileIsTheOne == Spec => []FetchesWhatItNames
  <1>1. ASSUME Inv PROVE FetchesWhatItNames
    <2>1. key \in Keys BY <1>1 DEF Inv, Types
    <2>2. ASSUME NEW j \in Requests, pc[j] = "rendered"
          PROVE  /\ ~Misplaced(j)
                 /\ file[j].object = IF layer[j] = "system" THEN SystemAsset ELSE Uploaded
      <3>1. /\ layer[j] \in Files /\ file[j].object = Object(layer[j])
            /\ file[j].object \in Stored
        BY <1>1, <2>2 DEF Inv, Assets, AssetsOf, Final, Video
      <3>2. CASE layer[j] = "system" BY <3>1, <3>2 DEF Object, Misplaced
      <3>3. CASE layer[j] = "project"
        <4>1. file[j].object = <<key, "logo.png">> BY <3>1, <3>3 DEF Object
        <4>2. key # "system" BY <2>1 DEF Keys
        <4>3. file[j].object # SystemAsset BY <4>1, <4>2 DEF SystemAsset
        <4>4. file[j].object = Uploaded BY <3>1, <4>3 DEF Stored
        <4>5. sanitizeKey(key) = key BY <4>1, <4>4 DEF Uploaded
        <4> QED BY <3>3, <4>4, <4>5 DEF Misplaced
      <3>4. CASE layer[j] = "payload"
        <4>1. file[j].object = <<key, "%7B%7B.logo%7D%7D">> BY <3>1, <3>4 DEF Object
        <4>2. file[j].object # SystemAsset /\ file[j].object # Uploaded
          BY <4>1 DEF SystemAsset, Uploaded
        <4> QED BY <3>1, <4>2 DEF Stored
      <3> QED BY <3>1, <3>2, <3>3, <3>4 DEF Files
    <2>3. ASSUME NEW j \in stayed, pc[j] = "unrendered", ~Misplaced(j)
          PROVE  now > file[j].until
      <3>1. j \in Requests BY <1>1 DEF Inv, Types
      <3>2. /\ layer[j] \in Files /\ file[j].object = Object(layer[j])
            /\ now > file[j].until \/ file[j].object \notin Stored
        BY <1>1, <2>3, <3>1 DEF Inv, Assets, AssetsOf, Final
      <3> QED BY <2>3, <3>2 DEF Files, Object, Stored, Uploaded, Misplaced
    <2> QED BY <2>2, <2>3 DEF FetchesWhatItNames
  <1> QED BY <1>1, SpecInv, PTL

\* For any number of jobs, tokens and replays and any life of a token: TikTok
\* refuses a delivery only after both tokens of its message have gone.
THEOREM RefusalsAreDue == Spec => []RefusedOnlyWhenSpent
  <1>1. Inv => RefusedOnlyWhenSpent
    BY DEF Inv, TokensKept, TokensOf, RefusedOnlyWhenSpent
  <1> QED BY <1>1, SpecInv, PTL
=============================================================================
