----------------------------- MODULE BrandCatalog -----------------------------
(***************************************************************************)
(* What content is made from: the brand profile of one client business     *)
(* (backend/growthos/api/routes/businesses.py), its services, audiences,   *)
(* objectives and versioned visual presets (routes/catalogs.py), and its   *)
(* media, whose rows are in PostgreSQL and whose files are in the object   *)
(* storage (routes/media.py, services/storage.py).                         *)
(*                                                                         *)
(* No handler here locks what it reads.  A request is two steps: its       *)
(* SELECTs, with the ORM object it leaves in memory, and its commit, in    *)
(* between which other requests commit.  The SELECTs of one handler are    *)
(* one step because what else could happen between them is what could      *)
(* happen before the first: the business and the assets only leave the     *)
(* states the SELECTs ask for, and a brand profile is never replaced.      *)
(***************************************************************************)
EXTENDS Naturals, FiniteSets, Permissions

CONSTANTS
  Rows,        \* ids of catalog rows
  Kind,        \* the table of each of them
  Names,       \* names of catalog rows
  Looks,       \* everything else an edit of a preset may change, but its logo
  Assets,      \* ids of media_assets, one per upload; the object key holds the id
  BrandIds,    \* ids of brand_profiles
  Requests,    \* requests under way
  Role,        \* role of the member behind each request
  MaxVersion,  \* bound: version a preset may reach
  None         \* SQL NULL, no row

Kinds == {"SERVICE", "AUDIENCE", "OBJECTIVE", "PRESET"}
Presets == {i \in Rows : Kind[i] = "PRESET"}
Items == Rows \ Presets
Versions == 1..MaxVersion

ASSUME CatalogAssumption ==
  /\ Kind \in [Rows -> Kinds]
  /\ Role \in [Requests -> Roles]
  /\ MaxVersion \in Nat \ {0}
  /\ None \notin Names \cup Looks \cup Assets \cup BrandIds \cup Rows

VARIABLES
  row,             \* services, audience_segments, marketing_objectives, visual_presets
  brands,          \* brand_profiles of the business
  businessActive,  \* businesses.is_active
  asset,           \* media_assets.processing_status, "NONE" without a row
  files,           \* assets whose file is in the object storage
  cut,             \* uploads that ended without knowing what the storage or the commit did
  held,            \* what the visual_presets table has held, by version
  prompt,          \* the last visual prompt or snapshot answered, with its preset_version
  request          \* what each request has read and will write

tableVars == <<row, held>>
mediaVars == <<asset, files, cut>>
vars == <<tableVars, mediaVars, brands, businessActive, prompt, request>>

NoRow == [name |-> None, look |-> None, logo |-> None, brand |-> None,
          version |-> 0, active |-> FALSE]
ItemRows == [name : Names, look : {None}, logo : {None}, brand : {None},
             version : {0}, active : BOOLEAN]
PresetRows == [name : Names, look : Looks, logo : Assets \cup {None}, brand : BrandIds,
               version : Versions, active : BOOLEAN]
RowsOf(i) == IF i \in Presets THEN PresetRows ELSE ItemRows

AssetStatus == {"NONE", "READY", "ARCHIVED"}

\* A preset as a visual prompt or a content version records it.
Snapshots == [preset : Presets, version : Versions, look : Looks, logo : Assets \cup {None}]
Ops == {"none", "write", "prompt", "brand", "upload", "archive"}

Request(op, target, seen, want) == [op |-> op, target |-> target, seen |-> seen, want |-> want]
NoRequest == Request("none", None, NoRow, NoRow)

-----------------------------------------------------------------------------
(* What the handlers ask before they write.                                *)

\* require_capability, and get_scoped_business of the one business.
Admitted(r, capability) ==
  /\ request[r].op = "none"
  /\ HasCapability(Role[r], capability)
  /\ businessActive

\* _service, _audience, _objective, _preset: only a row that is not archived is found.
Found(i) == row[i].active

\* _validate_logo_asset
LogoReady(logo) == logo # None => asset[logo] = "READY"

\* The brand the row points at is the one _brand_profile returns.
BrandConsistent(i) == row[i].brand \in brands

BrandFree_NoIndex(b) == b \notin brands

\* The unique index uq_brand_org_business.
BrandFree(b) == brands = {}

\* The unique constraint on the name of each table, which archived rows keep.
NameFree(i, n) == \A j \in Rows \ {i} : Kind[j] = Kind[i] => row[j].name # n

-----------------------------------------------------------------------------
(* The row a handler has in memory when it commits.                        *)

NewItem(n) == [NoRow EXCEPT !.name = n, !.active = TRUE]

NewPreset_NoBrand(n, look, logo, b) ==
  [name |-> n, look |-> look, logo |-> logo, brand |-> None, version |-> 1, active |-> TRUE]

NewPreset(n, look, logo, b) ==
  [name |-> n, look |-> look, logo |-> logo, brand |-> b, version |-> 1, active |-> TRUE]

\* A PATCH sets any of the columns; version += 1 is on the version that was read.
EditedPreset(i, n, look, logo) ==
  [row[i] EXCEPT !.name = n, !.look = look, !.logo = logo, !.version = @ + 1]

EditedItem(i, n) == [row[i] EXCEPT !.name = n]

Archived(i) == [row[i] EXCEPT !.active = FALSE]

Written_WholeRow(i, seen, want) == want

\* The UPDATE names the columns whose value is no longer the one that was read.
Written(i, seen, want) ==
  [c \in DOMAIN NoRow |-> IF want[c] = seen[c] THEN row[i][c] ELSE want[c]]

Snapshot(i, p) == [preset |-> i, version |-> p.version, look |-> p.look, logo |-> p.logo]

\* What visual_presets holds once i has become p.
HeldWith(i, p) == IF i \in Presets THEN held \cup {Snapshot(i, p)} ELSE held

Answered_AfterCommit(i, seen) == Snapshot(i, [seen EXCEPT !.version = row[i].version])

\* The prompt and its preset_version come from the same read: the session keeps
\* what it read after the commit (expire_on_commit is off).
Answered(i, seen) == Snapshot(i, seen)

FilesAfterFailure_Kept(a) == files

\* upload_media deletes the file when the commit fails.
FilesAfterFailure(a) == files \ {a}

-----------------------------------------------------------------------------
Init ==
  /\ row = [i \in Rows |-> NoRow]
  /\ brands = {}
  /\ businessActive = TRUE
  /\ asset = [a \in Assets |-> "NONE"]
  /\ files = {}
  /\ cut = {}
  /\ held = {}
  /\ prompt = None
  /\ request = [r \in Requests |-> NoRequest]

\* The request has read row i and will write it as want.
Prepare(r, i, want) ==
  /\ request' = [request EXCEPT ![r] = Request("write", i, row[i], want)]
  /\ UNCHANGED <<tableVars, mediaVars, brands, businessActive, prompt>>

\* create_*, update_* and archive_* of the catalogs without versions.
ItemRequest(r, i) ==
  \/ \E n \in Names : row[i] = NoRow /\ Prepare(r, i, NewItem(n))
  \/ \E n \in Names : Found(i) /\ Prepare(r, i, EditedItem(i, n))
  \/ Found(i) /\ Prepare(r, i, Archived(i))

ServiceRequest(r, i) ==
  Kind[i] = "SERVICE" /\ Admitted(r, "SERVICE_MANAGE") /\ ItemRequest(r, i)

AudienceRequest(r, i) ==
  Kind[i] = "AUDIENCE" /\ Admitted(r, "AUDIENCE_MANAGE") /\ ItemRequest(r, i)

ObjectiveRequest(r, i) ==
  Kind[i] = "OBJECTIVE" /\ Admitted(r, "OBJECTIVE_MANAGE") /\ ItemRequest(r, i)

\* create_visual_preset
CreatePreset(r, i) ==
  /\ i \in Presets /\ row[i] = NoRow
  /\ Admitted(r, "PRESET_MANAGE")
  /\ \E n \in Names, look \in Looks, logo \in Assets \cup {None}, b \in brands :
       LogoReady(logo) /\ Prepare(r, i, NewPreset(n, look, logo, b))

\* update_visual_preset: the logo is checked after the changes are applied.
UpdatePreset(r, i) ==
  /\ i \in Presets /\ Found(i) /\ BrandConsistent(i)
  /\ row[i].version < MaxVersion
  /\ Admitted(r, "PRESET_MANAGE")
  /\ \E n \in Names, look \in Looks, logo \in Assets \cup {None} :
       LogoReady(logo) /\ Prepare(r, i, EditedPreset(i, n, look, logo))

\* archive_visual_preset
ArchivePreset(r, i) ==
  /\ i \in Presets /\ Found(i)
  /\ Admitted(r, "PRESET_MANAGE")
  /\ Prepare(r, i, Archived(i))

\* The INSERT or the UPDATE and its COMMIT; an IntegrityError is a Refuse.
CommitRow(r) ==
  LET q == request[r]  p == Written(q.target, q.seen, q.want) IN
  /\ q.op = "write"
  /\ q.seen = NoRow => row[q.target] = NoRow
  /\ NameFree(q.target, p.name)
  /\ row' = [row EXCEPT ![q.target] = p]
  /\ held' = HeldWith(q.target, p)
  /\ request' = [request EXCEPT ![r] = NoRequest]
  /\ UNCHANGED <<mediaVars, brands, businessActive, prompt>>

\* The reads of generate_visual_prompt, which wants a logo that is there, and of
\* generate_content, which does not ask.
ReadPreset(r, i) ==
  /\ i \in Presets /\ Found(i) /\ BrandConsistent(i)
  /\ \/ Admitted(r, "VISUAL_PROMPT_GENERATE") /\ LogoReady(row[i].logo)
     \/ Admitted(r, "CONTENT_CREATE")
  /\ request' = [request EXCEPT ![r] = Request("prompt", i, row[i], row[i])]
  /\ UNCHANGED <<tableVars, mediaVars, brands, businessActive, prompt>>

\* The commit and the answer, or the snapshot in the content version.
AnswerPrompt(r) ==
  /\ request[r].op = "prompt"
  /\ prompt' = Answered(request[r].target, request[r].seen)
  /\ request' = [request EXCEPT ![r] = NoRequest]
  /\ UNCHANGED <<tableVars, mediaVars, brands, businessActive>>

\* upsert_brand_profile looks for the profile.
ReadBrand(r) ==
  /\ Admitted(r, "BRAND_MANAGE")
  /\ \E b \in BrandIds :
       request' = [request EXCEPT ![r] =
         Request("brand", IF brands = {} THEN b ELSE None, NoRow, NoRow)]
  /\ UNCHANGED <<tableVars, mediaVars, brands, businessActive, prompt>>

\* It inserts the profile it did not find or changes columns no preset depends on.
\* The loser of two inserts gets an IntegrityError that nothing catches: a Refuse.
SaveBrand(r) ==
  LET b == request[r].target IN
  /\ request[r].op = "brand"
  /\ b # None => BrandFree(b)
  /\ brands' = IF b = None THEN brands ELSE brands \cup {b}
  /\ request' = [request EXCEPT ![r] = NoRequest]
  /\ UNCHANGED <<tableVars, mediaVars, businessActive, prompt>>

-----------------------------------------------------------------------------
(* Media.                                                                  *)

\* No request has this asset id: uuid4.
FreshId(a) ==
  /\ asset[a] = "NONE" /\ a \notin files \cup cut
  /\ \A r \in Requests : request[r].target # a

\* upload_media up to storage.put: the file is in the storage before there is a row.
PutFile(r, a) ==
  /\ Admitted(r, "MEDIA_UPLOAD")
  /\ FreshId(a)
  /\ files' = files \cup {a}
  /\ request' = [request EXCEPT ![r] = Request("upload", a, NoRow, NoRow)]
  /\ UNCHANGED <<tableVars, asset, cut, brands, businessActive, prompt>>

Uploading(r, a) == request[r].op = "upload" /\ request[r].target = a

\* The row is committed.
CommitUpload(r, a) ==
  /\ Uploading(r, a)
  /\ asset' = [asset EXCEPT ![a] = "READY"]
  /\ request' = [request EXCEPT ![r] = NoRequest]
  /\ UNCHANGED <<tableVars, files, cut, brands, businessActive, prompt>>

\* The commit is refused and the file deleted.
FailUpload(r, a) ==
  /\ Uploading(r, a)
  /\ files' = FilesAfterFailure(a)
  /\ request' = [request EXCEPT ![r] = NoRequest]
  /\ UNCHANGED <<tableVars, asset, cut, brands, businessActive, prompt>>

\* The process ends, or storage.put or storage.delete fails, with the file stored and
\* no row; or the commit took place, its reply is lost, and the handler deletes the
\* file of a row that is there.
CutUpload(r, a) ==
  /\ Uploading(r, a)
  /\ \/ UNCHANGED <<asset, files>>
     \/ asset' = [asset EXCEPT ![a] = "READY"] /\ files' = files \ {a}
  /\ cut' = cut \cup {a}
  /\ request' = [request EXCEPT ![r] = NoRequest]
  /\ UNCHANGED <<tableVars, brands, businessActive, prompt>>

\* archive_media: _scoped_asset finds a row that is not archived ...
ReadAsset(r, a) ==
  /\ Admitted(r, "MEDIA_MANAGE")
  /\ asset[a] = "READY"
  /\ request' = [request EXCEPT ![r] = Request("archive", a, NoRow, NoRow)]
  /\ UNCHANGED <<tableVars, mediaVars, brands, businessActive, prompt>>

\* ... and the row is archived; its file stays where it is.
ArchiveAsset(r, a) ==
  /\ request[r].op = "archive" /\ request[r].target = a
  /\ asset' = [asset EXCEPT ![a] = "ARCHIVED"]
  /\ request' = [request EXCEPT ![r] = NoRequest]
  /\ UNCHANGED <<tableVars, files, cut, brands, businessActive, prompt>>

-----------------------------------------------------------------------------
\* archive_business.  What has been read is committed all the same.
ArchiveBusiness ==
  /\ businessActive
  /\ businessActive' = FALSE
  /\ UNCHANGED <<tableVars, mediaVars, brands, prompt, request>>

\* A 404, 409 or 500: nothing is written.
Refuse(r) ==
  /\ request[r].op \in {"write", "prompt", "brand", "archive"}
  /\ request' = [request EXCEPT ![r] = NoRequest]
  /\ UNCHANGED <<tableVars, mediaVars, brands, businessActive, prompt>>

CatalogStep(r) ==
  \/ CommitRow(r)
  \/ \E i \in Rows : ServiceRequest(r, i) \/ AudienceRequest(r, i) \/ ObjectiveRequest(r, i)
  \/ \E i \in Rows : CreatePreset(r, i) \/ UpdatePreset(r, i) \/ ArchivePreset(r, i)

PromptStep(r) == AnswerPrompt(r) \/ \E i \in Rows : ReadPreset(r, i)

BrandStep(r) == ReadBrand(r) \/ SaveBrand(r)

MediaStep(r) ==
  \E a \in Assets : \/ PutFile(r, a) \/ CommitUpload(r, a) \/ FailUpload(r, a)
                    \/ CutUpload(r, a) \/ ReadAsset(r, a) \/ ArchiveAsset(r, a)

Next ==
  \/ ArchiveBusiness
  \/ \E r \in Requests : CatalogStep(r) \/ PromptStep(r) \/ BrandStep(r) \/ MediaStep(r)
                         \/ Refuse(r)

Spec == Init /\ [][Next]_vars

-----------------------------------------------------------------------------
(* Properties.                                                             *)

\* Every variable has its type: a row has the columns of its table, and a request that
\* writes a row has read that row or none.
TypeOK ==
  /\ row \in [Rows -> ItemRows \cup PresetRows \cup {NoRow}]
  /\ \A i \in Rows : row[i] \in RowsOf(i) \cup {NoRow}
  /\ brands \subseteq BrandIds
  /\ businessActive \in BOOLEAN
  /\ asset \in [Assets -> AssetStatus]
  /\ files \subseteq Assets /\ cut \subseteq Assets
  /\ held \subseteq Snapshots
  /\ prompt \in Snapshots \cup {None}
  /\ request \in [Requests -> [op : Ops, target : Rows \cup Assets \cup BrandIds \cup {None},
                               seen : ItemRows \cup PresetRows \cup {NoRow},
                               want : ItemRows \cup PresetRows \cup {NoRow}]]

\* Two requests that both found no brand profile do not both make one: every preset
\* points at the only profile of the business, so that the answer "Preset visual
\* inconsistente" of update_visual_preset and generate_visual_prompt never comes.
PresetBrandConsistent ==
  \A i \in Presets : row[i] # NoRow => brands = {row[i].brand}

\* The two stores agree.  Unless an upload is under way, or ended without knowing what
\* became of it, a row of media_assets, archived ones included, has its file and no file
\* is without a row, whichever of put, commit and delete has failed.
FilesMatchRows ==
  \A a \in Assets :
    (a \notin cut /\ \A r \in Requests : ~Uploading(r, a)) => (asset[a] # "NONE" <=> a \in files)

\* The version a prompt or a content version names is one the preset had with exactly
\* the look and the logo the prompt was made from, although the preset may have been
\* edited between the read and the answer.
PromptNamesItsPreset == prompt # None => prompt \in held

\* An edit prepared before a row was archived, and committed after, changes columns of
\* the archived row; it never brings the row back.
ArchivedStaysArchived ==
  [][\A i \in Rows : row[i] # NoRow /\ ~row[i].active => ~row'[i].active]_vars

\* docs/04-modelo-de-dados.md says the version column is there for optimistic control: a
\* conflicting edit gets an error and overwrites nothing silently.  So a change that
\* sets a version moves on, by one, the version the row then has.
EditRaisesVersion ==
  [][\A i \in Presets : (row[i] # NoRow /\ row'[i] # row[i] /\ row'[i].active) =>
       row'[i].version = row[i].version + 1]_vars

\* The condition under which it does: no two requests that write one preset are
\* between read and commit at the same time.
EditsApart ==
  \A r, q \in Requests :
    (r # q /\ request[r].op = "write" /\ request[q].op = "write") =>
      request[r].target # request[q].target \/ request[r].target \notin Presets
=============================================================================
