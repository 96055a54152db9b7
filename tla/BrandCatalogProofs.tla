-------------------------- MODULE BrandCatalogProofs --------------------------
(***************************************************************************)
(* Proofs about BrandCatalog: for every set of catalog rows, names, assets *)
(* and requests, presets belong to the one brand profile, archived rows    *)
(* stay archived, prompts name what a preset was, and the media table      *)
(* agrees with the object storage.                                         *)
(***************************************************************************)
EXTENDS BrandCatalog, TLAPS

-----------------------------------------------------------------------------
(* The inductive invariant.                                                *)

\* What a request has read still fits the tables when it commits.
RequestFits(r) ==
  LET q == request[r]
  IN /\ q.op = "write" =>
          /\ q.target \in Rows /\ q.want \in RowsOf(q.target)
          /\ q.seen # NoRow => /\ q.seen \in RowsOf(q.target) /\ q.seen.active
                               /\ q.want.brand = q.seen.brand
                               /\ row[q.target] # NoRow
          /\ q.target \in Presets => brands = {q.want.brand}
     /\ q.op = "prompt" => /\ q.target \in Presets /\ q.seen \in PresetRows
                           /\ Snapshot(q.target, q.seen) \in held
     /\ q.op = "brand" => q.target \in BrandIds \cup {None}
     /\ q.op = "upload" => /\ q.target \in Assets /\ asset[q.target] = "NONE"
                           /\ q.target \in files /\ q.target \notin cut
     /\ q.op = "archive" => q.target \in Assets /\ asset[q.target] # "NONE"

RequestInv == \A r \in Requests : RequestFits(r)

\* Two uploads are of two assets.
UploadsApart ==
  \A r, q \in Requests, a \in Assets : Uploading(r, a) /\ Uploading(q, a) => r = q

\* The unique index leaves one profile.
OneProfile == \A b, c \in brands : b = c

\* What a preset is now is part of what the table has held.
NowHeld == \A i \in Presets : row[i] # NoRow => Snapshot(i, row[i]) \in held

IInv ==
  /\ TypeOK /\ RequestInv /\ UploadsApart /\ OneProfile /\ NowHeld
  /\ PresetBrandConsistent /\ FilesMatchRows /\ PromptNamesItsPreset

-----------------------------------------------------------------------------
(* Rows.                                                                   *)

LEMMA NoRowApart ==
  /\ NoRow \notin ItemRows /\ NoRow \notin PresetRows
  /\ \A i \in Rows : NoRow \notin RowsOf(i) /\ RowsOf(i) \subseteq ItemRows \cup PresetRows
<1>1. NoRow.name = None
  BY DEF NoRow
<1>2. \A x \in ItemRows \cup PresetRows : x.name # None
  BY CatalogAssumption DEF ItemRows, PresetRows
<1> QED
  BY <1>1, <1>2 DEF RowsOf

LEMMA NoRequestTyped ==
  /\ NoRequest.op = "none"
  /\ NoRequest \in [op : Ops, target : Rows \cup Assets \cup BrandIds \cup {None},
                    seen : ItemRows \cup PresetRows \cup {NoRow},
                    want : ItemRows \cup PresetRows \cup {NoRow}]
  BY DEF NoRequest, Request, Ops

\* An INSERT leaves the row it was given, an UPDATE a row of the same table that keeps
\* the columns the request did not change.
LEMMA WrittenRow ==
  ASSUME NEW i \in Rows, NEW want \in RowsOf(i), NEW seen,
         \/ seen = NoRow /\ row[i] = NoRow
         \/ seen \in RowsOf(i) /\ row[i] \in RowsOf(i)
  PROVE  /\ Written(i, seen, want) \in RowsOf(i)
         /\ Written(i, seen, want).brand =
              IF want.brand = seen.brand THEN row[i].brand ELSE want.brand
         /\ Written(i, seen, want).active =
              IF want.active = seen.active THEN row[i].active ELSE want.active
<1>1. DOMAIN NoRow = {"name", "look", "logo", "brand", "version", "active"}
  BY DEF NoRow
<1>2. CASE seen = NoRow /\ row[i] = NoRow
  BY <1>1, <1>2 DEF Written, RowsOf, ItemRows, PresetRows, NoRow
<1>3. CASE seen \in RowsOf(i) /\ row[i] \in RowsOf(i)
  BY <1>1, <1>3 DEF Written, RowsOf, ItemRows, PresetRows
<1> QED
  BY <1>2, <1>3

-----------------------------------------------------------------------------
(* The initial states.                                                     *)

LEMMA InitIInv == Init => IInv
<1> SUFFICES ASSUME Init PROVE IInv
  OBVIOUS
<1>1. TypeOK
  BY NoRequestTyped DEF Init, TypeOK, AssetStatus
<1>2. \A r \in Requests : request[r].op = "none"
  BY NoRequestTyped DEF Init
<1>3. RequestInv /\ UploadsApart
  BY <1>2 DEF RequestInv, RequestFits, UploadsApart, Uploading
<1>4. OneProfile /\ NowHeld /\ PresetBrandConsistent /\ FilesMatchRows /\ PromptNamesItsPreset
  BY DEF Init, OneProfile, NowHeld, Presets, PresetBrandConsistent, FilesMatchRows,
         PromptNamesItsPreset
<1> QED
  BY <1>1, <1>3, <1>4 DEF IInv

-----------------------------------------------------------------------------
(* What a step leaves to the other requests.                               *)

\* The other requests still fit after r has moved on to x, as long as no row and no
\* asset goes away, the profile stays, and their uploads are left alone.
LEMMA OthersFit ==
  ASSUME IInv, NEW r \in Requests, NEW x,
         request' = [request EXCEPT ![r] = x],
         RequestFits(r)',
         \A i \in Rows : row[i] # NoRow => row'[i] # NoRow,
         held \subseteq held',
         brands # {} => brands' = brands,
         \A a \in Assets : asset[a] # "NONE" => asset'[a] # "NONE",
         \A q \in Requests \ {r}, a \in Assets : Uploading(q, a) =>
           asset'[a] = asset[a] /\ a \in files' /\ a \notin cut'
  PROVE  RequestInv'
<1> SUFFICES ASSUME NEW q \in Requests, q # r PROVE RequestFits(q)'
  BY DEF RequestInv
<1>1. RequestFits(q) /\ request'[q] = request[q]
  BY DEF IInv, RequestInv, TypeOK
<1>2. request[q].op = "upload" => Uploading(q, request[q].target)
  BY DEF Uploading
<1>3. request[q].op = "write" /\ request[q].target \in Presets => brands' = brands
  BY <1>1 DEF RequestFits
<1> QED
  BY <1>1, <1>2, <1>3 DEF RequestFits, Uploading

\* Nothing changes for the uploads and the files when r neither was nor is uploading.
LEMMA MediaUntouched ==
  ASSUME IInv, NEW r \in Requests, NEW x,
         request' = [request EXCEPT ![r] = x],
         request[r].op # "upload", x.op # "upload",
         UNCHANGED files, UNCHANGED cut,
         \A a \in Assets : asset'[a] = "NONE" <=> asset[a] = "NONE"
  PROVE  UploadsApart' /\ FilesMatchRows'
<1>1. request'[r] = x /\ \A q \in Requests \ {r} : request'[q] = request[q]
  BY DEF IInv, TypeOK
<1>2. \A q \in Requests, a \in Assets : Uploading(q, a)' <=> Uploading(q, a)
  BY <1>1 DEF Uploading
<1>3. UploadsApart /\ FilesMatchRows
  BY DEF IInv
<1> QED
  BY <1>2, <1>3 DEF UploadsApart, FilesMatchRows

-----------------------------------------------------------------------------
(* The steps of the catalogs.                                              *)

\* A request prepares a write that fits.
LEMMA PrepareStep ==
  ASSUME IInv, NEW r \in Requests, NEW i \in Rows, NEW want \in RowsOf(i),
         request[r].op = "none", Prepare(r, i, want),
         row[i] # NoRow => row[i].active /\ want.brand = row[i].brand,
         i \in Presets => brands = {want.brand}
  PROVE  IInv'
<1> DEFINE x == Request("write", i, row[i], want)
<1>1. /\ x.op = "write" /\ x.target = i /\ x.seen = row[i] /\ x.want = want
      /\ request' = [request EXCEPT ![r] = x] /\ request'[r] = x
  BY DEF Prepare, Request, IInv, TypeOK
<1>2. row[i] \in RowsOf(i) \cup {NoRow}
  BY DEF IInv, TypeOK
<1>3. x \in [op : Ops, target : Rows \cup Assets \cup BrandIds \cup {None},
             seen : ItemRows \cup PresetRows \cup {NoRow},
             want : ItemRows \cup PresetRows \cup {NoRow}]
  BY <1>2, NoRowApart DEF Request, Ops
<1> HIDE DEF x
<1>4. UNCHANGED <<row, held, asset, files, cut, brands, businessActive, prompt>>
  BY DEF Prepare, tableVars, mediaVars
<1>5. TypeOK'
  BY <1>1, <1>3, <1>4 DEF IInv, TypeOK
<1>6. RequestFits(r)'
  BY <1>1, <1>2, <1>4 DEF RequestFits
<1>7. RequestInv'
  <2>1. \A q \in Requests, a \in Assets : Uploading(q, a) => a \in files /\ a \notin cut
    BY DEF IInv, RequestInv, RequestFits, Uploading
  <2> QED
    BY <1>1, <1>4, <1>6, <2>1, OthersFit
<1>8. UploadsApart' /\ FilesMatchRows'
  BY <1>1, <1>4, MediaUntouched
<1>9. OneProfile' /\ NowHeld' /\ PresetBrandConsistent' /\ PromptNamesItsPreset'
  BY <1>4 DEF IInv, OneProfile, NowHeld, PresetBrandConsistent, PromptNamesItsPreset, Snapshot
<1> QED
  BY <1>5, <1>7, <1>8, <1>9 DEF IInv

LEMMA ItemStep ==
  ASSUME IInv, NEW r \in Requests, NEW i \in Rows, request[r].op = "none", i \notin Presets,
         ItemRequest(r, i)
  PROVE  IInv'
<1>1. RowsOf(i) = ItemRows /\ row[i] \in ItemRows \cup {NoRow}
  BY DEF RowsOf, IInv, TypeOK
<1>2. ASSUME NEW n \in Names, row[i] = NoRow, Prepare(r, i, NewItem(n))
      PROVE  IInv'
  <2>1. NewItem(n) \in ItemRows
    BY DEF NewItem, NoRow, ItemRows
  <2> QED
    BY <1>1, <1>2, <2>1, PrepareStep
<1>3. ASSUME NEW n \in Names, Found(i), Prepare(r, i, EditedItem(i, n))
      PROVE  IInv'
  <2>1. row[i] \in ItemRows /\ row[i].active
    BY <1>1, <1>3 DEF Found, NoRow
  <2>2. EditedItem(i, n) \in ItemRows /\ EditedItem(i, n).brand = row[i].brand
    BY <2>1 DEF EditedItem, ItemRows
  <2> QED
    BY <1>1, <1>3, <2>1, <2>2, PrepareStep
<1>4. ASSUME Found(i), Prepare(r, i, Archived(i))
      PROVE  IInv'
  <2>1. row[i] \in ItemRows /\ row[i].active
    BY <1>1, <1>4 DEF Found, NoRow
  <2>2. Archived(i) \in ItemRows /\ Archived(i).brand = row[i].brand
    BY <2>1 DEF Archived, ItemRows
  <2> QED
    BY <1>1, <1>4, <2>1, <2>2, PrepareStep
<1> QED
  BY <1>2, <1>3, <1>4 DEF ItemRequest

LEMMA PresetStep ==
  ASSUME IInv, NEW r \in Requests, NEW i \in Rows,
         CreatePreset(r, i) \/ UpdatePreset(r, i) \/ ArchivePreset(r, i)
  PROVE  IInv'
<1>1. i \in Presets /\ RowsOf(i) = PresetRows /\ request[r].op = "none"
  BY DEF CreatePreset, UpdatePreset, ArchivePreset, RowsOf, Admitted
<1>2. CASE CreatePreset(r, i)
  <2>1. PICK n \in Names, look \in Looks, logo \in Assets \cup {None}, b \in brands :
          Prepare(r, i, NewPreset(n, look, logo, b))
    BY <1>2 DEF CreatePreset
  <2>2. row[i] = NoRow /\ brands = {b}
    BY <1>2 DEF CreatePreset, IInv, OneProfile
  <2>3. NewPreset(n, look, logo, b) \in PresetRows /\ NewPreset(n, look, logo, b).brand = b
    BY CatalogAssumption DEF NewPreset, PresetRows, Versions, IInv, TypeOK
  <2> QED
    BY <1>1, <2>1, <2>2, <2>3, PrepareStep
<1>3. CASE UpdatePreset(r, i) \/ ArchivePreset(r, i)
  <2>1. row[i] # NoRow /\ row[i].active /\ row[i] \in PresetRows
    BY <1>1, <1>3 DEF UpdatePreset, ArchivePreset, Found, NoRow, IInv, TypeOK
  <2>2. brands = {row[i].brand}
    BY <1>1, <2>1 DEF IInv, PresetBrandConsistent
  <2>3. CASE UpdatePreset(r, i)
    <3>1. PICK n \in Names, look \in Looks, logo \in Assets \cup {None} :
            Prepare(r, i, EditedPreset(i, n, look, logo))
      BY <2>3 DEF UpdatePreset
    <3>2. row[i].version + 1 \in Versions
      BY <2>1, <2>3, CatalogAssumption DEF UpdatePreset, PresetRows, Versions
    <3>3. /\ EditedPreset(i, n, look, logo) \in PresetRows
          /\ EditedPreset(i, n, look, logo).brand = row[i].brand
      BY <2>1, <3>2 DEF EditedPreset, PresetRows
    <3> QED
      BY <1>1, <2>1, <2>2, <3>1, <3>3, PrepareStep
  <2>4. CASE ArchivePreset(r, i)
    <3>1. Archived(i) \in PresetRows /\ Archived(i).brand = row[i].brand
      BY <2>1 DEF Archived, PresetRows
    <3> QED
      BY <1>1, <2>1, <2>2, <2>4, <3>1, PrepareStep DEF ArchivePreset
  <2> QED
    BY <1>3, <2>3, <2>4
<1> QED
  BY <1>2, <1>3

\* The row that CommitRow writes: a new one, or the one there was with its brand, active
\* at most if it was active.
LEMMA CommittedRow ==
  ASSUME IInv, NEW r \in Requests, CommitRow(r)
  PROVE  LET i == request[r].target
             p == Written(i, request[r].seen, request[r].want)
         IN /\ i \in Rows /\ p \in RowsOf(i) /\ p # NoRow
            /\ row' = [row EXCEPT ![i] = p] /\ held' = HeldWith(i, p)
            /\ i \in Presets => brands = {p.brand}
            /\ row[i] # NoRow => (p.active => row[i].active)
<1> DEFINE q == request[r]
           p == Written(q.target, q.seen, q.want)
<1>1. /\ q.op = "write" /\ q.target \in Rows /\ q.want \in RowsOf(q.target)
      /\ q.seen # NoRow => /\ q.seen \in RowsOf(q.target) /\ q.seen.active
                           /\ q.want.brand = q.seen.brand
                           /\ row[q.target] # NoRow
      /\ q.target \in Presets => brands = {q.want.brand}
  BY DEF CommitRow, IInv, RequestInv, RequestFits
<1>2. row[q.target] \in RowsOf(q.target) \cup {NoRow}
  BY <1>1 DEF IInv, TypeOK
<1>3. q.seen = NoRow => row[q.target] = NoRow
  BY DEF CommitRow
<1>4. /\ p \in RowsOf(q.target)
      /\ p.brand = IF q.want.brand = q.seen.brand THEN row[q.target].brand ELSE q.want.brand
      /\ p.active = IF q.want.active = q.seen.active THEN row[q.target].active ELSE q.want.active
  BY <1>1, <1>2, <1>3, WrittenRow
<1>5. p # NoRow
  BY <1>1, <1>4, NoRowApart
<1>6. q.target \in Presets => brands = {p.brand}
  <2> SUFFICES ASSUME q.target \in Presets PROVE brands = {p.brand}
    OBVIOUS
  <2>1. CASE q.seen = NoRow
    <3>1. row[q.target].brand = q.seen.brand
      BY <1>3, <2>1
    <3> QED
      BY <1>1, <1>4, <3>1
  <2>2. CASE q.seen # NoRow
    <3>1. brands = {row[q.target].brand}
      BY <1>1, <2>2 DEF IInv, PresetBrandConsistent
    <3> QED
      BY <1>1, <1>4, <2>2, <3>1
  <2> QED
    BY <2>1, <2>2
<1>7. row[q.target] # NoRow => (p.active => row[q.target].active)
  <2> SUFFICES ASSUME row[q.target] # NoRow, p.active PROVE row[q.target].active
    OBVIOUS
  <2>1. q.seen.active
    BY <1>1, <1>3
  <2>2. q.seen.active \in BOOLEAN /\ q.want.active \in BOOLEAN
    BY <1>1, <1>3 DEF RowsOf, ItemRows, PresetRows
  <2> QED
    BY <1>4, <2>1, <2>2
<1> QED
  BY <1>1, <1>4, <1>5, <1>6, <1>7 DEF CommitRow

\* A request that is over, or that has not begun, fits.
LEMMA IdleFits ==
  ASSUME NEW r \in Requests, IInv, request' = [request EXCEPT ![r] = NoRequest]
  PROVE  /\ request'[r] = NoRequest /\ RequestFits(r)'
         /\ request' \in [Requests ->
              [op : Ops, target : Rows \cup Assets \cup BrandIds \cup {None},
               seen : ItemRows \cup PresetRows \cup {NoRow},
               want : ItemRows \cup PresetRows \cup {NoRow}]]
  BY NoRequestTyped DEF IInv, TypeOK, RequestFits

\* The uploads under way hold a file and no row.
LEMMA UploadsFit ==
  ASSUME IInv
  PROVE  \A q \in Requests, a \in Assets :
           Uploading(q, a) => asset[a] = "NONE" /\ a \in files /\ a \notin cut
  BY DEF IInv, RequestInv, RequestFits, Uploading

LEMMA CommitRowStep ==
  ASSUME IInv, NEW r \in Requests, CommitRow(r)
  PROVE  IInv'
<1> DEFINE i == request[r].target
           p == Written(i, request[r].seen, request[r].want)
<1>1. /\ i \in Rows /\ p \in RowsOf(i) /\ p # NoRow
      /\ row' = [row EXCEPT ![i] = p] /\ held' = HeldWith(i, p)
      /\ i \in Presets => brands = {p.brand}
  BY CommittedRow
<1>2. /\ request' = [request EXCEPT ![r] = NoRequest] /\ request[r].op = "write"
      /\ UNCHANGED <<asset, files, cut, brands, businessActive, prompt>>
  BY DEF CommitRow, mediaVars
<1> HIDE DEF p, i
<1>3. row'[i] = p /\ \A j \in Rows \ {i} : row'[j] = row[j]
  BY <1>1 DEF IInv, TypeOK
<1>4. held \subseteq held' /\ (i \in Presets => Snapshot(i, p) \in held')
  BY <1>1 DEF HeldWith
<1>5. i \in Presets => Snapshot(i, p) \in Snapshots
  BY <1>1 DEF Snapshot, Snapshots, RowsOf, PresetRows
<1>6. TypeOK'
  <2>1. p \in ItemRows \cup PresetRows
    BY <1>1, NoRowApart
  <2>2. row' \in [Rows -> ItemRows \cup PresetRows \cup {NoRow}]
    BY <1>1, <2>1 DEF IInv, TypeOK
  <2>3. \A j \in Rows : row'[j] \in RowsOf(j) \cup {NoRow}
    BY <1>1, <1>3 DEF IInv, TypeOK
  <2>4. held' \subseteq Snapshots
    BY <1>1, <1>5 DEF HeldWith, IInv, TypeOK
  <2> QED
    BY <1>2, <2>2, <2>3, <2>4, IdleFits DEF IInv, TypeOK
<1>7. RequestInv'
  BY <1>1, <1>2, <1>3, <1>4, IdleFits, UploadsFit, OthersFit
<1>8. UploadsApart' /\ FilesMatchRows'
  BY <1>2, NoRequestTyped, MediaUntouched
<1>9. NowHeld' /\ PresetBrandConsistent'
  <2> SUFFICES ASSUME NEW j \in Presets, row'[j] # NoRow
               PROVE  Snapshot(j, row'[j]) \in held' /\ brands' = {row'[j].brand}
    BY DEF NowHeld, PresetBrandConsistent, Snapshot
  <2>1. CASE j = i
    BY <1>1, <1>2, <1>3, <1>4, <2>1
  <2>2. CASE j # i
    <3>1. row'[j] = row[j]
      BY <1>3, <2>2 DEF Presets
    <3> QED
      BY <1>2, <1>4, <3>1 DEF IInv, NowHeld, PresetBrandConsistent
  <2> QED
    BY <2>1, <2>2
<1>10. OneProfile' /\ PromptNamesItsPreset'
  BY <1>2, <1>4 DEF IInv, OneProfile, PromptNamesItsPreset
<1> QED
  BY <1>6, <1>7, <1>8, <1>9, <1>10 DEF IInv

-----------------------------------------------------------------------------
(* The steps that leave the catalogs alone.                                *)

\* What they leave alone keeps its part of the invariant.
LEMMA CatalogsUntouched ==
  ASSUME IInv, UNCHANGED <<row, held>>, brands # {} => brands' = brands
  PROVE  NowHeld' /\ PresetBrandConsistent'
<1>1. NowHeld'
  BY DEF IInv, NowHeld, Snapshot
<1>2. PresetBrandConsistent'
  BY DEF IInv, PresetBrandConsistent
<1> QED
  BY <1>1, <1>2

LEMMA PromptSteps ==
  ASSUME IInv, NEW r \in Requests, PromptStep(r)
  PROVE  IInv'
<1>1. CASE AnswerPrompt(r)
  <2> DEFINE q == request[r]
  <2>1. q.target \in Presets /\ q.seen \in PresetRows /\ Snapshot(q.target, q.seen) \in held
    BY <1>1 DEF AnswerPrompt, IInv, RequestInv, RequestFits
  <2>2. /\ request' = [request EXCEPT ![r] = NoRequest] /\ request[r].op = "prompt"
        /\ prompt' = Snapshot(q.target, q.seen)
        /\ UNCHANGED <<row, held, asset, files, cut, brands, businessActive>>
    BY <1>1 DEF AnswerPrompt, Answered, tableVars, mediaVars
  <2>3. PromptNamesItsPreset'
    BY <2>1, <2>2 DEF PromptNamesItsPreset
  <2>4. TypeOK'
    BY <2>1, <2>2, IdleFits DEF IInv, TypeOK
  <2>5. RequestInv'
    BY <2>2, IdleFits, UploadsFit, OthersFit
  <2>6. UploadsApart' /\ FilesMatchRows'
    BY <2>2, NoRequestTyped, MediaUntouched
  <2> QED
    BY <2>2, <2>3, <2>4, <2>5, <2>6, CatalogsUntouched DEF IInv, OneProfile
<1>2. ASSUME NEW i \in Rows, ReadPreset(r, i)
      PROVE  IInv'
  <2> DEFINE x == Request("prompt", i, row[i], row[i])
  <2>1. /\ x.op = "prompt" /\ x.target = i /\ x.seen = row[i]
        /\ request' = [request EXCEPT ![r] = x] /\ request[r].op = "none"
        /\ UNCHANGED <<row, held, asset, files, cut, brands, businessActive, prompt>>
    BY <1>2 DEF ReadPreset, Request, Admitted, tableVars, mediaVars
  <2>2. i \in Presets /\ row[i] # NoRow /\ row[i] \in PresetRows
    BY <1>2 DEF ReadPreset, Found, NoRow, IInv, TypeOK, RowsOf
  <2>3. x \in [op : Ops, target : Rows \cup Assets \cup BrandIds \cup {None},
               seen : ItemRows \cup PresetRows \cup {NoRow},
               want : ItemRows \cup PresetRows \cup {NoRow}]
    BY <2>2 DEF Request, Ops
  <2> HIDE DEF x
  <2>4. request'[r] = x
    BY <2>1 DEF IInv, TypeOK
  <2>5. RequestFits(r)'
    BY <2>1, <2>2, <2>4 DEF RequestFits, IInv, NowHeld, Snapshot
  <2>6. TypeOK'
    BY <2>1, <2>3 DEF IInv, TypeOK
  <2>7. RequestInv'
    BY <2>1, <2>5, UploadsFit, OthersFit
  <2>8. UploadsApart' /\ FilesMatchRows'
    BY <2>1, MediaUntouched
  <2> QED
    BY <2>1, <2>6, <2>7, <2>8, CatalogsUntouched DEF IInv, OneProfile, PromptNamesItsPreset
<1> QED
  BY <1>1, <1>2 DEF PromptStep

LEMMA BrandSteps ==
  ASSUME IInv, NEW r \in Requests, BrandStep(r)
  PROVE  IInv'
<1>1. CASE ReadBrand(r)
  <2>1. PICK b \in BrandIds : request' = [request EXCEPT ![r] =
          Request("brand", IF brands = {} THEN b ELSE None, NoRow, NoRow)]
    BY <1>1 DEF ReadBrand
  <2> DEFINE x == Request("brand", IF brands = {} THEN b ELSE None, NoRow, NoRow)
  <2>2. /\ x.op = "brand" /\ x.target \in BrandIds \cup {None} /\ request[r].op = "none"
        /\ UNCHANGED <<row, held, asset, files, cut, brands, businessActive, prompt>>
    BY <1>1 DEF ReadBrand, Request, Admitted, tableVars, mediaVars
  <2>3. x \in [op : Ops, target : Rows \cup Assets \cup BrandIds \cup {None},
               seen : ItemRows \cup PresetRows \cup {NoRow},
               want : ItemRows \cup PresetRows \cup {NoRow}]
    BY DEF Request, Ops
  <2> HIDE DEF x
  <2>4. request' = [request EXCEPT ![r] = x] /\ request'[r] = x
    BY <2>1 DEF x, IInv, TypeOK
  <2>5. RequestFits(r)'
    BY <2>2, <2>4 DEF RequestFits
  <2>6. TypeOK'
    BY <2>2, <2>3, <2>4 DEF IInv, TypeOK
  <2>7. RequestInv'
    BY <2>2, <2>4, <2>5, UploadsFit, OthersFit
  <2>8. UploadsApart' /\ FilesMatchRows'
    BY <2>2, <2>4, MediaUntouched
  <2> QED
    BY <2>2, <2>6, <2>7, <2>8, CatalogsUntouched DEF IInv, OneProfile, PromptNamesItsPreset
<1>2. CASE SaveBrand(r)
  <2>1. /\ request[r].op = "brand" /\ request[r].target \in BrandIds \cup {None}
        /\ request' = [request EXCEPT ![r] = NoRequest]
        /\ UNCHANGED <<row, held, asset, files, cut, businessActive, prompt>>
    BY <1>2 DEF SaveBrand, IInv, RequestInv, RequestFits, tableVars, mediaVars
  <2>2. /\ brands # {} => brands' = brands
        /\ OneProfile' /\ brands' \subseteq BrandIds
    BY <1>2, <2>1 DEF SaveBrand, BrandFree, IInv, OneProfile, TypeOK
  <2>3. TypeOK'
    BY <2>1, <2>2, IdleFits DEF IInv, TypeOK
  <2>4. RequestInv'
    BY <2>1, <2>2, IdleFits, UploadsFit, OthersFit
  <2>5. UploadsApart' /\ FilesMatchRows'
    BY <2>1, NoRequestTyped, MediaUntouched
  <2> QED
    BY <2>1, <2>2, <2>3, <2>4, <2>5, CatalogsUntouched DEF IInv, PromptNamesItsPreset
<1> QED
  BY <1>1, <1>2 DEF BrandStep

-----------------------------------------------------------------------------
(* The steps of the media.                                                 *)

\* A media step keeps the invariant if the request it leaves is typed and fits, no row of
\* media_assets goes away, and the uploads of the other requests are left alone.
LEMMA MediaKeeps ==
  ASSUME IInv, NEW r \in Requests, NEW x,
         request' = [request EXCEPT ![r] = x],
         request' \in [Requests ->
              [op : Ops, target : Rows \cup Assets \cup BrandIds \cup {None},
               seen : ItemRows \cup PresetRows \cup {NoRow},
               want : ItemRows \cup PresetRows \cup {NoRow}]],
         RequestFits(r)',
         UNCHANGED <<row, held, brands, businessActive, prompt>>,
         asset' \in [Assets -> AssetStatus], files' \subseteq Assets, cut' \subseteq Assets,
         \A a \in Assets : asset[a] # "NONE" => asset'[a] # "NONE",
         \A q \in Requests \ {r}, a \in Assets : Uploading(q, a) =>
           asset'[a] = asset[a] /\ a \in files' /\ a \notin cut',
         UploadsApart', FilesMatchRows'
  PROVE  IInv'
<1>1. TypeOK'
  BY DEF IInv, TypeOK
<1>2. RequestInv'
  BY OthersFit
<1>3. NowHeld' /\ PresetBrandConsistent'
  BY CatalogsUntouched
<1> QED
  BY <1>1, <1>2, <1>3 DEF IInv, OneProfile, PromptNamesItsPreset

LEMMA PutFileStep ==
  ASSUME IInv, NEW r \in Requests, NEW a \in Assets, PutFile(r, a)
  PROVE  IInv'
<1> DEFINE x == Request("upload", a, NoRow, NoRow)
<1>1. /\ x.op = "upload" /\ x.target = a /\ request' = [request EXCEPT ![r] = x]
      /\ request[r].op = "none" /\ asset[a] = "NONE" /\ a \notin cut
      /\ files' = files \cup {a}
      /\ \A q \in Requests : request[q].target # a
      /\ UNCHANGED <<row, held, asset, cut, brands, businessActive, prompt>>
  BY DEF PutFile, Request, Admitted, FreshId, tableVars
<1>2. x \in [op : Ops, target : Rows \cup Assets \cup BrandIds \cup {None},
             seen : ItemRows \cup PresetRows \cup {NoRow},
             want : ItemRows \cup PresetRows \cup {NoRow}]
  BY DEF Request, Ops
<1> HIDE DEF x
<1>3. request'[r] = x /\ \A q \in Requests \ {r} : request'[q] = request[q]
  BY <1>1 DEF IInv, TypeOK
<1>4. RequestFits(r)'
  BY <1>1, <1>3 DEF RequestFits
<1>5. \A q \in Requests, b \in Assets :
        Uploading(q, b)' <=> (Uploading(q, b) \/ (q = r /\ b = a))
  BY <1>1, <1>3 DEF Uploading
<1>6. \A q \in Requests : ~Uploading(q, a)
  BY <1>1 DEF Uploading
<1>7. UploadsApart'
  BY <1>5, <1>6 DEF UploadsApart, IInv
<1>8. FilesMatchRows'
  BY <1>1, <1>5 DEF FilesMatchRows, IInv
<1>9. request' \in [Requests ->
              [op : Ops, target : Rows \cup Assets \cup BrandIds \cup {None},
               seen : ItemRows \cup PresetRows \cup {NoRow},
               want : ItemRows \cup PresetRows \cup {NoRow}]]
  BY <1>1, <1>2 DEF IInv, TypeOK
<1>10. /\ asset' \in [Assets -> AssetStatus] /\ files' \subseteq Assets
       /\ cut' \subseteq Assets
  BY <1>1 DEF IInv, TypeOK
<1> QED
  BY <1>1, <1>4, <1>7, <1>8, <1>9, <1>10, UploadsFit, MediaKeeps

\* However an upload ends, what it leaves of its asset agrees or is known to be cut.
LEMMA UploadEnds ==
  ASSUME IInv, NEW r \in Requests, NEW a \in Assets,
         CommitUpload(r, a) \/ FailUpload(r, a) \/ CutUpload(r, a)
  PROVE  IInv'
<1>1. /\ Uploading(r, a) /\ request' = [request EXCEPT ![r] = NoRequest]
      /\ UNCHANGED <<row, held, brands, businessActive, prompt>>
      /\ asset' = asset \/ asset' = [asset EXCEPT ![a] = "READY"]
      /\ files' = files \/ files' = files \ {a}
      /\ cut' = cut \/ cut' = cut \cup {a}
      /\ a \notin cut' => (asset'[a] # "NONE" <=> a \in files')
  <2>1. asset[a] = "NONE" /\ a \in files /\ a \notin cut
    BY UploadsFit DEF CommitUpload, FailUpload, CutUpload
  <2>2. CASE CommitUpload(r, a)
    BY <2>1, <2>2 DEF CommitUpload, tableVars, IInv, TypeOK
  <2>3. CASE FailUpload(r, a)
    BY <2>1, <2>3 DEF FailUpload, FilesAfterFailure, tableVars
  <2>4. CASE CutUpload(r, a)
    BY <2>4 DEF CutUpload, tableVars
  <2> QED
    BY <2>2, <2>3, <2>4
<1>2. \A q \in Requests, b \in Assets : Uploading(q, b)' <=> Uploading(q, b) /\ q # r
  BY <1>1, NoRequestTyped DEF Uploading, IInv, TypeOK
<1>3. \A q \in Requests \ {r} : ~Uploading(q, a)
  BY <1>1 DEF IInv, UploadsApart
<1>4. \A b \in Assets : b # a => /\ asset'[b] = asset[b] /\ (b \in files' <=> b \in files)
                              /\ (b \in cut' <=> b \in cut)
  BY <1>1 DEF IInv, TypeOK
<1>5. /\ asset' \in [Assets -> AssetStatus] /\ files' \subseteq Assets
      /\ cut' \subseteq Assets
      /\ \A b \in Assets : asset[b] # "NONE" => asset'[b] # "NONE"
  BY <1>1 DEF IInv, TypeOK, AssetStatus
<1>6. UploadsApart'
  BY <1>2 DEF UploadsApart, IInv
<1>7. FilesMatchRows'
  <2> SUFFICES ASSUME NEW b \in Assets, b \notin cut', \A q \in Requests : ~Uploading(q, b)'
               PROVE  asset'[b] # "NONE" <=> b \in files'
    BY DEF FilesMatchRows
  <2>1. CASE b = a
    BY <1>1, <2>1
  <2>2. CASE b # a
    <3>1. \A q \in Requests : ~Uploading(q, b)
      BY <1>1, <1>2, <2>2 DEF Uploading
    <3> QED
      BY <1>4, <2>2, <3>1 DEF IInv, FilesMatchRows
  <2> QED
    BY <2>1, <2>2
<1>8. \A q \in Requests \ {r}, b \in Assets : Uploading(q, b) =>
        asset'[b] = asset[b] /\ b \in files' /\ b \notin cut'
  BY <1>3, <1>4, UploadsFit
<1>9. /\ RequestFits(r)'
      /\ request' \in [Requests ->
              [op : Ops, target : Rows \cup Assets \cup BrandIds \cup {None},
               seen : ItemRows \cup PresetRows \cup {NoRow},
               want : ItemRows \cup PresetRows \cup {NoRow}]]
  BY <1>1, IdleFits
<1> QED
  BY <1>1, <1>5, <1>6, <1>7, <1>8, <1>9, MediaKeeps

LEMMA ArchiveAssetSteps ==
  ASSUME IInv, NEW r \in Requests, NEW a \in Assets, ReadAsset(r, a) \/ ArchiveAsset(r, a)
  PROVE  IInv'
<1>1. CASE ReadAsset(r, a)
  <2> DEFINE x == Request("archive", a, NoRow, NoRow)
  <2>1. /\ x.op = "archive" /\ x.target = a /\ request' = [request EXCEPT ![r] = x]
        /\ request[r].op = "none" /\ asset[a] = "READY"
        /\ UNCHANGED <<row, held, asset, files, cut, brands, businessActive, prompt>>
    BY <1>1 DEF ReadAsset, Request, Admitted, tableVars, mediaVars
  <2>2. x \in [op : Ops, target : Rows \cup Assets \cup BrandIds \cup {None},
               seen : ItemRows \cup PresetRows \cup {NoRow},
               want : ItemRows \cup PresetRows \cup {NoRow}]
    BY DEF Request, Ops
  <2> HIDE DEF x
  <2>3. request'[r] = x /\ RequestFits(r)'
    BY <2>1 DEF RequestFits, IInv, TypeOK
  <2>4. UploadsApart' /\ FilesMatchRows'
    BY <2>1, MediaUntouched
  <2>5. request' \in [Requests ->
              [op : Ops, target : Rows \cup Assets \cup BrandIds \cup {None},
               seen : ItemRows \cup PresetRows \cup {NoRow},
               want : ItemRows \cup PresetRows \cup {NoRow}]]
    BY <2>1, <2>2 DEF IInv, TypeOK
  <2>6. /\ asset' \in [Assets -> AssetStatus] /\ files' \subseteq Assets
        /\ cut' \subseteq Assets
    BY <2>1 DEF IInv, TypeOK
  <2> QED
    BY <2>1, <2>3, <2>4, <2>5, <2>6, UploadsFit, MediaKeeps
<1>2. CASE ArchiveAsset(r, a)
  <2>1. /\ request[r].op = "archive" /\ request[r].target = a
        /\ request' = [request EXCEPT ![r] = NoRequest]
        /\ asset' = [asset EXCEPT ![a] = "ARCHIVED"]
        /\ UNCHANGED <<row, held, files, cut, brands, businessActive, prompt>>
    BY <1>2 DEF ArchiveAsset, tableVars
  <2>2. asset[a] # "NONE"
    BY <2>1 DEF IInv, RequestInv, RequestFits
  <2>3. \A b \in Assets : asset'[b] = "NONE" <=> asset[b] = "NONE"
    BY <2>1, <2>2 DEF IInv, TypeOK
  <2>4. UploadsApart' /\ FilesMatchRows'
    BY <2>1, <2>3, NoRequestTyped, MediaUntouched
  <2>5. \A q \in Requests, b \in Assets : Uploading(q, b) => asset'[b] = asset[b]
    BY <2>1, <2>2, UploadsFit DEF IInv, TypeOK
  <2>6. /\ asset' \in [Assets -> AssetStatus] /\ files' \subseteq Assets
        /\ cut' \subseteq Assets
    BY <2>1 DEF IInv, TypeOK, AssetStatus
  <2> QED
    BY <2>1, <2>3, <2>4, <2>5, <2>6, IdleFits, UploadsFit, MediaKeeps
<1> QED
  BY <1>1, <1>2

-----------------------------------------------------------------------------
(* Every step.                                                             *)

LEMMA OtherSteps ==
  ASSUME IInv, ArchiveBusiness \/ UNCHANGED vars
  PROVE  IInv'
<1>1. UNCHANGED <<row, held, asset, files, cut, brands, prompt, request>>
  BY DEF ArchiveBusiness, vars, tableVars, mediaVars
<1>2. TypeOK'
  BY <1>1 DEF ArchiveBusiness, vars, IInv, TypeOK
<1>3. RequestInv' /\ UploadsApart' /\ FilesMatchRows'
  BY <1>1 DEF IInv, RequestInv, RequestFits, UploadsApart, FilesMatchRows, Uploading
<1> QED
  BY <1>1, <1>2, <1>3, CatalogsUntouched DEF IInv, OneProfile, PromptNamesItsPreset

LEMMA RefuseStep ==
  ASSUME IInv, NEW r \in Requests, Refuse(r)
  PROVE  IInv'
<1>1. /\ request' = [request EXCEPT ![r] = NoRequest] /\ request[r].op # "upload"
      /\ UNCHANGED <<row, held, asset, files, cut, brands, businessActive, prompt>>
  BY DEF Refuse, tableVars, mediaVars
<1>2. UploadsApart' /\ FilesMatchRows'
  BY <1>1, NoRequestTyped, MediaUntouched
<1>3. /\ asset' \in [Assets -> AssetStatus] /\ files' \subseteq Assets
      /\ cut' \subseteq Assets
  BY <1>1 DEF IInv, TypeOK
<1> QED
  BY <1>1, <1>2, <1>3, IdleFits, UploadsFit, MediaKeeps

\* The invariant is inductive.
LEMMA StepIInv == IInv /\ [Next]_vars => IInv'
<1> SUFFICES ASSUME IInv, [Next]_vars PROVE IInv'
  OBVIOUS
<1>1. ASSUME NEW r \in Requests, CatalogStep(r)
      PROVE  IInv'
  <2>1. ASSUME NEW i \in Rows,
               ServiceRequest(r, i) \/ AudienceRequest(r, i) \/ ObjectiveRequest(r, i)
        PROVE  IInv'
    BY <2>1, ItemStep
       DEF ServiceRequest, AudienceRequest, ObjectiveRequest, Admitted, Presets
  <2> QED
    BY <1>1, <2>1, CommitRowStep, PresetStep DEF CatalogStep
<1>2. ASSUME NEW r \in Requests, MediaStep(r)
      PROVE  IInv'
  BY <1>2, PutFileStep, UploadEnds, ArchiveAssetSteps DEF MediaStep
<1> QED
  BY <1>1, <1>2, PromptSteps, BrandSteps, RefuseStep, OtherSteps DEF Next

-----------------------------------------------------------------------------
(* The theorems.                                                           *)

\* The invariant holds in every reachable state, for any number of rows, assets and
\* requests.
THEOREM Invariance == Spec => []IInv
<1> QED
  BY InitIInv, StepIInv, PTL DEF Spec

\* Every variable keeps its type: a committed row has the columns of its table, whatever
\* two requests wrote over one another.
THEOREM TypeCorrect == Spec => []TypeOK
<1>1. IInv => TypeOK
  BY DEF IInv
<1> QED
  BY Invariance, <1>1, PTL

\* Every preset points at the only brand profile, however many requests created one.
THEOREM BrandsConsistent == Spec => []PresetBrandConsistent
<1>1. IInv => PresetBrandConsistent
  BY DEF IInv
<1> QED
  BY Invariance, <1>1, PTL

\* media_assets and the object storage agree but for the uploads under way and cut.
THEOREM StoresAgree == Spec => []FilesMatchRows
<1>1. IInv => FilesMatchRows
  BY DEF IInv
<1> QED
  BY Invariance, <1>1, PTL

\* A prompt names a version of its preset with the look it was made from.
THEOREM PromptsTrue == Spec => []PromptNamesItsPreset
<1>1. IInv => PromptNamesItsPreset
  BY DEF IInv
<1> QED
  BY Invariance, <1>1, PTL

\* No late commit brings an archived row back: only CommitRow writes a row, and the row
\* it writes is active only if the one that is there is.
THEOREM ArchivingIsFinal == Spec => ArchivedStaysArchived
<1>1. IInv /\ [Next]_vars =>
        [\A i \in Rows : row[i] # NoRow /\ ~row[i].active => ~row'[i].active]_vars
  <2> SUFFICES ASSUME IInv, [Next]_vars, NEW i \in Rows, row[i] # NoRow, ~row[i].active
               PROVE  ~row'[i].active
    OBVIOUS
  <2>1. ASSUME NEW r \in Requests, CommitRow(r)
        PROVE  ~row'[i].active
    BY <2>1, CommittedRow DEF IInv, TypeOK
  <2>2. CASE UNCHANGED row
    BY <2>2
  <2> QED
    BY <2>1, <2>2
       DEF Next, vars, tableVars, CatalogStep, PromptStep, BrandStep, MediaStep,
           ServiceRequest, AudienceRequest, ObjectiveRequest, ItemRequest, Prepare,
           CreatePreset, UpdatePreset, ArchivePreset, AnswerPrompt, ReadPreset, ReadBrand,
           SaveBrand, PutFile, CommitUpload, FailUpload, CutUpload, ReadAsset, ArchiveAsset,
           ArchiveBusiness, Refuse
<1> QED
  BY Invariance, <1>1, PTL DEF Spec, ArchivedStaysArchived

-----------------------------------------------------------------------------
(* Edits of one preset that do not overlap.                                *)

\* What an edit of preset i makes of the row it has read.
EditOf(seen, want) == (seen # NoRow /\ want.active) => want.version = seen.version + 1

\* Nobody has written the preset since the request that will write it has read it.
EditInv ==
  \A r \in Requests :
    LET q == request[r]
    IN (q.op = "write" /\ q.target \in Presets) =>
         row[q.target] = q.seen /\ EditOf(q.seen, q.want)

\* A step commits a row, reads one to write it, or leaves the rows as they are and
\* gives no request a row to write.
LEMMA StepKinds ==
  ASSUME IInv, [Next]_vars
  PROVE  \/ \E r \in Requests : CommitRow(r)
         \/ \E r \in Requests, i \in Rows : \E want :
              Prepare(r, i, want) /\ (i \in Presets => EditOf(row[i], want))
         \/ /\ row' = row
            /\ \E r \in Requests : \E x : x.op # "write" /\ request' = [request EXCEPT ![r] = x]
         \/ UNCHANGED <<row, request>>
<1> DEFINE Prepared == \E r \in Requests, i \in Rows : \E want :
                         Prepare(r, i, want) /\ (i \in Presets => EditOf(row[i], want))
           Aside == /\ row' = row
                    /\ \E r \in Requests : \E x :
                         x.op # "write" /\ request' = [request EXCEPT ![r] = x]
<1>1. ASSUME NEW r \in Requests, NEW i \in Rows,
             ServiceRequest(r, i) \/ AudienceRequest(r, i) \/ ObjectiveRequest(r, i)
      PROVE  Prepared
  <2>1. i \notin Presets /\ \E want : Prepare(r, i, want)
    BY <1>1 DEF ServiceRequest, AudienceRequest, ObjectiveRequest, ItemRequest, Presets
  <2> QED
    BY <2>1
<1>2. ASSUME NEW r \in Requests, NEW i \in Rows, CreatePreset(r, i)
      PROVE  Prepared
  <2>1. row[i] = NoRow /\ \E want : Prepare(r, i, want)
    BY <1>2 DEF CreatePreset
  <2> QED
    BY <2>1 DEF EditOf
<1>3. ASSUME NEW r \in Requests, NEW i \in Rows, UpdatePreset(r, i)
      PROVE  Prepared
  <2>1. PICK n, look, logo : Prepare(r, i, EditedPreset(i, n, look, logo))
    BY <1>3 DEF UpdatePreset
  <2>2. row[i] \in PresetRows
    BY <1>3 DEF UpdatePreset, Found, IInv, TypeOK, RowsOf, NoRow
  <2>3. EditOf(row[i], EditedPreset(i, n, look, logo))
    BY <2>2 DEF EditOf, EditedPreset, PresetRows
  <2> QED
    BY <2>1, <2>3
<1>4. ASSUME NEW r \in Requests, NEW i \in Rows, ArchivePreset(r, i)
      PROVE  Prepared
  <2>1. Prepare(r, i, Archived(i)) /\ row[i] \in PresetRows
    BY <1>4 DEF ArchivePreset, Found, IInv, TypeOK, RowsOf, NoRow
  <2>2. EditOf(row[i], Archived(i))
    BY <2>1 DEF EditOf, Archived, PresetRows
  <2> QED
    BY <2>1, <2>2
<1>5. ASSUME NEW r \in Requests, PromptStep(r) \/ BrandStep(r) \/ Refuse(r)
      PROVE  Aside
  BY <1>5, NoRequestTyped
     DEF PromptStep, AnswerPrompt, ReadPreset, BrandStep, ReadBrand, SaveBrand, Refuse,
         Request, tableVars
<1>6. ASSUME NEW r \in Requests, MediaStep(r)
      PROVE  Aside
  BY <1>6, NoRequestTyped
     DEF MediaStep, PutFile, CommitUpload, FailUpload, CutUpload, ReadAsset, ArchiveAsset,
         Request, tableVars
<1>7. ASSUME ArchiveBusiness \/ UNCHANGED vars
      PROVE  UNCHANGED <<row, request>>
  BY <1>7 DEF ArchiveBusiness, vars, tableVars
<1> QED
  BY <1>1, <1>2, <1>3, <1>4, <1>5, <1>6, <1>7 DEF Next, CatalogStep

\* What is committed over the row that was read is what the request wanted.
LEMMA WrittenAlone ==
  ASSUME NEW i \in Presets, NEW want \in PresetRows, row[i] \in PresetRows
  PROVE  /\ Written(i, row[i], want).version = want.version
         /\ Written(i, row[i], want).active = want.active
BY DEF Written, PresetRows, NoRow

\* As long as no two edits of a preset overlap, none is stale when it commits.
LEMMA EditStep == IInv /\ EditInv /\ EditsApart /\ [Next]_vars => EditInv'
<1> SUFFICES ASSUME IInv, EditInv, EditsApart, [Next]_vars PROVE EditInv'
  OBVIOUS
<1>t. DOMAIN request = Requests /\ DOMAIN row = Rows
  BY DEF IInv, TypeOK
<1>1. ASSUME NEW r \in Requests, CommitRow(r) PROVE EditInv'
  <2>1. request[r].op = "write" /\ request'[r].op = "none"
    BY <1>t, <1>1, NoRequestTyped DEF CommitRow
  <2>2. \A q \in Requests \ {r} :
          /\ request'[q] = request[q]
          /\ (request[q].op = "write" /\ request[q].target \in Presets) =>
               row'[request[q].target] = row[request[q].target]
    BY <1>t, <1>1, <2>1 DEF CommitRow, EditsApart
  <2> QED
    BY <2>1, <2>2 DEF EditInv
<1>2. ASSUME NEW r \in Requests, NEW i \in Rows, NEW want, Prepare(r, i, want),
             i \in Presets => EditOf(row[i], want)
      PROVE  EditInv'
  <2>1. /\ request'[r] = Request("write", i, row[i], want) /\ row' = row
        /\ \A q \in Requests \ {r} : request'[q] = request[q]
    BY <1>t, <1>2 DEF Prepare, tableVars
  <2> QED
    BY <1>2, <2>1 DEF EditInv, Request
<1>3. ASSUME NEW r \in Requests, NEW x, x.op # "write", row' = row,
             request' = [request EXCEPT ![r] = x]
      PROVE  EditInv'
  BY <1>t, <1>3 DEF EditInv
<1>4. CASE UNCHANGED <<row, request>>
  BY <1>4 DEF EditInv
<1> QED
  BY <1>1, <1>2, <1>3, <1>4, StepKinds

\* The version conflict of two edits is the only way a preset can change and keep its
\* version: while no two requests that write one preset are between read and commit at
\* the same time, every change of a preset in use moves its version on by one.
THEOREM VersionsRiseUnlessOverlapped == Spec /\ []EditsApart => EditRaisesVersion
<1> DEFINE Raised ==
      \A i \in Presets : (row[i] # NoRow /\ row'[i] # row[i] /\ row'[i].active) =>
        row'[i].version = row[i].version + 1
<1>1. Init => EditInv
  BY NoRequestTyped DEF Init, EditInv
<1>2. Spec /\ []EditsApart => []EditInv
  BY Invariance, <1>1, EditStep, PTL DEF Spec
<1>3. IInv /\ EditInv /\ [Next]_vars => [Raised]_vars
  <2> SUFFICES ASSUME IInv, EditInv, [Next]_vars, NEW i \in Presets,
                      row[i] # NoRow, row'[i] # row[i], row'[i].active
               PROVE  row'[i].version = row[i].version + 1
    OBVIOUS
  <2>1. PICK r \in Requests : CommitRow(r)
    BY StepKinds DEF Prepare, tableVars
  <2> DEFINE q == request[r]
  <2>2. i = q.target /\ q.op = "write" /\ row'[i] = Written(i, q.seen, q.want)
    BY <2>1 DEF CommitRow, IInv, TypeOK
  <2>3. q.seen = row[i] /\ EditOf(q.seen, q.want)
    BY <2>2 DEF EditInv
  <2>4. row[i] \in PresetRows /\ q.want \in PresetRows
    BY <2>2 DEF IInv, TypeOK, RequestInv, RequestFits, RowsOf, Presets
  <2>5. /\ Written(i, row[i], q.want).version = q.want.version
        /\ Written(i, row[i], q.want).active = q.want.active
    BY <2>4, WrittenAlone
  <2>6. row'[i].version = q.want.version /\ row'[i].active = q.want.active
    BY <2>2, <2>3, <2>5
  <2> QED
    BY <2>3, <2>6 DEF EditOf
<1> QED
  BY Invariance, <1>2, <1>3, PTL DEF Spec, EditRaisesVersion
=============================================================================
