---------------------------- MODULE ContentCalendar ----------------------------
(***************************************************************************)
(* The calendar of the content plans of one client business: entries made  *)
(* by hand or generated week by week (backend/growthos/api/routes/         *)
(* planning.py), edited at any time, turned into content (services/content *)
(* generation_context.py and generation.py) and marked published with it   *)
(* (services/content/publication.py).  StrategyPlanning models where the   *)
(* plans come from, ContentWorkflow the review of the content.             *)
(*                                                                         *)
(* Generating content and recording a publication hold FOR UPDATE on the   *)
(* entry.  The other handlers lock nothing: a calendar is generated, and   *)
(* an entry edited, from what was read before.                             *)
(***************************************************************************)
EXTENDS Naturals, FiniteSets, Permissions

CONSTANTS
  Plans,     \* rows of content_plans; nothing archives them
  Period,    \* starts_on and ends_on of each plan, in days
  Days,      \* days a member asks for
  Entries,   \* ids of calendar_entries
  Contents,  \* ids of the content items made for an entry
  Presets,   \* ids of visual_presets of the business
  Requests,  \* requests under way
  Role,      \* role of the member behind each request
  None       \* SQL NULL, no row

ASSUME CalendarAssumption ==
  /\ Period \in [Plans -> [starts : Nat, ends : Nat]]
  /\ \A p \in Plans : Period[p].starts <= Period[p].ends  \* ContentPlanCreate.validate_period
  /\ Days \subseteq Nat
  /\ Role \in [Requests -> Roles]
  /\ None \notin Plans \cup Entries \cup Contents \cup Presets \cup Nat

VARIABLES
  entry,           \* calendar_entries
  item,            \* content_items: what they keep of their entry, and whether published
  calendars,       \* history: the calendars generate_calendar_mock has inserted
  overlapped,      \* history: plans that two requests were generating at one time
  presetActive,    \* visual_presets.is_active
  businessActive,  \* businesses.is_active
  request          \* what each request has read and will write

calendarVars == <<entry, calendars, overlapped>>
accessVars == <<presetActive, businessActive>>
vars == <<calendarVars, item, accessVars, request>>

EntryRows == [plan : Plans, day : Nat, preset : Presets \cup {None},
              content : Contents \cup {None}, order : Nat,
              status : {"PLANNED", "GENERATED", "PUBLISHED"}]
NoEntry == [plan |-> None, day |-> 0, preset |-> None, content |-> None, order |-> 0,
            status |-> "NONE"]

ItemRows == [entry : Entries, plan : Plans, preset : Presets \cup {None}, scheduled : Nat,
             published : BOOLEAN]
NoItem == [entry |-> None, plan |-> None, preset |-> None, scheduled |-> 0,
           published |-> FALSE]

Ops == {"none", "calendar", "create", "edit", "content"}

Request(op, target, seen, want) == [op |-> op, target |-> target, seen |-> seen, want |-> want]
NoRequest == Request("none", None, NoEntry, NoEntry)

-----------------------------------------------------------------------------
(* What the handlers ask.                                                  *)

\* require_capability, get_scoped_business and _plan.
Admitted(r, capability) ==
  /\ request[r].op = "none"
  /\ HasCapability(Role[r], capability)
  /\ businessActive

Exists(e) == entry[e] # NoEntry

\* The entries of a plan.
EntriesOf(p) == {e \in Entries : entry[e].plan = p}

InPeriod_StartOnly(p, d) == d >= Period[p].starts

\* The dates of create_calendar_entry and update_calendar_entry.
InPeriod(p, d) == d >= Period[p].starts /\ d <= Period[p].ends

\* What a plan promises of a date.
InPlan(p, d) == d \in Period[p].starts..Period[p].ends

\* _validate_preset
PresetValid(q) == q # None => presetActive[q]

PlanIsEmpty_Unchecked(p) == TRUE

\* generate_calendar_mock looks for an entry of the plan.
PlanIsEmpty(p) == EntriesOf(p) = {}

\* resolve_generation_links: an entry without content.
EntryFree(e) == entry[e].content = None

\* A row lock on the entry keeps every UPDATE of it waiting.
Unlocked(e) == \A r \in Requests : ~(request[r].op = "content" /\ request[r].target = e)

-----------------------------------------------------------------------------
(* The rows the handlers write.                                            *)

Weeks_ExclusiveEnd(p) ==
  {d \in Period[p].starts..Period[p].ends :
     d < Period[p].ends /\ (d - Period[p].starts) % 7 = 0}

\* The days of the while loop of generate_calendar_mock: the first and every seventh
\* after it, the last day of the plan included.
Weeks(p) == {d \in Period[p].starts..Period[p].ends : (d - Period[p].starts) % 7 = 0}

\* sort_order, the index of the loop.
WeekIndex(p, d) == (d - Period[p].starts) \div 7

GeneratedEntry(p, d) ==
  [plan |-> p, day |-> d, preset |-> None, content |-> None, order |-> WeekIndex(p, d),
   status |-> "GENERATED"]

PlannedEntry_Draft(p, d, q) ==
  [plan |-> p, day |-> d, preset |-> q, content |-> None, order |-> 0, status |-> "DRAFT"]

PlannedEntry(p, d, q) ==
  [plan |-> p, day |-> d, preset |-> q, content |-> None, order |-> 0, status |-> "PLANNED"]

\* A PATCH sets the date and the preset, whatever has become of the entry.
EditedEntry(e, d, q) == [entry[e] EXCEPT !.day = d, !.preset = q]

Written_WholeRow(e, seen, want) == want

\* The UPDATE names the columns whose value is no longer the one that was read.
Written(e, seen, want) ==
  [c \in DOMAIN NoEntry |-> IF want[c] = seen[c] THEN entry[e][c] ELSE want[c]]

\* The content item takes the plan, the date and, unless the entry has none, the preset
\* of its entry.
ItemFor(e, q) ==
  [entry |-> e, plan |-> entry[e].plan, preset |-> q, scheduled |-> entry[e].day,
   published |-> FALSE]

-----------------------------------------------------------------------------
Init ==
  /\ entry = [e \in Entries |-> NoEntry]
  /\ item = [c \in Contents |-> NoItem]
  /\ calendars = {}
  /\ overlapped = {}
  /\ presetActive = [q \in Presets |-> TRUE]
  /\ businessActive = TRUE
  /\ request = [r \in Requests |-> NoRequest]

Generating(r, p) == request[r].op = "calendar" /\ request[r].target = p

\* generate_calendar_mock finds no entry ...
ReadPlan(r, p) ==
  /\ Admitted(r, "CALENDAR_MANAGE")
  /\ PlanIsEmpty(p)
  /\ overlapped' = IF \E r2 \in Requests : Generating(r2, p)
                   THEN overlapped \cup {p} ELSE overlapped
  /\ request' = [request EXCEPT ![r] = Request("calendar", p, NoEntry, NoEntry)]
  /\ UNCHANGED <<entry, calendars, item, accessVars>>

\* ... and inserts one for each week of the plan, in one transaction.
GenerateCalendar(r, p) ==
  /\ Generating(r, p)
  /\ \E f \in [Weeks(p) -> {e \in Entries : ~Exists(e)}] :
       /\ \A d1, d2 \in Weeks(p) : f[d1] = f[d2] => d1 = d2
       /\ entry' = [e \in Entries |-> IF \E d \in Weeks(p) : f[d] = e
                                      THEN GeneratedEntry(p, CHOOSE d \in Weeks(p) : f[d] = e)
                                      ELSE entry[e]]
       /\ calendars' = calendars \cup {[plan |-> p, entries |-> {f[d] : d \in Weeks(p)}]}
  /\ request' = [request EXCEPT ![r] = NoRequest]
  /\ UNCHANGED <<overlapped, item, accessVars>>

\* create_calendar_entry reads the plan and the preset ...
ReadForEntry(r, p) ==
  /\ Admitted(r, "CALENDAR_MANAGE")
  /\ \E d \in Days, q \in Presets \cup {None} :
       /\ InPeriod(p, d) /\ PresetValid(q)
       /\ request' = [request EXCEPT ![r] = Request("create", p, NoEntry, PlannedEntry(p, d, q))]
  /\ UNCHANGED <<calendarVars, item, accessVars>>

\* ... and inserts the entry.
CreateEntry(r, e) ==
  /\ request[r].op = "create"
  /\ ~Exists(e)
  /\ entry' = [entry EXCEPT ![e] = request[r].want]
  /\ request' = [request EXCEPT ![r] = NoRequest]
  /\ UNCHANGED <<calendars, overlapped, item, accessVars>>

\* update_calendar_entry reads the entry, without a lock, and sets what the PATCH names.
ReadEntry(r, e) ==
  /\ Admitted(r, "CALENDAR_MANAGE")
  /\ Exists(e)
  /\ \E d \in Days, q \in Presets \cup {None} :
       /\ d = entry[e].day \/ InPeriod(entry[e].plan, d)
       /\ q = entry[e].preset \/ PresetValid(q)
       /\ request' = [request EXCEPT ![r] =
            Request("edit", e, entry[e], EditedEntry(e, d, q))]
  /\ UNCHANGED <<calendarVars, item, accessVars>>

\* Its commit.
UpdateEntry(r, e) ==
  /\ request[r].op = "edit" /\ request[r].target = e
  /\ Unlocked(e)
  /\ entry' = [entry EXCEPT ![e] = Written(e, request[r].seen, request[r].want)]
  /\ request' = [request EXCEPT ![r] = NoRequest]
  /\ UNCHANGED <<calendars, overlapped, item, accessVars>>

\* generate_content up to the locked entry: one that has no content yet.  The preset is
\* the entry's, or the payload's if the entry has none, and is active.
LockEntry(r, e) ==
  /\ Admitted(r, "CONTENT_CREATE")
  /\ Exists(e) /\ Unlocked(e)
  /\ EntryFree(e)
  /\ \E q \in Presets \cup {None} :
       /\ entry[e].preset # None => q = entry[e].preset
       /\ PresetValid(q)
       /\ request' = [request EXCEPT ![r] =
            Request("content", e, entry[e], [entry[e] EXCEPT !.preset = q])]
  /\ UNCHANGED <<calendarVars, item, accessVars>>

\* The item is inserted and the entry linked to it.
GenerateContent(r, c) ==
  LET e == request[r].target IN
  /\ request[r].op = "content"
  /\ item[c] = NoItem
  /\ item' = [item EXCEPT ![c] = ItemFor(e, request[r].want.preset)]
  /\ entry' = [entry EXCEPT ![e].content = c, ![e].status = "GENERATED"]
  /\ request' = [request EXCEPT ![r] = NoRequest]
  /\ UNCHANGED <<calendars, overlapped, accessVars>>

\* record_manual_publication of an approved item.  It holds FOR UPDATE on the item, the
\* business and the entry to its commit and writes nothing that it or another request
\* has read before: one step.
Publish(r, c) ==
  LET e == item[c].entry IN
  /\ Admitted(r, "PUBLICATION_RECORD")
  /\ item[c] # NoItem /\ ~item[c].published
  /\ Unlocked(e) /\ entry[e].content \in {None, c}
  /\ item' = [item EXCEPT ![c].published = TRUE]
  /\ entry' = [entry EXCEPT ![e].content = c, ![e].status = "PUBLISHED"]
  /\ UNCHANGED <<calendars, overlapped, accessVars, request>>

\* archive_visual_preset and archive_business: what has been read is committed all the
\* same.
ArchivePreset(q) ==
  /\ presetActive[q] /\ businessActive
  /\ presetActive' = [presetActive EXCEPT ![q] = FALSE]
  /\ UNCHANGED <<calendarVars, item, businessActive, request>>

ArchiveBusiness ==
  /\ businessActive
  /\ businessActive' = FALSE
  /\ UNCHANGED <<calendarVars, item, presetActive, request>>

\* A 404, 409 or 422, or a NOT NULL column set to null: nothing is written.
Refuse(r) ==
  /\ request[r].op # "none"
  /\ request' = [request EXCEPT ![r] = NoRequest]
  /\ UNCHANGED <<calendarVars, item, accessVars>>

PlanStep(r, p) == ReadPlan(r, p) \/ GenerateCalendar(r, p) \/ ReadForEntry(r, p)

EntryStep(r, e) == CreateEntry(r, e) \/ ReadEntry(r, e) \/ UpdateEntry(r, e) \/ LockEntry(r, e)

ContentStep(r, c) == GenerateContent(r, c) \/ Publish(r, c)

RequestStep(r) ==
  \/ \E p \in Plans : PlanStep(r, p)
  \/ \E e \in Entries : EntryStep(r, e)
  \/ \E c \in Contents : ContentStep(r, c)
  \/ Refuse(r)

Next ==
  \/ \E r \in Requests : RequestStep(r)
  \/ \E q \in Presets : ArchivePreset(q)
  \/ ArchiveBusiness

Spec == Init /\ [][Next]_vars

-----------------------------------------------------------------------------
(* Properties.                                                             *)

\* Every variable has its type.
TypeOK ==
  /\ entry \in [Entries -> EntryRows \cup {NoEntry}]
  /\ item \in [Contents -> ItemRows \cup {NoItem}]
  /\ calendars \subseteq [plan : Plans, entries : SUBSET Entries]
  /\ overlapped \subseteq Plans
  /\ presetActive \in [Presets -> BOOLEAN]
  /\ businessActive \in BOOLEAN
  /\ request \in [Requests -> [op : Ops, target : Plans \cup Entries \cup {None},
                               seen : EntryRows \cup {NoEntry},
                               want : EntryRows \cup {NoEntry}]]

\* Whoever makes, generates or edits an entry, and however old what they read is, its
\* date lies in its plan, and so does the date the content made from it is scheduled for.
DatesInPlan ==
  /\ \A e \in Entries : Exists(e) => InPlan(entry[e].plan, entry[e].day)
  /\ \A c \in Contents : item[c] # NoItem => InPlan(item[c].plan, item[c].scheduled)

\* Items and entries point at each other, one to one, within one plan, and an entry is
\* PUBLISHED exactly when its item is: an edit prepared before the entry got its
\* content, or was published, and committed after, undoes none of it.
EntryLinksAgree ==
  /\ \A c \in Contents, e \in Entries : item[c].entry = e <=> entry[e].content = c
  /\ \A c \in Contents : item[c] # NoItem =>
       /\ item[c].plan = entry[item[c].entry].plan
       /\ item[c].published <=> entry[item[c].entry].status = "PUBLISHED"
  /\ \A e \in Entries : entry[e].status = "PUBLISHED" => entry[e].content # None

\* A generated calendar has one entry of its plan for each week of the plan, the last
\* and perhaps shorter one included, and no edit of an entry takes it out.
CalendarIsWhole ==
  \A k \in calendars :
    {[plan |-> entry[e].plan, order |-> entry[e].order] : e \in k.entries} =
      {[plan |-> k.plan, order |-> w] :
         w \in 0..((Period[k.plan].ends - Period[k.plan].starts) \div 7)}

\* A plan gets a second calendar only from requests that were under way at one time:
\* nothing but the unlocked look for an entry prevents it, and one that comes after the
\* first has committed is refused.
OneCalendarUnlessOverlapped ==
  \A k1, k2 \in calendars : k1.plan = k2.plan /\ k1.plan \notin overlapped => k1 = k2
=============================================================================
