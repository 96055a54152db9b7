------------------------- MODULE ContentCalendarProofs -------------------------
(***************************************************************************)
(* Proofs about ContentCalendar: for every set of plans, whatever their    *)
(* periods, and for every number of entries, items and requests, dates lie *)
(* in their plans, entries and items point at each other, and a calendar   *)
(* is whole and, but for overlapping requests, the only one of its plan.   *)
(***************************************************************************)
EXTENDS ContentCalendar, TLAPS

-----------------------------------------------------------------------------
(* The inductive invariant.                                                *)

\* What a request has read and will write still fits the entries when it commits.
RequestFits(r) ==
  LET q == request[r]
  IN /\ q.op = "calendar" => q.target \in Plans
     /\ q.op = "create" => /\ q.want \in EntryRows /\ InPlan(q.want.plan, q.want.day)
                           /\ q.want.content = None /\ q.want.status = "PLANNED"
     /\ q.op = "edit" => /\ q.target \in Entries /\ Exists(q.target)
                         /\ q.seen \in EntryRows /\ q.want \in EntryRows
                         /\ InPlan(q.want.plan, q.want.day)
                         /\ entry[q.target].plan = q.seen.plan /\ q.want.plan = q.seen.plan
                         /\ q.want.content = q.seen.content /\ q.want.status = q.seen.status
                         /\ q.want.order = q.seen.order
     /\ q.op = "content" => /\ q.target \in Entries /\ Exists(q.target)
                            /\ entry[q.target].content = None
                            /\ q.want \in EntryRows

RequestInv == \A r \in Requests : RequestFits(r)

\* One request holds the lock of an entry.
LocksApart ==
  \A r1, r2 \in Requests :
    request[r1].op = "content" /\ request[r2].op = "content"
      /\ request[r1].target = request[r2].target => r1 = r2

\* The entries of a calendar stay entries of its plan, and it has some.
CalendarsKept ==
  \A k \in calendars :
    k.entries # {} /\ \A e \in k.entries : Exists(e) /\ entry[e].plan = k.plan

\* Unless requests overlapped, who generates a plan is alone and its first.
FirstAndAlone ==
  \A r \in Requests, p \in Plans : Generating(r, p) /\ p \notin overlapped =>
    /\ \A r2 \in Requests : Generating(r2, p) => r2 = r
    /\ \A k \in calendars : k.plan # p

IInv ==
  /\ TypeOK /\ RequestInv /\ LocksApart /\ CalendarsKept /\ FirstAndAlone
  /\ DatesInPlan /\ EntryLinksAgree /\ CalendarIsWhole /\ OneCalendarUnlessOverlapped

RequestType ==
  [op : Ops, target : Plans \cup Entries \cup {None}, seen : EntryRows \cup {NoEntry},
   want : EntryRows \cup {NoEntry}]

-----------------------------------------------------------------------------
(* The weeks of a plan.                                                    *)

\* The days of a calendar and the numbers of its weeks correspond one to one.
LEMMA WeeksCovered ==
  ASSUME NEW p \in Plans
  PROVE  /\ Weeks(p) # {} /\ Weeks(p) \subseteq Nat
         /\ \A d \in Weeks(p) : InPlan(p, d) /\ WeekIndex(p, d) \in Nat
         /\ {WeekIndex(p, d) : d \in Weeks(p)} = 0..((Period[p].ends - Period[p].starts) \div 7)
<1> DEFINE s == Period[p].starts  t == Period[p].ends
<1>1. s \in Nat /\ t \in Nat /\ s <= t
  BY CalendarAssumption
<1> HIDE DEF s, t
<1>2. Weeks(p) = {d \in s..t : (d - s) % 7 = 0} /\ \A d : WeekIndex(p, d) = (d - s) \div 7
  BY DEF Weeks, WeekIndex, s, t
<1>3. s \in Weeks(p)
  BY <1>1, <1>2
<1>4. \A d \in Weeks(p) : d \in s..t /\ d \in Nat
  BY <1>1, <1>2
<1>5. \A d \in Weeks(p) : WeekIndex(p, d) \in 0..((t - s) \div 7)
  BY <1>1, <1>2
<1>6. ASSUME NEW w \in 0..((t - s) \div 7)
      PROVE  \E d \in Weeks(p) : WeekIndex(p, d) = w
  <2>1. s + 7 * w \in s..t
    BY <1>1, <1>6
  <2>2. ((s + 7 * w) - s) % 7 = 0 /\ ((s + 7 * w) - s) \div 7 = w
    BY <1>1, <1>6
  <2> QED
    BY <1>2, <2>1, <2>2
<1> QED
  BY <1>1, <1>3, <1>4, <1>5, <1>6 DEF InPlan, s, t

\* A date that has passed the handler's two comparisons lies in the plan.
LEMMA PeriodIsPlan ==
  ASSUME NEW p \in Plans, NEW d \in Nat, InPeriod(p, d)
  PROVE  InPlan(p, d)
  BY CalendarAssumption DEF InPeriod, InPlan

LEMMA NoEntryApart ==
  /\ NoEntry \notin EntryRows /\ NoEntry.content = None /\ NoEntry.plan = None
  /\ None \notin Plans /\ None \notin Contents /\ None \notin Entries
  /\ \A x \in EntryRows : x # NoEntry /\ x.plan \in Plans
<1>1. NoEntry.plan = None /\ NoEntry.content = None
  BY DEF NoEntry
<1>2. \A x \in EntryRows : x.plan \in Plans
  BY DEF EntryRows
<1> QED
  BY <1>1, <1>2, CalendarAssumption

LEMMA NoRequestFits == NoRequest \in RequestType /\ NoRequest.op = "none"
  BY DEF NoRequest, Request, RequestType, Ops

-----------------------------------------------------------------------------
(* The initial states.                                                     *)

LEMMA InitIInv == Init => IInv
<1> SUFFICES ASSUME Init PROVE IInv
  OBVIOUS
<1>1. TypeOK
  BY NoRequestFits DEF Init, TypeOK, RequestType
<1>2. \A r \in Requests : request[r].op = "none"
  BY NoRequestFits DEF Init
<1>3. RequestInv /\ LocksApart /\ FirstAndAlone
  BY <1>2 DEF RequestInv, RequestFits, LocksApart, FirstAndAlone, Generating
<1>4. CalendarsKept /\ CalendarIsWhole /\ OneCalendarUnlessOverlapped
  BY DEF Init, CalendarsKept, CalendarIsWhole, OneCalendarUnlessOverlapped
<1>5. DatesInPlan
  BY DEF Init, DatesInPlan, Exists
<1>6. EntryLinksAgree
  BY NoEntryApart DEF Init, EntryLinksAgree, NoItem, NoEntry
<1> QED
  BY <1>1, <1>3, <1>4, <1>5, <1>6 DEF IInv

-----------------------------------------------------------------------------
(* What the steps have in common.                                          *)

\* The other requests still fit if no entry goes away or changes its plan, and the locked
\* ones are left alone.
LEMMA OthersFit ==
  ASSUME IInv, NEW r \in Requests, NEW x,
         request' = [request EXCEPT ![r] = x],
         RequestFits(r)',
         \A e \in Entries : Exists(e) => Exists(e)' /\ entry'[e].plan = entry[e].plan,
         \A q \in Requests \ {r} : request[q].op = "content" =>
           entry'[request[q].target] = entry[request[q].target]
  PROVE  RequestInv'
<1> SUFFICES ASSUME NEW q \in Requests, q # r PROVE RequestFits(q)'
  BY DEF RequestInv
<1>1. RequestFits(q) /\ request'[q] = request[q]
  BY DEF IInv, RequestInv, TypeOK
<1> QED
  BY <1>1 DEF RequestFits, Exists

\* A request that is over fits, and leaves the locks and the generators apart.
LEMMA RequestEnds ==
  ASSUME IInv, NEW r \in Requests, request' = [request EXCEPT ![r] = NoRequest]
  PROVE  /\ request' \in [Requests -> RequestType] /\ RequestFits(r)' /\ LocksApart'
         /\ UNCHANGED <<calendars, overlapped>> => FirstAndAlone'
<1>1. request'[r] = NoRequest /\ \A q \in Requests \ {r} : request'[q] = request[q]
  BY DEF IInv, TypeOK
<1>2. request' \in [Requests -> RequestType]
  BY NoRequestFits DEF IInv, TypeOK, RequestType
<1>3. RequestFits(r)'
  BY <1>1, NoRequestFits DEF RequestFits
<1>4. LocksApart'
  BY <1>1, NoRequestFits DEF IInv, LocksApart
<1>5. \A q \in Requests, p \in Plans : Generating(q, p)' => Generating(q, p)
  BY <1>1, NoRequestFits DEF Generating
<1>6. UNCHANGED <<calendars, overlapped>> => FirstAndAlone'
  BY <1>5 DEF IInv, FirstAndAlone
<1> QED
  BY <1>2, <1>3, <1>4, <1>6

\* The calendars there are stay whole and kept when the entries keep plan and order.
LEMMA CalendarsStay ==
  ASSUME IInv,
         \A e \in Entries : Exists(e) =>
           Exists(e)' /\ entry'[e].plan = entry[e].plan /\ entry'[e].order = entry[e].order
  PROVE  \A k \in calendars :
           /\ k.entries # {} /\ \A e \in k.entries : Exists(e)' /\ entry'[e].plan = k.plan
           /\ {[plan |-> entry'[e].plan, order |-> entry'[e].order] : e \in k.entries} =
                {[plan |-> k.plan, order |-> w] :
                   w \in 0..((Period[k.plan].ends - Period[k.plan].starts) \div 7)}
<1> SUFFICES ASSUME NEW k \in calendars
             PROVE  /\ k.entries # {}
                    /\ \A e \in k.entries : Exists(e)' /\ entry'[e].plan = k.plan
                    /\ {[plan |-> entry'[e].plan, order |-> entry'[e].order] : e \in k.entries} =
                        {[plan |-> k.plan, order |-> w] :
                          w \in 0..((Period[k.plan].ends - Period[k.plan].starts) \div 7)}
  OBVIOUS
<1>1. k.entries \subseteq Entries
  BY DEF IInv, TypeOK
<1>2. k.entries # {} /\ \A e \in k.entries : Exists(e) /\ entry[e].plan = k.plan
  BY DEF IInv, CalendarsKept
<1>3. \A e \in k.entries : /\ Exists(e)' /\ entry'[e].plan = k.plan
                           /\ entry'[e].plan = entry[e].plan /\ entry'[e].order = entry[e].order
  BY <1>1, <1>2
<1>4. {[plan |-> entry'[e].plan, order |-> entry'[e].order] : e \in k.entries} =
        {[plan |-> entry[e].plan, order |-> entry[e].order] : e \in k.entries}
  BY <1>3
<1> QED
  BY <1>2, <1>3, <1>4 DEF IInv, CalendarIsWhole

\* A step that changes nothing but what a request has read and who overlapped.
LEMMA RequestOnly ==
  ASSUME IInv, NEW r \in Requests, NEW x \in RequestType,
         request' = [request EXCEPT ![r] = x],
         RequestFits(r)', LocksApart', FirstAndAlone',
         UNCHANGED <<entry, item, calendars, presetActive, businessActive>>,
         overlapped \subseteq overlapped', overlapped' \subseteq Plans
  PROVE  IInv'
<1>1. request' \in [Requests -> RequestType]
  BY DEF IInv, TypeOK, RequestType
<1>2. TypeOK'
  BY <1>1 DEF IInv, TypeOK, RequestType
<1>3. RequestInv'
  BY OthersFit DEF Exists
<1>4. CalendarsKept' /\ CalendarIsWhole'
  BY DEF IInv, CalendarsKept, CalendarIsWhole, Exists
<1>5. DatesInPlan' /\ EntryLinksAgree' /\ OneCalendarUnlessOverlapped'
  BY DEF IInv, DatesInPlan, EntryLinksAgree, OneCalendarUnlessOverlapped, Exists
<1> QED
  BY <1>2, <1>3, <1>4, <1>5 DEF IInv

\* A request that ends with a write to the entries or the items.
LEMMA RequestWrites ==
  ASSUME IInv, NEW r \in Requests,
         request' = [request EXCEPT ![r] = NoRequest],
         UNCHANGED <<calendars, overlapped, presetActive, businessActive>>,
         entry' \in [Entries -> EntryRows \cup {NoEntry}],
         item' \in [Contents -> ItemRows \cup {NoItem}],
         \A e \in Entries : Exists(e) =>
           Exists(e)' /\ entry'[e].plan = entry[e].plan /\ entry'[e].order = entry[e].order,
         \A q \in Requests \ {r} : request[q].op = "content" =>
           entry'[request[q].target] = entry[request[q].target],
         DatesInPlan', EntryLinksAgree'
  PROVE  IInv'
<1>1. TypeOK'
  BY RequestEnds DEF IInv, TypeOK, RequestType
<1>2. RequestInv'
  BY RequestEnds, OthersFit
<1>3. CalendarsKept' /\ CalendarIsWhole'
  BY CalendarsStay DEF CalendarsKept, CalendarIsWhole
<1>4. LocksApart' /\ FirstAndAlone'
  BY RequestEnds
<1>5. OneCalendarUnlessOverlapped'
  BY DEF IInv, OneCalendarUnlessOverlapped
<1> QED
  BY <1>1, <1>2, <1>3, <1>4, <1>5 DEF IInv

-----------------------------------------------------------------------------
(* The reads.                                                              *)

LEMMA ReadPlanStep ==
  ASSUME IInv, NEW r \in Requests, NEW p \in Plans, ReadPlan(r, p)
  PROVE  IInv'
<1> DEFINE x == Request("calendar", p, NoEntry, NoEntry)
<1>1. /\ x.op = "calendar" /\ x.target = p /\ request' = [request EXCEPT ![r] = x]
      /\ request[r].op = "none" /\ PlanIsEmpty(p)
      /\ UNCHANGED <<entry, item, calendars, presetActive, businessActive>>
      /\ overlapped' = IF \E r2 \in Requests : Generating(r2, p)
                       THEN overlapped \cup {p} ELSE overlapped
  BY DEF ReadPlan, Admitted, Request, accessVars
<1>2. x \in RequestType
  BY DEF Request, RequestType, Ops
<1> HIDE DEF x
<1>3. request'[r] = x /\ \A q \in Requests \ {r} : request'[q] = request[q]
  BY <1>1 DEF IInv, TypeOK
<1>4. RequestFits(r)'
  BY <1>1, <1>3 DEF RequestFits
<1>5. LocksApart'
  BY <1>1, <1>3 DEF IInv, LocksApart
<1>6. FirstAndAlone'
  <2>1. \A k \in calendars : k.plan # p
    <3> SUFFICES ASSUME NEW k \in calendars, k.plan = p PROVE FALSE
      OBVIOUS
    <3>1. PICK e \in k.entries : entry[e].plan = p
      BY DEF IInv, CalendarsKept
    <3>2. e \in EntriesOf(p)
      BY <3>1 DEF EntriesOf, IInv, TypeOK
    <3> QED
      BY <1>1, <3>2 DEF PlanIsEmpty
  <2>2. \A q \in Requests, p2 \in Plans :
          Generating(q, p2)' <=> (Generating(q, p2) \/ (q = r /\ p2 = p))
    BY <1>1, <1>3 DEF Generating
  <2>3. p \notin overlapped' => \A q \in Requests : ~Generating(q, p)
    BY <1>1
  <2>4. overlapped \subseteq overlapped' /\ UNCHANGED calendars
    BY <1>1
  <2> SUFFICES ASSUME NEW q \in Requests, NEW p2 \in Plans, Generating(q, p2)',
                      p2 \notin overlapped'
               PROVE  /\ \A r2 \in Requests : Generating(r2, p2)' => r2 = q
                      /\ \A k \in calendars' : k.plan # p2
    BY DEF FirstAndAlone
  <2>5. CASE p2 = p
    BY <2>1, <2>2, <2>3, <2>4, <2>5
  <2>6. CASE p2 # p
    BY <2>2, <2>4, <2>6 DEF IInv, FirstAndAlone
  <2> QED
    BY <2>5, <2>6
<1>7. overlapped \subseteq overlapped' /\ overlapped' \subseteq Plans
  BY <1>1 DEF IInv, TypeOK
<1> QED
  BY <1>1, <1>2, <1>4, <1>5, <1>6, <1>7, RequestOnly

\* A request that begins, but does not generate a calendar, leaves the generators apart.
LEMMA NoGenerator ==
  ASSUME IInv, NEW r \in Requests, NEW x, x.op # "calendar",
         request' = [request EXCEPT ![r] = x], UNCHANGED <<calendars, overlapped>>
  PROVE  FirstAndAlone'
<1>1. request'[r] = x /\ \A q \in Requests \ {r} : request'[q] = request[q]
  BY DEF IInv, TypeOK
<1>2. \A q \in Requests, p \in Plans : Generating(q, p)' => Generating(q, p)
  BY <1>1 DEF Generating
<1> QED
  BY <1>2 DEF IInv, FirstAndAlone

LEMMA EntryReads ==
  ASSUME IInv, NEW r \in Requests,
         \/ \E p \in Plans : ReadForEntry(r, p)
         \/ \E e \in Entries : ReadEntry(r, e)
  PROVE  IInv'
<1>1. ASSUME NEW x \in RequestType, x.op \in {"create", "edit"},
             request' = [request EXCEPT ![r] = x], RequestFits(r)',
             UNCHANGED <<calendarVars, item, accessVars>>
      PROVE  IInv'
  <2>1. request'[r] = x /\ \A q \in Requests \ {r} : request'[q] = request[q]
    BY <1>1 DEF IInv, TypeOK
  <2>2. LocksApart'
    BY <1>1, <2>1 DEF IInv, LocksApart
  <2>3. UNCHANGED <<entry, item, calendars, overlapped, presetActive, businessActive>>
    BY <1>1 DEF calendarVars, accessVars
  <2>4. overlapped' \subseteq Plans
    BY <2>3 DEF IInv, TypeOK
  <2> QED
    BY <1>1, <2>2, <2>3, <2>4, NoGenerator, RequestOnly
<1>2. ASSUME NEW p \in Plans, ReadForEntry(r, p)
      PROVE  IInv'
  <2>1. PICK d \in Days, q \in Presets \cup {None} :
          /\ InPeriod(p, d)
          /\ request' = [request EXCEPT ![r] = Request("create", p, NoEntry, PlannedEntry(p, d, q))]
    BY <1>2 DEF ReadForEntry
  <2> DEFINE w == PlannedEntry(p, d, q)
             x == Request("create", p, NoEntry, w)
  <2>2. /\ w \in EntryRows /\ InPlan(w.plan, w.day) /\ w.content = None
        /\ w.status = "PLANNED"
    BY <2>1, PeriodIsPlan, CalendarAssumption DEF PlannedEntry, EntryRows
  <2> HIDE DEF w
  <2>3. x \in RequestType /\ x.op = "create" /\ x.want = w
    BY <2>2 DEF Request, RequestType, Ops
  <2> HIDE DEF x
  <2>4. request' = [request EXCEPT ![r] = x]
    BY <2>1 DEF x, w
  <2>5. request'[r] = x
    BY <2>4 DEF IInv, TypeOK
  <2>6. RequestFits(r)'
    BY <2>2, <2>3, <2>5 DEF RequestFits, InPlan
  <2> QED
    BY <1>1, <1>2, <2>3, <2>4, <2>6 DEF ReadForEntry
<1>3. ASSUME NEW e \in Entries, ReadEntry(r, e)
      PROVE  IInv'
  <2>1. PICK d \in Days, q \in Presets \cup {None} :
          /\ d = entry[e].day \/ InPeriod(entry[e].plan, d)
          /\ request' = [request EXCEPT ![r] =
               Request("edit", e, entry[e], EditedEntry(e, d, q))]
    BY <1>3 DEF ReadEntry
  <2>2. Exists(e) /\ entry[e] \in EntryRows /\ entry[e].plan \in Plans
    BY <1>3, NoEntryApart DEF ReadEntry, Exists, IInv, TypeOK
  <2>3. InPlan(entry[e].plan, d)
    BY <2>1, <2>2, PeriodIsPlan, CalendarAssumption DEF IInv, DatesInPlan
  <2> DEFINE w == EditedEntry(e, d, q)
             x == Request("edit", e, entry[e], w)
  <2>4. /\ w \in EntryRows /\ w.plan = entry[e].plan /\ w.day = d /\ w.order = entry[e].order
        /\ w.content = entry[e].content /\ w.status = entry[e].status
    BY <2>2, CalendarAssumption DEF EditedEntry, EntryRows
  <2> HIDE DEF w
  <2>5. /\ x \in RequestType /\ x.op = "edit" /\ x.want = w /\ x.seen = entry[e]
        /\ x.target = e
    BY <2>2, <2>4 DEF Request, RequestType, Ops
  <2> HIDE DEF x
  <2>6. request' = [request EXCEPT ![r] = x] /\ UNCHANGED entry
    BY <1>3, <2>1 DEF x, w, ReadEntry, calendarVars
  <2>7. request'[r] = x
    BY <2>6 DEF IInv, TypeOK
  <2>8. RequestFits(r)'
    BY <2>2, <2>3, <2>4, <2>5, <2>6, <2>7 DEF RequestFits, InPlan, Exists
  <2> QED
    BY <1>1, <1>3, <2>5, <2>6, <2>8 DEF ReadEntry
<1> QED
  BY <1>2, <1>3

LEMMA LockEntryStep ==
  ASSUME IInv, NEW r \in Requests, NEW e \in Entries, LockEntry(r, e)
  PROVE  IInv'
<1>1. PICK q \in Presets \cup {None} :
        request' = [request EXCEPT ![r] =
          Request("content", e, entry[e], [entry[e] EXCEPT !.preset = q])]
  BY DEF LockEntry
<1> DEFINE w == [entry[e] EXCEPT !.preset = q]
           x == Request("content", e, entry[e], w)
<1>2. /\ Exists(e) /\ entry[e].content = None /\ Unlocked(e) /\ request[r].op = "none"
      /\ UNCHANGED <<entry, item, calendars, overlapped, presetActive, businessActive>>
  BY DEF LockEntry, EntryFree, Admitted, calendarVars, accessVars
<1>3. entry[e] \in EntryRows
  BY <1>2 DEF Exists, IInv, TypeOK
<1>4. w \in EntryRows
  BY <1>3 DEF EntryRows
<1> HIDE DEF w
<1>5. x \in RequestType /\ x.op = "content" /\ x.target = e /\ x.want = w
  BY <1>3, <1>4 DEF Request, RequestType, Ops
<1> HIDE DEF x
<1>6. /\ request' = [request EXCEPT ![r] = x]
      /\ request'[r] = x /\ \A q2 \in Requests \ {r} : request'[q2] = request[q2]
  BY <1>1 DEF w, x, IInv, TypeOK
<1>7. RequestFits(r)'
  BY <1>2, <1>4, <1>5, <1>6 DEF RequestFits, Exists
<1>8. LocksApart'
  BY <1>2, <1>5, <1>6 DEF IInv, LocksApart, Unlocked
<1>9. overlapped' \subseteq Plans
  BY <1>2 DEF IInv, TypeOK
<1> QED
  BY <1>2, <1>5, <1>6, <1>7, <1>8, <1>9, NoGenerator, RequestOnly

LEMMA RefuseStep ==
  ASSUME IInv, NEW r \in Requests, Refuse(r)
  PROVE  IInv'
<1>1. /\ request' = [request EXCEPT ![r] = NoRequest]
      /\ UNCHANGED <<entry, item, calendars, overlapped, presetActive, businessActive>>
  BY DEF Refuse, calendarVars, accessVars
<1>2. overlapped' \subseteq Plans
  BY <1>1 DEF IInv, TypeOK
<1> QED
  BY <1>1, <1>2, RequestEnds, NoRequestFits, RequestOnly

-----------------------------------------------------------------------------
(* The writes.                                                             *)

\* The links are as they were where plan, content and status are.
LEMMA LinksStay ==
  ASSUME IInv, UNCHANGED item, entry' \in [Entries -> EntryRows \cup {NoEntry}],
         \A e \in Entries : /\ entry'[e].content = entry[e].content
                            /\ entry'[e].status = "PUBLISHED" <=> entry[e].status = "PUBLISHED"
                            /\ Exists(e) => entry'[e].plan = entry[e].plan
  PROVE  EntryLinksAgree'
<1>1. \A c \in Contents : item[c] # NoItem => item[c].entry \in Entries
  BY DEF IInv, TypeOK, ItemRows
<1>2. \A c \in Contents : item[c] # NoItem => Exists(item[c].entry)
  <2> SUFFICES ASSUME NEW c \in Contents, item[c] # NoItem PROVE Exists(item[c].entry)
    OBVIOUS
  <2>1. entry[item[c].entry].content = c
    BY <1>1 DEF IInv, EntryLinksAgree
  <2> QED
    BY <2>1, NoEntryApart DEF Exists
<1> QED
  BY <1>1, <1>2 DEF IInv, EntryLinksAgree

LEMMA CreateEntryStep ==
  ASSUME IInv, NEW r \in Requests, NEW e \in Entries, CreateEntry(r, e)
  PROVE  IInv'
<1> DEFINE w == request[r].want
<1>1. /\ request[r].op = "create" /\ ~Exists(e) /\ entry' = [entry EXCEPT ![e] = w]
      /\ request' = [request EXCEPT ![r] = NoRequest]
      /\ UNCHANGED <<calendars, overlapped, item, presetActive, businessActive>>
  BY DEF CreateEntry, accessVars
<1>2. /\ w \in EntryRows /\ InPlan(w.plan, w.day) /\ w.content = None /\ w.status = "PLANNED"
  BY <1>1 DEF IInv, RequestInv, RequestFits
<1> HIDE DEF w
<1>3. entry'[e] = w /\ \A e2 \in Entries \ {e} : entry'[e2] = entry[e2]
  BY <1>1 DEF IInv, TypeOK
<1>4. entry' \in [Entries -> EntryRows \cup {NoEntry}] /\ item' \in [Contents -> ItemRows \cup {NoItem}]
  BY <1>1, <1>2 DEF IInv, TypeOK
<1>5. \A e2 \in Entries : Exists(e2) => entry'[e2] = entry[e2] /\ Exists(e2)'
  BY <1>1, <1>3 DEF Exists
<1>6. \A q \in Requests \ {r} : request[q].op = "content" =>
        entry'[request[q].target] = entry[request[q].target]
  BY <1>5 DEF IInv, RequestInv, RequestFits
<1>7. DatesInPlan'
  BY <1>1, <1>2, <1>3 DEF IInv, DatesInPlan, Exists, InPlan
<1>8. EntryLinksAgree'
  <2>1. entry[e] = NoEntry /\ entry[e].content = None /\ entry[e].status = "NONE"
    BY <1>1 DEF Exists, NoEntry
  <2> QED
    BY <1>1, <1>2, <1>3, <1>4, <1>5, <2>1, LinksStay
<1> QED
  BY <1>1, <1>4, <1>5, <1>6, <1>7, <1>8, RequestWrites

LEMMA UpdateEntryStep ==
  ASSUME IInv, NEW r \in Requests, NEW e \in Entries, UpdateEntry(r, e)
  PROVE  IInv'
<1> DEFINE q == request[r]
           p == Written(e, q.seen, q.want)
<1>1. /\ q.op = "edit" /\ q.target = e /\ Unlocked(e) /\ entry' = [entry EXCEPT ![e] = p]
      /\ request' = [request EXCEPT ![r] = NoRequest]
      /\ UNCHANGED <<calendars, overlapped, item, presetActive, businessActive>>
  BY DEF UpdateEntry, accessVars
<1>2. /\ Exists(e) /\ q.seen \in EntryRows /\ q.want \in EntryRows
      /\ InPlan(q.want.plan, q.want.day) /\ entry[e].plan = q.seen.plan
      /\ q.want.plan = q.seen.plan /\ q.want.content = q.seen.content
      /\ q.want.status = q.seen.status /\ q.want.order = q.seen.order
  BY <1>1 DEF IInv, RequestInv, RequestFits
<1>3. entry[e] \in EntryRows /\ InPlan(entry[e].plan, entry[e].day)
  BY <1>2 DEF Exists, IInv, TypeOK, DatesInPlan
<1>4. DOMAIN NoEntry = {"plan", "day", "preset", "content", "order", "status"}
  BY DEF NoEntry
<1>5. /\ p.plan = entry[e].plan /\ p.content = entry[e].content /\ p.status = entry[e].status
      /\ p.order = entry[e].order /\ p.day \in {entry[e].day, q.want.day}
  BY <1>2, <1>4 DEF Written
<1>6. p \in EntryRows
  BY <1>2, <1>3, <1>4 DEF Written, EntryRows
<1> HIDE DEF p, q
<1>7. entry'[e] = p /\ \A e2 \in Entries \ {e} : entry'[e2] = entry[e2]
  BY <1>1 DEF IInv, TypeOK
<1>8. entry' \in [Entries -> EntryRows \cup {NoEntry}] /\ item' \in [Contents -> ItemRows \cup {NoItem}]
  BY <1>1, <1>6 DEF IInv, TypeOK
<1>9. \A e2 \in Entries : Exists(e2) =>
        Exists(e2)' /\ entry'[e2].plan = entry[e2].plan /\ entry'[e2].order = entry[e2].order
  BY <1>5, <1>6, <1>7, NoEntryApart DEF Exists
<1>10. \A q2 \in Requests \ {r} : request[q2].op = "content" =>
         entry'[request[q2].target] = entry[request[q2].target]
  BY <1>1, <1>7 DEF IInv, RequestInv, RequestFits, Unlocked
<1>11. DatesInPlan'
  <2>1. InPlan(p.plan, p.day)
    BY <1>2, <1>3, <1>5
  <2> QED
    BY <1>1, <1>7, <2>1 DEF IInv, DatesInPlan, Exists, InPlan
<1>12. EntryLinksAgree'
  BY <1>1, <1>5, <1>7, <1>8, <1>9, LinksStay
<1> QED
  BY <1>1, <1>8, <1>9, <1>10, <1>11, <1>12, RequestWrites

\* An item linked to an entry is the only one, and the entry points back.
LEMMA GenerateContentStep ==
  ASSUME IInv, NEW r \in Requests, NEW c \in Contents, GenerateContent(r, c)
  PROVE  IInv'
<1> DEFINE e == request[r].target
           x == ItemFor(e, request[r].want.preset)
           w == [entry[e] EXCEPT !.content = c, !.status = "GENERATED"]
<1>1. /\ request[r].op = "content" /\ item[c] = NoItem /\ item' = [item EXCEPT ![c] = x]
      /\ entry' = [entry EXCEPT ![e] = w] /\ request' = [request EXCEPT ![r] = NoRequest]
      /\ UNCHANGED <<calendars, overlapped, presetActive, businessActive>>
  BY DEF GenerateContent, accessVars
<1>2. e \in Entries /\ Exists(e) /\ entry[e].content = None /\ request[r].want \in EntryRows
  BY <1>1 DEF IInv, RequestInv, RequestFits
<1>3. entry[e] \in EntryRows
  BY <1>2 DEF Exists, IInv, TypeOK
<1>4. /\ x \in ItemRows /\ x.entry = e /\ x.plan = entry[e].plan /\ x.scheduled = entry[e].day
      /\ x.published = FALSE /\ x # NoItem
  <2>1. x \in ItemRows /\ x.entry = e /\ x.plan = entry[e].plan /\ x.scheduled = entry[e].day
        /\ x.published = FALSE
    BY <1>2, <1>3 DEF ItemFor, ItemRows, EntryRows
  <2> QED
    BY <1>2, <2>1, NoEntryApart DEF NoItem
<1>5. /\ w \in EntryRows /\ w.plan = entry[e].plan /\ w.day = entry[e].day
      /\ w.order = entry[e].order /\ w.content = c /\ w.status = "GENERATED"
  BY <1>3 DEF EntryRows
<1> HIDE DEF x, w, e
<1>6. /\ entry'[e] = w /\ \A e2 \in Entries \ {e} : entry'[e2] = entry[e2]
      /\ item'[c] = x /\ \A c2 \in Contents \ {c} : item'[c2] = item[c2]
  BY <1>1, <1>2 DEF IInv, TypeOK
<1>7. entry' \in [Entries -> EntryRows \cup {NoEntry}] /\ item' \in [Contents -> ItemRows \cup {NoItem}]
  BY <1>1, <1>4, <1>5 DEF IInv, TypeOK
<1>8. \A e2 \in Entries : Exists(e2) =>
        Exists(e2)' /\ entry'[e2].plan = entry[e2].plan /\ entry'[e2].order = entry[e2].order
  BY <1>5, <1>6, NoEntryApart DEF Exists
<1>9. \A q2 \in Requests \ {r} : request[q2].op = "content" =>
         entry'[request[q2].target] = entry[request[q2].target]
  BY <1>1, <1>6 DEF IInv, RequestInv, RequestFits, LocksApart, e
<1>10. DatesInPlan'
  <2>1. InPlan(entry[e].plan, entry[e].day)
    BY <1>2 DEF IInv, DatesInPlan
  <2>2. \A e2 \in Entries : Exists(e2)' => InPlan(entry'[e2].plan, entry'[e2].day)
    BY <1>5, <1>6, <2>1 DEF IInv, DatesInPlan, Exists
  <2>3. \A c2 \in Contents : item'[c2] # NoItem => InPlan(item'[c2].plan, item'[c2].scheduled)
    BY <1>4, <1>6, <2>1 DEF IInv, DatesInPlan
  <2> QED
    BY <2>2, <2>3 DEF DatesInPlan, InPlan
<1>11. EntryLinksAgree'
  <2>1. \A c2 \in Contents : item[c2].entry # e
    BY <1>2, NoEntryApart DEF IInv, EntryLinksAgree
  <2>2. \A e2 \in Entries : entry[e2].content # c
    BY <1>1, NoEntryApart DEF IInv, EntryLinksAgree, NoItem
  <2>3. \A c2 \in Contents, e2 \in Entries : item'[c2].entry = e2 <=> entry'[e2].content = c2
    BY <1>2, <1>4, <1>5, <1>6, <2>1, <2>2 DEF IInv, EntryLinksAgree
  <2>4. \A c2 \in Contents : item'[c2] # NoItem =>
          /\ item'[c2].plan = entry'[item'[c2].entry].plan
          /\ item'[c2].published <=> entry'[item'[c2].entry].status = "PUBLISHED"
    <3> SUFFICES ASSUME NEW c2 \in Contents, item'[c2] # NoItem
                 PROVE  /\ item'[c2].plan = entry'[item'[c2].entry].plan
                        /\ item'[c2].published <=> entry'[item'[c2].entry].status = "PUBLISHED"
      OBVIOUS
    <3>1. CASE c2 = c
      BY <1>4, <1>5, <1>6, <3>1
    <3>2. CASE c2 # c
      <4>1. item'[c2] = item[c2] /\ item[c2].entry \in Entries /\ item[c2].entry # e
        BY <1>6, <2>1, <3>2 DEF IInv, TypeOK, ItemRows
      <4> QED
        BY <1>6, <4>1 DEF IInv, EntryLinksAgree
    <3> QED
      BY <3>1, <3>2
  <2>5. \A e2 \in Entries : entry'[e2].status = "PUBLISHED" => entry'[e2].content # None
    BY <1>5, <1>6 DEF IInv, EntryLinksAgree
  <2> QED
    BY <2>3, <2>4, <2>5 DEF EntryLinksAgree
<1> QED
  BY <1>1, <1>7, <1>8, <1>9, <1>10, <1>11, RequestWrites

LEMMA PublishStep ==
  ASSUME IInv, NEW r \in Requests, NEW c \in Contents, Publish(r, c)
  PROVE  IInv'
<1> DEFINE e == item[c].entry
           x == [item[c] EXCEPT !.published = TRUE]
           w == [entry[e] EXCEPT !.content = c, !.status = "PUBLISHED"]
<1>1. /\ item[c] # NoItem /\ Unlocked(e) /\ item' = [item EXCEPT ![c] = x]
      /\ entry' = [entry EXCEPT ![e] = w]
      /\ UNCHANGED <<calendars, overlapped, presetActive, businessActive, request>>
  BY DEF Publish, accessVars
<1>2. item[c] \in ItemRows /\ e \in Entries /\ entry[e].content = c
  <2>1. item[c] \in ItemRows
    BY <1>1 DEF IInv, TypeOK
  <2>2. e \in Entries
    BY <2>1 DEF ItemRows
  <2> QED
    BY <2>1, <2>2 DEF IInv, EntryLinksAgree
<1>3. Exists(e) /\ entry[e] \in EntryRows
  BY <1>2, NoEntryApart DEF Exists, IInv, TypeOK
<1>4. /\ x \in ItemRows /\ x # NoItem /\ x.entry = e /\ x.plan = item[c].plan
      /\ x.scheduled = item[c].scheduled /\ x.published = TRUE
  BY <1>2 DEF ItemRows, NoItem
<1>5. /\ w \in EntryRows /\ w.plan = entry[e].plan /\ w.day = entry[e].day
      /\ w.order = entry[e].order /\ w.content = c /\ w.status = "PUBLISHED"
  BY <1>3 DEF EntryRows
<1>6. \A c2 \in Contents : item[c2] # NoItem /\ item[c2].entry = e => c2 = c
  BY <1>2 DEF IInv, EntryLinksAgree
<1> HIDE DEF x, w, e
<1>7. /\ entry'[e] = w /\ \A e2 \in Entries \ {e} : entry'[e2] = entry[e2]
      /\ item'[c] = x /\ \A c2 \in Contents \ {c} : item'[c2] = item[c2]
  BY <1>1, <1>2 DEF IInv, TypeOK
<1>8. TypeOK'
  BY <1>1, <1>4, <1>5 DEF IInv, TypeOK
<1>9. \A e2 \in Entries : Exists(e2) =>
        Exists(e2)' /\ entry'[e2].plan = entry[e2].plan /\ entry'[e2].order = entry[e2].order
  BY <1>5, <1>7, NoEntryApart DEF Exists
<1>10. RequestInv'
  <2>1. \A q \in Requests : request[q].op = "content" =>
          entry'[request[q].target] = entry[request[q].target]
    BY <1>1, <1>7 DEF IInv, RequestInv, RequestFits, Unlocked
  <2> QED
    BY <1>1, <1>9, <2>1 DEF IInv, RequestInv, RequestFits, Exists
<1>11. LocksApart' /\ FirstAndAlone' /\ OneCalendarUnlessOverlapped'
  BY <1>1 DEF IInv, LocksApart, FirstAndAlone, Generating, OneCalendarUnlessOverlapped
<1>12. CalendarsKept' /\ CalendarIsWhole'
  BY <1>1, <1>9, CalendarsStay DEF CalendarsKept, CalendarIsWhole
<1>13. DatesInPlan'
  <2>1. \A e2 \in Entries : Exists(e2)' => InPlan(entry'[e2].plan, entry'[e2].day)
    BY <1>2, <1>3, <1>5, <1>7 DEF IInv, DatesInPlan, Exists
  <2>2. \A c2 \in Contents : item'[c2] # NoItem => InPlan(item'[c2].plan, item'[c2].scheduled)
    BY <1>1, <1>4, <1>7 DEF IInv, DatesInPlan
  <2> QED
    BY <2>1, <2>2 DEF DatesInPlan, InPlan
<1>14. EntryLinksAgree'
  <2>1. \A c2 \in Contents, e2 \in Entries : item'[c2].entry = e2 <=> entry'[e2].content = c2
    BY <1>2, <1>4, <1>5, <1>7 DEF IInv, EntryLinksAgree, e
  <2>2. \A c2 \in Contents : item'[c2] # NoItem =>
          /\ item'[c2].plan = entry'[item'[c2].entry].plan
          /\ item'[c2].published <=> entry'[item'[c2].entry].status = "PUBLISHED"
    <3> SUFFICES ASSUME NEW c2 \in Contents, item'[c2] # NoItem
                 PROVE  /\ item'[c2].plan = entry'[item'[c2].entry].plan
                        /\ item'[c2].published <=> entry'[item'[c2].entry].status = "PUBLISHED"
      OBVIOUS
    <3>1. CASE c2 = c
      BY <1>1, <1>4, <1>5, <1>7, <3>1 DEF IInv, EntryLinksAgree, e
    <3>2. CASE c2 # c
      <4>1. item'[c2] = item[c2] /\ item[c2].entry \in Entries /\ item[c2].entry # e
        BY <1>6, <1>7, <3>2 DEF IInv, TypeOK, ItemRows
      <4> QED
        BY <1>7, <4>1 DEF IInv, EntryLinksAgree
    <3> QED
      BY <3>1, <3>2
  <2>3. \A e2 \in Entries : entry'[e2].status = "PUBLISHED" => entry'[e2].content # None
    BY <1>5, <1>7, NoEntryApart DEF IInv, EntryLinksAgree
  <2> QED
    BY <2>1, <2>2, <2>3 DEF EntryLinksAgree
<1> QED
  BY <1>8, <1>10, <1>11, <1>12, <1>13, <1>14 DEF IInv

\* A calendar is inserted: each of its weeks gets an entry there was not.
LEMMA GenerateCalendarStep ==
  ASSUME IInv, NEW r \in Requests, NEW p \in Plans, GenerateCalendar(r, p)
  PROVE  IInv'
<1>1. PICK f \in [Weeks(p) -> {e \in Entries : ~Exists(e)}] :
        /\ \A d1, d2 \in Weeks(p) : f[d1] = f[d2] => d1 = d2
        /\ entry' = [e \in Entries |-> IF \E d \in Weeks(p) : f[d] = e
                                       THEN GeneratedEntry(p, CHOOSE d \in Weeks(p) : f[d] = e)
                                       ELSE entry[e]]
        /\ calendars' = calendars \cup {[plan |-> p, entries |-> {f[d] : d \in Weeks(p)}]}
  BY DEF GenerateCalendar
<1> DEFINE k0 == [plan |-> p, entries |-> {f[d] : d \in Weeks(p)}]
<1>2. /\ Generating(r, p) /\ request' = [request EXCEPT ![r] = NoRequest]
      /\ UNCHANGED <<overlapped, item, presetActive, businessActive>>
  BY DEF GenerateCalendar, accessVars
<1>3. \A d \in Weeks(p) : /\ GeneratedEntry(p, d) \in EntryRows
                          /\ GeneratedEntry(p, d).plan = p /\ GeneratedEntry(p, d).content = None
                          /\ GeneratedEntry(p, d).status = "GENERATED"
                          /\ GeneratedEntry(p, d).order = WeekIndex(p, d)
                          /\ InPlan(p, GeneratedEntry(p, d).day)
  <2> SUFFICES ASSUME NEW d \in Weeks(p)
               PROVE  /\ GeneratedEntry(p, d) \in EntryRows
                      /\ GeneratedEntry(p, d).plan = p /\ GeneratedEntry(p, d).content = None
                      /\ GeneratedEntry(p, d).status = "GENERATED"
                      /\ GeneratedEntry(p, d).order = WeekIndex(p, d)
                      /\ InPlan(p, GeneratedEntry(p, d).day)
    OBVIOUS
  <2>1. d \in Nat /\ InPlan(p, d) /\ WeekIndex(p, d) \in Nat
    BY WeeksCovered
  <2> QED
    BY <2>1 DEF GeneratedEntry, EntryRows
<1>4. \A d \in Weeks(p) : f[d] \in Entries /\ ~Exists(f[d])
  BY <1>1
<1>5. \A d \in Weeks(p) : entry'[f[d]] = GeneratedEntry(p, d)
  <2> SUFFICES ASSUME NEW d \in Weeks(p) PROVE entry'[f[d]] = GeneratedEntry(p, d)
    OBVIOUS
  <2>1. (CHOOSE d2 \in Weeks(p) : f[d2] = f[d]) = d
    BY <1>1
  <2> QED
    BY <1>1, <1>4, <2>1
<1>6. \A e \in Entries : e \in k0.entries \/ entry'[e] = entry[e]
  BY <1>1
<1>7. \A e \in k0.entries : \E d \in Weeks(p) : e = f[d] /\ entry'[e] = GeneratedEntry(p, d)
  BY <1>5
<1>8. \A e \in Entries : Exists(e) => entry'[e] = entry[e] /\ Exists(e)'
  BY <1>4, <1>6 DEF Exists
<1>9. TypeOK'
  <2>1. \A e \in Entries : entry'[e] \in EntryRows \cup {NoEntry}
    BY <1>3, <1>6, <1>7 DEF IInv, TypeOK
  <2>2. entry' \in [Entries -> EntryRows \cup {NoEntry}]
    BY <1>1, <2>1
  <2>3. calendars' \subseteq [plan : Plans, entries : SUBSET Entries]
    BY <1>1, <1>4 DEF IInv, TypeOK
  <2>4. request' \in [Requests -> RequestType]
    BY <1>2, RequestEnds
  <2> QED
    BY <1>2, <2>2, <2>3, <2>4 DEF IInv, TypeOK, RequestType
<1>10. RequestInv'
  <2>1. \A q \in Requests \ {r} : request[q].op = "content" =>
          entry'[request[q].target] = entry[request[q].target]
    BY <1>8 DEF IInv, RequestInv, RequestFits
  <2> QED
    BY <1>2, <1>8, <2>1, RequestEnds, OthersFit
<1>11. LocksApart'
  BY <1>2, RequestEnds
<1>12. k0.entries # {} /\ \A e \in k0.entries : Exists(e)' /\ entry'[e].plan = k0.plan
  BY <1>3, <1>7, WeeksCovered, NoEntryApart DEF Exists
<1>13. CalendarsKept'
  <2>1. \A k \in calendars : k.entries # {} /\ \A e \in k.entries : Exists(e)' /\ entry'[e].plan = k.plan
    BY <1>8, CalendarsStay
  <2>2. calendars' = calendars \cup {k0}
    BY <1>1
  <2> HIDE DEF k0
  <2> QED
    BY <1>12, <2>1, <2>2 DEF CalendarsKept, Exists
<1>14. CalendarIsWhole'
  <2>1. {[plan |-> entry'[e].plan, order |-> entry'[e].order] : e \in k0.entries} =
          {[plan |-> p, order |-> WeekIndex(p, d)] : d \in Weeks(p)}
    BY <1>3, <1>5, <1>7
  <2>2. {WeekIndex(p, d) : d \in Weeks(p)} = 0..((Period[p].ends - Period[p].starts) \div 7)
    BY WeeksCovered
  <2>3. {[plan |-> p, order |-> WeekIndex(p, d)] : d \in Weeks(p)} =
          {[plan |-> p, order |-> w] : w \in {WeekIndex(p, d) : d \in Weeks(p)}}
    OBVIOUS
  <2>4. {[plan |-> entry'[e].plan, order |-> entry'[e].order] : e \in k0.entries} =
          {[plan |-> k0.plan, order |-> w] :
             w \in 0..((Period[k0.plan].ends - Period[k0.plan].starts) \div 7)}
    BY <2>1, <2>2, <2>3
  <2>5. \A k \in calendars :
          {[plan |-> entry'[e].plan, order |-> entry'[e].order] : e \in k.entries} =
            {[plan |-> k.plan, order |-> w] :
               w \in 0..((Period[k.plan].ends - Period[k.plan].starts) \div 7)}
    BY <1>8, CalendarsStay
  <2> HIDE DEF k0
  <2>6. calendars' = calendars \cup {k0}
    BY <1>1 DEF k0
  <2> QED
    BY <2>4, <2>5, <2>6 DEF CalendarIsWhole
<1>15. p \notin overlapped => \A k \in calendars : k.plan # p
  BY <1>2 DEF IInv, FirstAndAlone
<1>16. OneCalendarUnlessOverlapped'
  <2>1. calendars' = calendars \cup {k0} /\ k0.plan = p
    BY <1>1
  <2> HIDE DEF k0
  <2> QED
    BY <1>2, <1>15, <2>1 DEF IInv, OneCalendarUnlessOverlapped
<1>17. FirstAndAlone'
  <2>1. /\ request'[r] = NoRequest
        /\ \A q \in Requests \ {r} : request'[q] = request[q]
    BY <1>2 DEF IInv, TypeOK
  <2>2. \A q \in Requests, p2 \in Plans : Generating(q, p2)' => Generating(q, p2) /\ q # r
    BY <2>1, NoRequestFits DEF Generating
  <2>3. \A q \in Requests : Generating(q, p)' => p \in overlapped
    BY <1>2, <2>2 DEF IInv, FirstAndAlone
  <2> QED
    BY <1>1, <1>2, <2>2, <2>3 DEF IInv, FirstAndAlone
<1>18. DatesInPlan'
  <2>1. \A e \in Entries : Exists(e)' => InPlan(entry'[e].plan, entry'[e].day)
    BY <1>3, <1>6, <1>7 DEF IInv, DatesInPlan, Exists
  <2>2. \A c \in Contents : item'[c] # NoItem => InPlan(item'[c].plan, item'[c].scheduled)
    BY <1>2 DEF IInv, DatesInPlan
  <2> QED
    BY <2>1, <2>2 DEF DatesInPlan, InPlan
<1>19. EntryLinksAgree'
  <2>1. \A e \in Entries : ~Exists(e) => entry[e].content = None /\ entry[e].status = "NONE"
    BY DEF Exists, NoEntry
  <2>2. \A e \in k0.entries : /\ e \in Entries /\ ~Exists(e)
                              /\ entry'[e].content = None /\ entry'[e].status = "GENERATED"
    BY <1>3, <1>4, <1>7
  <2>3. \A e \in Entries : /\ entry'[e].content = entry[e].content
                           /\ entry'[e].status = "PUBLISHED" <=> entry[e].status = "PUBLISHED"
                           /\ Exists(e) => entry'[e].plan = entry[e].plan
    BY <1>6, <1>8, <2>1, <2>2
  <2> QED
    BY <1>2, <1>9, <2>3, LinksStay DEF TypeOK
<1> QED
  BY <1>9, <1>10, <1>11, <1>13, <1>14, <1>16, <1>17, <1>18, <1>19 DEF IInv

-----------------------------------------------------------------------------
(* Every step.                                                             *)

LEMMA ArchiveSteps ==
  ASSUME IInv, \/ \E q \in Presets : ArchivePreset(q)
               \/ ArchiveBusiness
               \/ UNCHANGED vars
  PROVE  IInv'
<1>1. UNCHANGED <<entry, item, calendars, overlapped, request>>
  BY DEF ArchivePreset, ArchiveBusiness, vars, calendarVars
<1>2. TypeOK'
  BY <1>1 DEF ArchivePreset, ArchiveBusiness, vars, accessVars, IInv, TypeOK
<1>3. RequestInv' /\ LocksApart' /\ FirstAndAlone'
  BY <1>1 DEF IInv, RequestInv, RequestFits, Exists, LocksApart, FirstAndAlone, Generating
<1>4. /\ CalendarsKept' /\ CalendarIsWhole' /\ DatesInPlan' /\ EntryLinksAgree'
      /\ OneCalendarUnlessOverlapped'
  BY <1>1 DEF IInv, CalendarsKept, CalendarIsWhole, DatesInPlan, EntryLinksAgree,
              OneCalendarUnlessOverlapped, Exists
<1> QED
  BY <1>2, <1>3, <1>4 DEF IInv

\* The invariant is inductive.
LEMMA StepIInv == IInv /\ [Next]_vars => IInv'
<1> SUFFICES ASSUME IInv, [Next]_vars PROVE IInv'
  OBVIOUS
<1>1. ASSUME NEW r \in Requests, RequestStep(r)
      PROVE  IInv'
  BY <1>1, ReadPlanStep, GenerateCalendarStep, EntryReads, CreateEntryStep, UpdateEntryStep,
     LockEntryStep, GenerateContentStep, PublishStep, RefuseStep
     DEF RequestStep, PlanStep, EntryStep, ContentStep
<1> QED
  BY <1>1, ArchiveSteps DEF Next

-----------------------------------------------------------------------------
(* The theorems.                                                           *)

\* The invariant holds in every reachable state, for any number of entries and requests.
THEOREM Invariance == Spec => []IInv
<1> QED
  BY InitIInv, StepIInv, PTL DEF Spec

\* Every variable keeps its type: an entry has the columns of calendar_entries, whatever
\* two requests wrote over one another.
THEOREM TypeCorrect == Spec => []TypeOK
<1>1. IInv => TypeOK
  BY DEF IInv
<1> QED
  BY Invariance, <1>1, PTL

\* Every entry, and the content made from it, has a date of its plan.
THEOREM DatesStayInPlan == Spec => []DatesInPlan
<1>1. IInv => DatesInPlan
  BY DEF IInv
<1> QED
  BY Invariance, <1>1, PTL

\* Items and entries point at each other, and are published together.
THEOREM LinksAgree == Spec => []EntryLinksAgree
<1>1. IInv => EntryLinksAgree
  BY DEF IInv
<1> QED
  BY Invariance, <1>1, PTL

\* A generated calendar has an entry for each week of a period of any length.
THEOREM CalendarsWhole == Spec => []CalendarIsWhole
<1>1. IInv => CalendarIsWhole
  BY DEF IInv
<1> QED
  BY Invariance, <1>1, PTL

\* Only requests under way at one time give a plan two calendars.
THEOREM OneCalendar == Spec => []OneCalendarUnlessOverlapped
<1>1. IInv => OneCalendarUnlessOverlapped
  BY DEF IInv
<1> QED
  BY Invariance, <1>1, PTL
=============================================================================
