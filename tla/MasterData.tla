------------------------------ MODULE MasterData ------------------------------
(***************************************************************************)
(* The master lists - units, labour types, activity types, materials - and   *)
(* the cached answers that show them (app/api/master_data.py).               *)
(*                                                                         *)
(* The session of a request reads in the snapshot it took when it looked up  *)
(* the user, before the handler asks Redis for anything.  A writer commits,  *)
(* and raises the version of all four lists in a step of its own.            *)
(***************************************************************************)
EXTENDS ResponseCache, Sequences, FiniteSets

CONSTANTS
    Named,           \* names the rows are given
    Asked,           \* the lists readers ask for
    Editing,         \* slots of requests
    Ttl,             \* ticks an answer is kept
    Span,            \* bound: ticks a request lasts
    MaxRows,         \* bound: rows of one list
    MaxEdits         \* bound: writes

ASSUME MasterAssumption ==
    /\ Asked \subseteq {"unit", "labour_type", "activity_type", "material"}
    /\ Ttl \in Nat \ {0} /\ Span \in Nat /\ MaxRows \in Nat \ {0} /\ MaxEdits \in Nat
    /\ Named # {} /\ IsFiniteSet(Editing)

VARIABLES
    master,          \* the rows of each list, by id
    listed,          \* the versioned answers in Redis
    editing,         \* the request in each slot
    past,            \* history: what each list showed, and how long ago
    answered,        \* history: whether what a step answered was current, whether it was recent
    leaks,           \* history: what may leave an old answer in the cache
    edits            \* writes so far

masterVars == <<master, listed, editing, past, answered, leaks, edits>>

List == {"unit", "labour_type", "activity_type", "material"}
Row(name, unit) == [name |-> name, unit |-> unit, active |-> TRUE]
IdsOf(view, list) == 1..Len(view[list])
UnitName(view, unit) == IF unit = 0 THEN {} ELSE {view["unit"][unit].name}
\* What a list shows: its rows that are not deleted; a material with its unit's name.
Shown(view, list) ==
    {<<i, view[list][i].name, IF list = "material" THEN UnitName(view, view[list][i].unit) ELSE {}>> :
        i \in {i \in IdsOf(view, list) : view[list][i].active}}

Idle == [phase |-> "idle"]
NoAnswer == [current |-> TRUE, recent |-> TRUE]
MasterInit ==
    /\ LET name == CHOOSE n \in Named : TRUE IN
       master = [list \in List |->
           CASE list = "unit" -> <<Row(name, 0)>> [] list = "material" -> <<Row(name, 1)>> [] OTHER -> <<>>]
    /\ listed \in {NoAnswers, [NoAnswers EXCEPT !.key = 1]}
    /\ editing = [r \in Editing |-> Idle]
    /\ past = {[list |-> list, rows |-> Shown(master, list), age |-> 0] : list \in Asked}
    /\ answered = NoAnswer
    /\ leaks = {} /\ edits = 0

InFlight(r) == editing[r].phase # "idle"
Serve(list, rows) ==
    answered' = [current |-> rows = Shown(master, list),
                 recent |-> \E p \in past : p.list = list /\ p.rows = rows]

NothingAnswered == answered' = NoAnswer

-----------------------------------------------------------------------------
\* A request begins with the look-up of its user, which opens the snapshot.
Open(r) ==
    /\ ~InFlight(r)
    /\ editing' = [editing EXCEPT ![r] = [phase |-> "open", view |-> master, age |-> 0]]
    /\ leaks' = leaks \cup (IF \E o \in Editing : editing[o].phase = "saved" THEN {"crossed"} ELSE {})
    /\ NothingAnswered /\ UNCHANGED <<master, listed, past, edits>>

\* get_units and the other lists: the version, the answer kept under it, or else
\* the rows the snapshot shows, which are kept and answered.
GetList(r, list) ==
    LET v == GetCacheVersion(listed)
        hits == CacheGetJson(listed, list, v) IN
    /\ editing[r].phase = "open"
    /\ \/ \E rows \in hits : Serve(list, rows) /\ editing' = [editing EXCEPT ![r] = Idle]
       \/ /\ hits = {}
          /\ editing' = [editing EXCEPT ![r] = [phase |-> "missed", list |-> list, version |-> v,
                 rows |-> Shown(editing[r].view, list), age |-> editing[r].age]]
          /\ NothingAnswered
    /\ UNCHANGED <<master, listed, past, leaks, edits>>
KeepList(r) ==
    LET q == editing[r] IN
    /\ q.phase = "missed"
    /\ listed' = CacheSetJson(listed, q.list, q.version, q.rows, Ttl)
    /\ Serve(q.list, q.rows)
    /\ editing' = [editing EXCEPT ![r] = Idle]
    /\ UNCHANGED <<master, past, leaks, edits>>

-----------------------------------------------------------------------------
\* Mutant: a name is not looked for among the rows that are there.
UnusedNever(view, list, name, id) == TRUE
\* The snapshot shows no other row of that name, deleted ones included.
Unused(view, list, name, id) == \A i \in IdsOf(view, list) \ {id} : view[list][i].name # name
\* Names of units, labour types and activity types are unique columns as well.
KeyFree(list, name, id) == list = "material" \/ Unused(master, list, name, id)

Saved(r, list, rows) ==
    /\ edits < MaxEdits /\ edits' = edits + 1
    /\ master' = [master EXCEPT ![list] = rows]
    /\ editing' = [editing EXCEPT ![r] = [phase |-> "saved", age |-> @.age]]
    /\ past' = past \cup {[list |-> l, rows |-> Shown(master', l), age |-> 0] : l \in Asked}
    /\ leaks' = leaks \cup (IF \E o \in Editing \ {r} : InFlight(o) THEN {"crossed"} ELSE {})
    /\ NothingAnswered /\ UNCHANGED listed
Insert(r, list, name, unit) ==
    /\ editing[r].phase = "open"
    /\ Len(master[list]) < MaxRows
    /\ Unused(editing[r].view, list, name, 0) /\ KeyFree(list, name, 0)
    /\ Saved(r, list, Append(master[list], Row(name, unit)))
\* Only the columns that differ from the snapshot are written; an update may also
\* delete a row or bring it back.
Change(r, list, id, new) ==
    /\ editing[r].phase = "open"
    /\ id \in IdsOf(editing[r].view, list)
    /\ LET old == editing[r].view[list][id] IN
       /\ Unused(editing[r].view, list, new.name, id)
       /\ new.name # old.name => KeyFree(list, new.name, id)
       /\ Saved(r, list, [master[list] EXCEPT
              ![id] = [c \in DOMAIN new |-> IF new[c] = old[c] THEN @[c] ELSE new[c]]])
SoftDelete(r, list, id) ==
    /\ editing[r].phase = "open"
    /\ id \in IdsOf(editing[r].view, list)
    /\ Saved(r, list, [master[list] EXCEPT ![id].active = FALSE])

\* A unit given by id must exist; a deleted one will do.
UnitThere(r, unit) == editing[r].phase = "open" /\ unit \in IdsOf(editing[r].view, "unit")

CreateUnit(r, name)           == Insert(r, "unit", name, 0)
UpdateUnit(r, id, new)        == new.unit = 0 /\ Change(r, "unit", id, new)
DeleteUnit(r, id)             == SoftDelete(r, "unit", id)
CreateLabourType(r, name)     == Insert(r, "labour_type", name, 0)
UpdateLabourType(r, id, new)  == new.unit = 0 /\ Change(r, "labour_type", id, new)
DeleteLabourType(r, id)       == SoftDelete(r, "labour_type", id)
CreateActivityType(r, name, unit) ==
    (unit = 0 \/ UnitThere(r, unit)) /\ Insert(r, "activity_type", name, unit)
UpdateActivityType(r, id, new) ==
    (new.unit = 0 \/ UnitThere(r, new.unit)) /\ Change(r, "activity_type", id, new)
DeleteActivityType(r, id)     == SoftDelete(r, "activity_type", id)
CreateMaterialMaster(r, name, unit) == UnitThere(r, unit) /\ Insert(r, "material", name, unit)
UpdateMaterialMaster(r, id, new) == UnitThere(r, new.unit) /\ Change(r, "material", id, new)
DeleteMaterialMaster(r, id)   == SoftDelete(r, "material", id)

\* Mutant: the version is left as it is.
RaisedNot(cache) == cache
Raised(cache) == BumpCacheVersion(cache)
\* After the commit the version is raised, and the row is answered.
Announce(r) ==
    /\ editing[r].phase = "saved"
    /\ listed' = Raised(listed)
    /\ leaks' = leaks \cup (IF listed.key = 0 THEN {"unraised"} ELSE {})
    /\ editing' = [editing EXCEPT ![r] = Idle]
    /\ NothingAnswered /\ UNCHANGED <<master, past, edits>>
\* Redis fails, or the process ends, between the commit and the new version.
LoseAnnounce(r) ==
    /\ editing[r].phase = "saved"
    /\ leaks' = leaks \cup {"unraised"}
    /\ editing' = [editing EXCEPT ![r] = Idle]
    /\ NothingAnswered /\ UNCHANGED <<master, listed, past, edits>>

\* Mutant: Redis keeps answers for ever.
AgedNever(cache) == cache
Aged(cache) == Expired(cache)
Tick ==
    /\ \A r \in Editing : InFlight(r) => editing[r].age < Span
    /\ listed' = Aged(listed)
    /\ editing' = [r \in Editing |-> IF InFlight(r) THEN [editing[r] EXCEPT !.age = @ + 1] ELSE Idle]
    /\ past' = {[p EXCEPT !.age = @ + 1] :
                   p \in {p \in past : p.age < Ttl + Span /\ p.rows # Shown(master, p.list)}}
                 \cup {[list |-> l, rows |-> Shown(master, l), age |-> 0] : l \in Asked}
    /\ NothingAnswered /\ UNCHANGED <<master, leaks, edits>>

MasterNext ==
    \/ Tick
    \/ \E r \in Editing :
        \/ Open(r) \/ KeepList(r) \/ Announce(r) \/ LoseAnnounce(r)
        \/ \E list \in Asked : GetList(r, list)
        \/ \E name \in Named : CreateUnit(r, name) \/ CreateLabourType(r, name)
        \/ \E name \in Named, unit \in 0..MaxRows :
            CreateActivityType(r, name, unit) \/ CreateMaterialMaster(r, name, unit)
        \/ \E id \in 1..MaxRows :
            \/ DeleteUnit(r, id) \/ DeleteLabourType(r, id)
            \/ DeleteActivityType(r, id) \/ DeleteMaterialMaster(r, id)
            \/ \E new \in [name : Named, unit : 0..MaxRows, active : BOOLEAN] :
                \/ UpdateUnit(r, id, new) \/ UpdateLabourType(r, id, new)
                \/ UpdateActivityType(r, id, new) \/ UpdateMaterialMaster(r, id, new)
MasterSpec == MasterInit /\ [][MasterNext]_masterVars

MasterTypeOK ==
    /\ \A list \in List : \A i \in IdsOf(master, list) :
        master[list][i] \in [name : Named, unit : 0..MaxRows, active : BOOLEAN]
    /\ listed.key \in 0..(MaxEdits + 1)
    /\ \A a \in listed.kept : a.left \in 1..Ttl /\ a.version \in 1..(MaxEdits + 1)
    /\ leaks \subseteq {"crossed", "unraised"} /\ edits \in 0..MaxEdits

-----------------------------------------------------------------------------
\* get_all_master_data shows the four lists in one; get_master_stats counts them.
AllMasterData == UNION {{<<list>> \o row : row \in Shown(master, list)} : list \in List}
MasterStats == [list \in List |-> Cardinality({i \in IdsOf(master, list) : master[list][i].active})]

\* No two rows of a list have one name; two requests that overlap can still give
\* two materials the same.
NamesDistinct ==
    \A list \in List : list # "material" \/ "crossed" \notin leaks =>
        \A i, j \in IdsOf(master, list) : i # j => master[list][i].name # master[list][j].name
\* An answer shows the list as it is, unless a reader and a writer overlapped, a
\* version was not raised, or it was raised for the first time.
ServedIsCurrent == leaks = {} => answered.current
\* Whatever happens, what is answered is no older than an answer is kept and a
\* request lasts.
ServedIsRecent == answered.recent
\* The stats, the list of all four and the lists agree.
MasterViewsAgree ==
    Cardinality(AllMasterData) =
        MasterStats["unit"] + MasterStats["labour_type"] + MasterStats["activity_type"] + MasterStats["material"]
=============================================================================
