----------------------------- MODULE UserAccounts -----------------------------
(***************************************************************************)
(* The users of a company: creation within the plan's quota, changes with    *)
(* their audit log, deletion and restoring, the status of a role, and the    *)
(* cached list (app/api/user.py).                                            *)
(*                                                                         *)
(* A request works on the snapshot it opened with.  The handler raises the   *)
(* list's version while its writes wait for the commit, which follows the    *)
(* handler.                                                                  *)
(***************************************************************************)
EXTENDS ResponseCache, Integers, Sequences, FiniteSets

CONSTANTS
    Mobile,          \* mobile numbers
    Staff,           \* roles users are given
    UserQuota,       \* max_users of the company's plan
    Administering,   \* slots of requests
    MaxUsers,        \* bound: user rows
    MaxChanges       \* bound: requests that write

\* A plan has room for the user a company starts with.
ASSUME UserAssumption ==
    /\ UserQuota \in Nat \ {0} /\ MaxUsers \in Nat /\ MaxChanges \in Nat
    /\ Mobile # {} /\ Staff # {} /\ Administering # {} /\ IsFiniteSet(Administering)

VARIABLES
    users,           \* user rows, by id
    trail,           \* user_audit_logs of each user, oldest first
    userList,        \* the versioned list in Redis
    administering,   \* the request in each slot
    changes,         \* requests that wrote, so far
    listShown,       \* history: whether the list a step answered was current
    crossings,       \* history: what breaks the order of one request at a time
    unlogged,        \* history: users whose status a role's status set
    outgrown,        \* history: users who became active without a look at the quota
    born             \* history: each user as created

userVars == <<users, trail, userList, administering, changes, listShown, crossings, unlogged, outgrown, born>>

UserId == 1..MaxUsers
Fields == {"mobile", "role", "is_active"}
Known(view) == {u \in UserId : view[u].known}
Present(view) == {u \in Known(view) : ~view[u].is_deleted}
\* can_create_user counts the users who are active and not deleted.
Counted(view) == {u \in Present(view) : view[u].is_active}
ListOf(view) == {<<u, view[u].mobile, view[u].role, view[u].is_active>> : u \in Present(view)}

NewUser(mobile, role) ==
    [known |-> TRUE, mobile |-> mobile, role |-> role, is_active |-> TRUE, is_deleted |-> FALSE]
Free == [known |-> FALSE, is_deleted |-> FALSE]
NoRequest == [phase |-> "none"]

UsersInit ==
    /\ LET first == NewUser(CHOOSE m \in Mobile : TRUE, CHOOSE s \in Staff : TRUE) IN
       \E active \in BOOLEAN :
           users = [u \in UserId |-> IF u = 1 THEN [first EXCEPT !.is_active = active] ELSE Free]
    /\ trail = [u \in UserId |-> <<>>]
    /\ userList = [NoAnswers EXCEPT !.key = 1]
    /\ administering = [r \in Administering |-> NoRequest]
    /\ changes = 0 /\ listShown = TRUE
    /\ crossings = {} /\ unlogged = {} /\ outgrown = {} /\ born = users

NothingListed == listShown' = TRUE

-----------------------------------------------------------------------------
OpenRequest(r) ==
    /\ administering[r].phase = "none"
    /\ administering' = [administering EXCEPT ![r] = [phase |-> "open", view |-> users]]
    /\ crossings' = crossings \cup
           (IF \E o \in Administering \ {r} : administering[o].phase # "none" THEN {"overlap"} ELSE {})
    /\ NothingListed /\ UNCHANGED <<users, trail, userList, changes, unlogged, outgrown, born>>

\* Mutant: the version is raised by nobody.
RaisedNever(cache) == cache
RaisedFirst(cache) == BumpCacheVersion(cache)
\* The handler is through: new are the rows it changed, which wait for the commit.
Flush(r, new, logged, raise) ==
    /\ changes < MaxChanges /\ changes' = changes + 1
    /\ administering' = [administering EXCEPT ![r] =
           [phase |-> "flushed", view |-> @.view, new |-> new, logged |-> logged, raise |-> raise]]
    /\ userList' = IF raise THEN RaisedFirst(userList) ELSE userList
    /\ NothingListed /\ UNCHANGED <<users, trail, crossings, unlogged, outgrown, born>>
View(r) == administering[r].view
AtWork(r) == administering[r].phase = "open"

\* Mutant: the quota is compared with the users there would be without this one.
WithinQuotaToo(view) == Cardinality(Counted(view)) <= UserQuota
WithinQuota(view) == Cardinality(Counted(view)) < UserQuota
\* create_user: a number is taken in any company, and by deleted users.
Taken(view, mobile, u) == \E o \in Known(view) \ {u} : view[o].mobile = mobile
CreateUser(r, mobile, role) ==
    LET free == {u \in UserId \ Known(users) : \A o \in Administering :
                    administering[o].phase = "flushed" => u \notin DOMAIN administering[o].new} IN
    /\ AtWork(r)
    /\ WithinQuota(View(r)) /\ ~Taken(View(r), mobile, 0)
    /\ free # {}
    /\ LET u == CHOOSE u \in free : \A o \in free : u <= o IN
       Flush(r, [o \in {u} |-> NewUser(mobile, role)], {}, FALSE)

\* Mutant: the log of the role is left out.
DifferingButRole(old, new) == {f \in Fields \ {"role"} : old[f] # new[f]}
\* log_user_changes: a row for each field that differs.
Differing(old, new) == {f \in Fields : old[f] # new[f]}
UpdateUser(r, u, mobile, role, active) ==
    LET old == View(r)[u]
        new == [old EXCEPT !.mobile = mobile, !.role = role, !.is_active = active] IN
    /\ AtWork(r) /\ u \in Present(View(r))
    /\ mobile # old.mobile => ~Taken(View(r), mobile, u)
    /\ new # old
    /\ Flush(r, [o \in {u} |-> new], {<<u, f, old[f], new[f]>> : f \in Differing(old, new)}, TRUE)
DeleteUser(r, u) ==
    /\ AtWork(r) /\ u \in Present(View(r))
    /\ Flush(r, [o \in {u} |-> [View(r)[u] EXCEPT !.is_deleted = TRUE]], {}, TRUE)
\* restore_user does not ask for the quota.
RestoreUser(r, u) ==
    /\ AtWork(r) /\ u \in Known(View(r)) \ Present(View(r))
    /\ Flush(r, [o \in {u} |-> [View(r)[u] EXCEPT !.is_deleted = FALSE]], {}, TRUE)
\* update_role_status: every user of the role, with no log and no new version.
UpdateRoleStatus(r, role, active) ==
    LET of == {u \in Present(View(r)) : View(r)[u].role = role} IN
    /\ AtWork(r) /\ \E u \in of : View(r)[u].is_active # active
    /\ Flush(r, [u \in of |-> [View(r)[u] EXCEPT !.is_active = active]], {}, FALSE)

\* The end of the request commits: of each row the columns that differ from the
\* snapshot; a number that is taken by now fails the request.
Merged(u, old, new) ==
    IF ~users[u].known THEN new
    ELSE [c \in DOMAIN users[u] |-> IF ~old.known \/ new[c] # old[c] THEN new[c] ELSE users[u][c]]
Commit(r) ==
    LET q == administering[r]
        rows == [u \in UserId |->
                    IF u \in DOMAIN q.new THEN Merged(u, q.view[u], q.new[u]) ELSE users[u]]
        made == {u \in DOMAIN q.new : ~q.view[u].known} IN
    /\ q.phase = "flushed"
    /\ \A u \in made : ~users[u].known
    /\ \A u \in DOMAIN q.new : \A o \in Known(rows) \ {u} : rows[o].mobile # rows[u].mobile
    /\ users' = rows
    /\ trail' = [u \in UserId |->
           LET mine == {l \in q.logged : l[1] = u} IN
           IF mine = {} THEN trail[u]
           ELSE Append(trail[u], [group |-> changes, of |-> {[field |-> l[2], old |-> l[3], new |-> l[4]] : l \in mine}])]
    /\ crossings' = crossings \cup (IF q.raise THEN {} ELSE {"unraised"})
    /\ unlogged' = unlogged \cup {u \in Known(users) \cap DOMAIN q.new :
           users[u].is_active # rows[u].is_active /\ q.logged = {}}
    /\ born' = [u \in UserId |-> IF u \in made THEN rows[u] ELSE born[u]]
    /\ outgrown' = (outgrown \cup (Counted(rows) \ (Counted(users) \cup made)))
    /\ administering' = [administering EXCEPT ![r] = NoRequest]
    /\ NothingListed /\ UNCHANGED <<userList, changes>>
\* A request that fails after its handler: its writes are gone, the version is raised.
Fail(r) ==
    /\ administering[r].phase = "flushed"
    /\ administering' = [administering EXCEPT ![r] = NoRequest]
    /\ NothingListed /\ UNCHANGED <<users, trail, userList, changes, crossings, unlogged, outgrown, born>>

\* list_users: the list kept under the version, or the one the snapshot shows.
ListUsers(r) ==
    LET v == GetCacheVersion(userList)
        hits == CacheGetJson(userList, "users", v) IN
    /\ AtWork(r)
    /\ \/ \E rows \in hits :
           /\ listShown' = (rows = ListOf(users))
           /\ administering' = [administering EXCEPT ![r] = NoRequest]
       \/ /\ hits = {}
          /\ administering' = [administering EXCEPT ![r] = [phase |-> "missed", version |-> v, rows |-> ListOf(@.view)]]
          /\ NothingListed
    /\ UNCHANGED <<users, trail, userList, changes, crossings, unlogged, outgrown, born>>
KeepUsers(r) ==
    LET q == administering[r] IN
    /\ q.phase = "missed"
    /\ userList' = CacheSetJson(userList, "users", q.version, q.rows, 1)
    /\ listShown' = (q.rows = ListOf(users))
    /\ administering' = [administering EXCEPT ![r] = NoRequest]
    /\ UNCHANGED <<users, trail, changes, crossings, unlogged, outgrown, born>>

UsersNext ==
    \E r \in Administering :
        \/ OpenRequest(r) \/ Commit(r) \/ Fail(r) \/ ListUsers(r) \/ KeepUsers(r)
        \/ \E m \in Mobile, s \in Staff : CreateUser(r, m, s)
        \/ \E u \in UserId :
            \/ DeleteUser(r, u) \/ RestoreUser(r, u)
            \/ \E m \in Mobile, s \in Staff, active \in BOOLEAN : UpdateUser(r, u, m, s, active)
        \/ \E s \in Staff, active \in BOOLEAN : UpdateRoleStatus(r, s, active)
UsersSpec == UsersInit /\ [][UsersNext]_userVars

UsersTypeOK ==
    /\ \A u \in Known(users) :
        users[u] \in [known : {TRUE}, mobile : Mobile, role : Staff, is_active : BOOLEAN, is_deleted : BOOLEAN]
    /\ changes \in 0..MaxChanges /\ listShown \in BOOLEAN

-----------------------------------------------------------------------------
\* list_roles counts the users of each role; get_user finds one.
RoleCounts == [s \in Staff |-> Cardinality({u \in Present(users) : users[u].role = s})]
GetUser(u) == u \in Present(users)
\* get_user_audit_logs, and get_grouped_audit_logs with its groups put together
Logs(u) == UNION {trail[u][i].of : i \in DOMAIN trail[u]}
\* What the logs before the i-th left of a field.
Left(u, f, i) ==
    LET before == {j \in 1..i - 1 : \E l \in trail[u][j].of : l.field = f}
        latest == CHOOSE j \in before : \A k \in before : k <= j IN
    IF before = {} THEN born[u][f]
    ELSE (CHOOSE l \in trail[u][latest].of : l.field = f).new

\* No more users are active than the plan allows, but for those who were restored
\* or made active again; requests that overlap exceed it by one each at most,
\* whatever is deleted and created meanwhile.
UserQuotaHeld ==
    Cardinality(Counted(users) \ outgrown) <=
        UserQuota + IF "overlap" \in crossings THEN Cardinality(Administering) - 1 ELSE 0
\* From the user as created, each log of a field starts from what the logs before
\* left, and all of them leave what the field is, unless requests overlapped, or a role's status set it.
TrailReplays ==
    "overlap" \notin crossings =>
        \A u \in Known(users) : \A f \in Fields \ (IF u \in unlogged THEN {"is_active"} ELSE {}) :
            /\ users[u][f] = Left(u, f, Len(trail[u]) + 1)
            /\ \A i \in DOMAIN trail[u] : \A l \in trail[u][i].of :
                   l.field = f => l.old = Left(u, f, i)
\* The list answered is current, unless a user was created or a role's status set,
\* which raise no version, or a reader kept what it saw before a commit.
UserListCurrent == crossings = {} => listShown
UserViewsAgree ==
    /\ \A u \in UserId : GetUser(u) => RoleCounts[users[u].role] >= 1
    /\ \A u \in UserId : Logs(u) # {} => users[u].known
=============================================================================
