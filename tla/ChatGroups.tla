------------------------------ MODULE ChatGroups ------------------------------
(***************************************************************************)
(* Who is in a chat: a group with its administrators, and the private chat   *)
(* of two people (app/api/chat.py).                                          *)
(*                                                                         *)
(* No handler takes a lock.  A request reads the members in a snapshot,      *)
(* decides, and writes rows: an insert of a row that exists by now, and an   *)
(* update of one that is gone, fail the whole request; a delete of a row     *)
(* that is gone does nothing.                                                *)
(***************************************************************************)
EXTENDS Integers, FiniteSets

CONSTANTS
    Chatter,         \* users who chat
    NoChatter,       \* created_by of a group that is gone
    Marking,         \* users who hide and pin the chat
    Talking,         \* slots of requests that overlap others
    MaxPrivate       \* bound: private chats of one pair

ASSUME ChatGroupsAssumption == NoChatter \notin Chatter /\ Marking \subseteq Chatter /\ MaxPrivate \in Nat

VARIABLES
    creator,         \* chat_sessions.created_by of the group, NoChatter when there is none
    roles,           \* chat_members.role in the group, "none" for who is not in it
    hidden,          \* members who deleted the chat for themselves
    pinners,         \* members who pinned the chat
    privates,        \* private chats of one pair of users
    talking,         \* the view an overlapping request has taken
    unguarded,       \* history: the creator was removed with others, or left
    mixed            \* history: a request was decided on a view that was out of date

groupVars == <<creator, roles, hidden, pinners, privates, talking, unguarded, mixed>>

Roles == {"none", "MEMBER", "ADMIN"}
Room == [creator |-> creator, roles |-> roles, privates |-> privates]
NoRoom == [creator |-> NoChatter]
MembersIn(view) == {u \in Chatter : view.roles[u] # "none"}
AdminsIn(view) == {u \in Chatter : view.roles[u] = "ADMIN"}

GroupsInit ==
    /\ creator = NoChatter
    /\ roles = [u \in Chatter |-> "none"]
    /\ hidden = {} /\ pinners = {} /\ privates = 0
    /\ talking = [r \in Talking |-> NoRoom]
    /\ unguarded = FALSE /\ mixed = FALSE

Mixing(view) == mixed' = (mixed \/ view # Room)
\* The rows of who is not in the group any more are gone with their marks.
SetRoles(new) ==
    /\ roles' = new
    /\ hidden' = {u \in hidden : new[u] # "none"}
    /\ pinners' = {u \in pinners : new[u] # "none"}

-----------------------------------------------------------------------------
CreateGroup(u, members) ==
    /\ creator = NoChatter
    /\ creator' = u
    /\ SetRoles([v \in Chatter |->
           IF v = u THEN "ADMIN" ELSE IF v \in members THEN "MEMBER" ELSE "none"])
    /\ unguarded' = FALSE
    /\ UNCHANGED <<privates, mixed>>
CreatePrivateChat(view) ==
    /\ view.privates = 0
    /\ privates < MaxPrivate /\ privates' = privates + 1
    /\ Mixing(view)
    /\ UNCHANGED <<creator, roles, hidden, pinners, unguarded>>

ValidateAdmin(u, view) == view.creator # NoChatter /\ view.roles[u] = "ADMIN"
\* add_member and add_multiple_members: who is a member already is passed over.
AddMembers(u, members, view) ==
    /\ ValidateAdmin(u, view)
    /\ LET new == members \ MembersIn(view) IN
       /\ creator # NoChatter
       /\ new # {} /\ new \cap MembersIn(Room) = {}
       /\ SetRoles([v \in Chatter |-> IF v \in new THEN "MEMBER" ELSE roles[v]])
    /\ Mixing(view)
    /\ UNCHANGED <<creator, privates, unguarded>>

\* Mutant: the last administrator can be removed.
SparesNobody(v, view) == TRUE
SparesLastAdmin(v, view) == view.roles[v] = "ADMIN" => Cardinality(AdminsIn(view)) # 1
KickMember(u, v, view) ==
    /\ ValidateAdmin(u, view)
    /\ v # view.creator /\ view.roles[v] # "none"
    /\ SparesLastAdmin(v, view)
    /\ SetRoles([roles EXCEPT ![v] = "none"])
    /\ Mixing(view)
    /\ UNCHANGED <<creator, privates, unguarded>>
RemoveMember(u, v, view) == u # v /\ KickMember(u, v, view)
\* remove_multiple_members passes over administrators, and not over the creator.
RemoveMembers(u, members, view) ==
    /\ ValidateAdmin(u, view)
    /\ LET gone == (members \cap MembersIn(view)) \ AdminsIn(view) IN
       /\ SetRoles([v \in Chatter |-> IF v \in gone THEN "none" ELSE roles[v]])
       /\ unguarded' = (unguarded \/ view.creator \in gone)
    /\ Mixing(view)
    /\ UNCHANGED <<creator, privates>>

\* Mutant: nobody takes the place of the last administrator.
SuccessorsNone(u, view) == {}
\* The last administrator's place is taken by another member, if there is one.
Successors(u, view) ==
    IF AdminsIn(view) = {u} THEN MembersIn(view) \ {u} ELSE {}
LeaveGroup(u, view) ==
    /\ view.creator # NoChatter /\ view.roles[u] # "none"
    /\ \/ /\ Successors(u, view) = {}
          /\ SetRoles([roles EXCEPT ![u] = "none"])
       \/ \E v \in Successors(u, view) :
          /\ roles[v] # "none"
          /\ SetRoles([roles EXCEPT ![u] = "none", ![v] = "ADMIN"])
    /\ MembersIn(view) # {u}
    /\ unguarded' = (unguarded \/ u = view.creator)
    /\ Mixing(view)
    /\ UNCHANGED <<creator, privates>>
\* Who leaves last takes the chat along, with every member row.
LeaveLast(u, view) ==
    /\ view.creator # NoChatter /\ MembersIn(view) = {u}
    /\ creator' = NoChatter
    /\ SetRoles([v \in Chatter |-> "none"])
    /\ unguarded' = (unguarded \/ u = view.creator)
    /\ Mixing(view)
    /\ UNCHANGED privates

\* Only what the session sees change is written.
TransferAdmin(u, v, view) ==
    /\ ValidateAdmin(u, view)
    /\ v # u /\ view.roles[v] # "none"
    /\ roles[u] # "none" /\ roles[v] # "none"
    /\ SetRoles([roles EXCEPT
           ![u] = "MEMBER", ![v] = IF view.roles[v] = "ADMIN" THEN @ ELSE "ADMIN"])
    /\ Mixing(view)
    /\ UNCHANGED <<creator, privates, unguarded>>

DeleteChat(u) ==
    /\ roles[u] # "none" /\ u \notin hidden
    /\ hidden' = hidden \cup {u}
    /\ UNCHANGED <<creator, roles, pinners, privates, unguarded, mixed>>
RestoreChat(u) ==
    /\ u \in hidden
    /\ hidden' = hidden \ {u}
    /\ UNCHANGED <<creator, roles, pinners, privates, unguarded, mixed>>
PinChat(u) ==
    /\ roles[u] # "none"
    /\ pinners' = pinners \cup {u}
    /\ UNCHANGED <<creator, roles, hidden, privates, unguarded, mixed>>
UnpinChat(u) ==
    /\ roles[u] # "none"
    /\ pinners' = pinners \ {u}
    /\ UNCHANGED <<creator, roles, hidden, privates, unguarded, mixed>>

-----------------------------------------------------------------------------
MemberRequest(view) ==
    \/ CreatePrivateChat(view)
    \/ \E u \in Chatter :
        \/ \E members \in SUBSET Chatter : AddMembers(u, members, view) \/ RemoveMembers(u, members, view)
        \/ \E v \in Chatter :
            KickMember(u, v, view) \/ RemoveMember(u, v, view) \/ TransferAdmin(u, v, view)
        \/ LeaveGroup(u, view) \/ LeaveLast(u, view)
BeginTalk(r) ==
    /\ talking[r] = NoRoom
    /\ talking' = [talking EXCEPT ![r] = Room]
    /\ UNCHANGED <<creator, roles, hidden, pinners, privates, unguarded, mixed>>
CommitTalk(r) ==
    /\ talking[r] # NoRoom
    /\ MemberRequest(talking[r])
    /\ talking' = [talking EXCEPT ![r] = NoRoom]

GroupsNext ==
    \/ MemberRequest(Room) /\ UNCHANGED talking
    \/ /\ \/ \E u \in Chatter, members \in SUBSET Chatter : CreateGroup(u, members)
          \/ \E u \in Marking : DeleteChat(u) \/ RestoreChat(u) \/ PinChat(u) \/ UnpinChat(u)
       /\ UNCHANGED talking
    \/ \E r \in Talking : BeginTalk(r) \/ CommitTalk(r)
GroupsSpec == GroupsInit /\ [][GroupsNext]_groupVars

GroupsTypeOK ==
    /\ creator \in Chatter \cup {NoChatter} /\ roles \in [Chatter -> Roles]
    /\ privates \in 0..MaxPrivate /\ unguarded \in BOOLEAN /\ mixed \in BOOLEAN

-----------------------------------------------------------------------------
\* group_members and get_chat_info
MembersListed == {u \in Chatter : roles[u] # "none" /\ u \notin hidden}
MemberCount == Cardinality(MembersListed)
\* get_enhanced_chat_list and get_chat_list; get_pinned_chats lists hidden chats too
InChatList(u) == u \in MembersListed
InPinnedChats(u) == u \in pinners

\* A group always has an administrator, its creator unless he left or was removed
\* with others, and two people have one private chat, unless a request was decided
\* on a view that was out of date; the lists show a chat to its members alone.
GroupsAreRun ==
    /\ ~mixed => /\ creator # NoChatter => \E u \in Chatter : roles[u] = "ADMIN"
                 /\ creator # NoChatter /\ ~unguarded => roles[creator] # "none"
                 /\ privates <= 1
    /\ \A u \in Chatter :
        InChatList(u) \/ InPinnedChats(u) => creator # NoChatter /\ roles[u] # "none"
    /\ MemberCount > 0 => creator # NoChatter
=============================================================================
