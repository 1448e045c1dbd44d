----------------------------- MODULE MCPlatform -----------------------------
(* What every company uses whatever it builds: accounts, sessions, roles,     *)
(* master data and chat, in one small instance.  They write no table in        *)
(* common, so a behaviour shows one of them: scene says which.                *)
EXTENDS MasterData, SignIn, Sessions, UserAccounts, RolePermissions,
        ChatGroups, ChatMessages, TLC

CONSTANTS c1, c2, cs, admin, engineer, planner, r1, r2

\* Two permissions of one module, and a user of each kind of role.
Modules2 == (c1 :> cs @@ c2 :> cs)
Roles2 == (admin :> "Admin" @@ engineer :> "SiteEngineer" @@ planner :> "Planner")
Payloads == {{}, {c1}, {cs}, {Anything}}

\* The slots of requests are interchangeable.
Interchangeable == Permutations({r1, r2})

VARIABLE scene

Scene == {"master", "signin", "sessions", "users", "roles", "groups", "messages"}
allVars == <<scene, masterVars, signInVars, sessionVars, userVars, roleVars, groupVars, chatVars>>

MCInit ==
    /\ scene \in Scene
    /\ MasterInit /\ SignInInit /\ SessionsInit /\ UsersInit /\ RolesInit
    /\ GroupsInit /\ MessagesInit
    /\ scene = "users" \/ users[1].is_active
    /\ scene = "roles" \/ catalogue = {}
    /\ scene = "master" \/ listed = NoAnswers

MCNext ==
    \/ /\ scene = "master" /\ MasterNext
       /\ UNCHANGED <<scene, signInVars, sessionVars, userVars, roleVars, groupVars,
                      chatVars>>
    \/ /\ scene = "signin" /\ SignInNext
       /\ UNCHANGED <<scene, masterVars, sessionVars, userVars, roleVars, groupVars,
                      chatVars>>
    \/ /\ scene = "sessions" /\ SessionsNext
       /\ UNCHANGED <<scene, masterVars, signInVars, userVars, roleVars, groupVars,
                      chatVars>>
    \/ /\ scene = "users" /\ UsersNext
       /\ UNCHANGED <<scene, masterVars, signInVars, sessionVars, roleVars,
                      groupVars, chatVars>>
    \/ /\ scene = "roles" /\ RolesNext
       /\ UNCHANGED <<scene, masterVars, signInVars, sessionVars, userVars,
                      groupVars, chatVars>>
    \/ /\ scene = "groups" /\ GroupsNext
       /\ UNCHANGED <<scene, masterVars, signInVars, sessionVars, userVars,
                      roleVars, chatVars>>
    \/ /\ scene = "messages" /\ MessagesNext
       /\ UNCHANGED <<scene, masterVars, signInVars, sessionVars, userVars,
                      roleVars, groupVars>>
MCSpec == MCInit /\ [][MCNext]_allVars

-----------------------------------------------------------------------------
\* Every table and every key of Redis keeps its columns' types.
PlatformTypesOK ==
    /\ scene = "master"   => MasterTypeOK
    /\ scene = "signin"   => SignInTypeOK
    /\ scene = "sessions" => SessionsTypeOK
    /\ scene = "users"    => UsersTypeOK
    /\ scene = "roles"    => RolesTypeOK
    /\ scene = "groups"   => GroupsTypeOK
    /\ scene = "messages" => MessagesTypeOK

\* Who may come in, and what they may do there: a code opens one session and few
\* guesses are answered, a session ends when it was ended, the company has no more
\* users than its plan and its trail tells what they became, and a user may do
\* what the role and the exceptions to it give.
AccountsHold ==
    /\ scene = "signin"   => CodeUsedOnce /\ GuessesBounded
    /\ scene = "sessions" => SessionsHold
    /\ scene = "users"    => UserQuotaHeld /\ TrailReplays /\ UserViewsAgree
    /\ scene = "roles"    => RolesStand

\* What people are shown is what was written: the lists of master data and of
\* users out of the cache, the groups' members and administrators, and messages
\* with who has read them.
AnswersHold ==
    /\ scene = "master"   => NamesDistinct /\ ServedIsCurrent /\ ServedIsRecent /\ MasterViewsAgree
    /\ scene = "users"    => UserListCurrent
    /\ scene = "groups"   => GroupsAreRun
    /\ scene = "messages" => ReadsAgree /\ MessagesStand
=============================================================================
