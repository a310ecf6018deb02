-------------------------------- MODULE Accounts --------------------------------
(***************************************************************************)
(* The users table and the password sessions.  A session names a user and  *)
(* a token version; every request reads the caller's row first and is      *)
(* refused unless the row is active and still has that version.  What a    *)
(* request does then is decided by that row, and by reads of other rows,   *)
(* and written later: nothing but sign-out writes conditionally.           *)
(*                                                                         *)
(* The bootstrap of a single-box deployment seeds the shipped users, at    *)
(* most once; a backend starts when a bootstrap has completed, and the one *)
(* of the previous rollout may be serving while it runs.                   *)
(***************************************************************************)
EXTENDS Integers

CONSTANTS
  Requests,     \* requests in flight at a time
  Users,        \* usernames; the shipped ones are these
  SeedAdmin,    \* the shipped user that is an admin
  Default,      \* the shipped password of a user
  Chosen,       \* other passwords
  MaxVersions,  \* bound: token versions ever handed out
  MaxWrites     \* bound: writes that requests ever make

ASSUME AccountsAssumption ==
  /\ SeedAdmin \in Users /\ Default \notin Chosen
  /\ MaxVersions \in Nat \ {0} /\ MaxWrites \in Nat

VARIABLES
  user,         \* the users table
  tokens,       \* history: the sessions issued, with the password last proved or set
  made,         \* token versions handed out so far
  writes,       \* writes made by requests so far
  request,      \* what each request has read and does next
  boot,         \* the bootstrap
  marker,       \* the bootstrap:seeded row
  served,       \* a backend is running
  ended,        \* history: versions of users who signed out of them
  removedUsers, \* history: users an admin removed and none added again
  emptied       \* history: the last row was removed once

accountVars ==
  <<user, tokens, made, writes, request, boot, marker, served, ended, removedUsers, emptied>>

\* Versions of rows that were put are never used twice, a random start and
\* then one more each time; a row that update_item brought into being has
\* none, which reads as 0, and is counted downwards here.
VersionNumbers == -MaxWrites .. MaxVersions

Secrets == Chosen \cup {Default, "none"}
NoUser == [status |-> "absent"]
UserRow == [status : {"none", "active", "suspended"}, put : BOOLEAN, admin : BOOLEAN,
            secret : Secrets, version : VersionNumbers]
Token == [user : Users, version : VersionNumbers, secret : Secrets]

\* The fields an admin may set.
Updates == {"suspend", "activate", "promote", "demote"}

\* disturbed: history, another operation took an active admin meanwhile.
Idle == [pc |-> "idle"]
RequestState == {Idle}
  \cup [pc : {"touch"}, token : Token]
  \cup [pc : {"asked"}, by : Users, put : BOOLEAN, admin : BOOLEAN, disturbed : BOOLEAN]
  \cup [pc : {"count", "patch"}, by : Users, target : Users, update : Updates,
        disturbed : BOOLEAN]
  \cup [pc : {"delete", "put"}, by : Users, target : Users, disturbed : BOOLEAN]
Boot == {Idle} \cup [pc : {"scan", "mark"}] \cup [pc : {"get", "put"}, left : SUBSET Users]

AccountsTypeOK ==
  /\ user \in [Users -> UserRow \cup {NoUser}]
  /\ tokens \subseteq Token /\ made \in 0 .. MaxVersions /\ writes \in 0 .. MaxWrites
  /\ request \in [Requests -> RequestState] /\ boot \in Boot
  /\ marker \in BOOLEAN /\ served \in BOOLEAN /\ emptied \in BOOLEAN
  /\ ended \subseteq Users \X VersionNumbers /\ removedUsers \subseteq Users
  /\ \A t \in tokens : t.version <= made
  /\ \A u \in Users : user[u] # NoUser => user[u].version <= made

NewUser(admin, secret) ==
  [status |-> "active", put |-> TRUE, admin |-> admin, secret |-> secret,
   version |-> made + 1]

\* A box that was never bootstrapped; or one whose users have long changed
\* the shipped passwords, from before or after the marker.
AccountsInit ==
  /\ \/ /\ user = [u \in Users |-> NoUser]
        /\ tokens = {} /\ made = 0 /\ marker = FALSE /\ served = FALSE
     \/ /\ \E admin \in [Users -> BOOLEAN], secret \in Chosen :
             /\ admin[SeedAdmin]
             /\ user = [u \in Users |-> [status |-> "active", put |-> TRUE, admin |-> admin[u],
                                        secret |-> secret, version |-> 1]]
             /\ tokens = [user : Users, version : {1}, secret : {secret}]
        /\ made = 1 /\ marker \in BOOLEAN /\ served = TRUE
  /\ writes = 0 /\ request = [p \in Requests |-> Idle] /\ boot = Idle
  /\ ended = {} /\ removedUsers = {} /\ emptied = FALSE

Proceed(p, state) == request' = [request EXCEPT ![p] = state]

-----------------------------------------------------------------------------
(* Rows, and who is behind them.                                           *)

ActiveAdmin(r) == r # NoUser /\ r.status = "active" /\ r.admin
Admins == {u \in Users : ActiveAdmin(user[u])}

\* require_active_user and enforce_session_version.
Accepted(token) ==
  LET r == user[token.user]
  IN  r # NoUser /\ r.status = "active" /\ r.version = token.version

\* update_item on a row that is gone creates it anew.
UpsertUser(r) ==
  IF r = NoUser THEN [status |-> "none", put |-> FALSE, admin |-> FALSE,
                      secret |-> "none", version |-> 0]
  ELSE r

\* A version that only a row that was put may run out of.
CanBump(r) == r # NoUser /\ r.put => made < MaxVersions
Bumped(r) == IF r.put THEN made + 1 ELSE r.version - 1
Counted(r) == made' = IF r # NoUser /\ r.put THEN made + 1 ELSE made

\* A password whose change leaves the sessions alone.
RehashKeepsVersion(r, secret) == [UpsertUser(r) EXCEPT !.secret = secret]

\* The new password, and the end of every session.
Rehash(r, secret) ==
  [UpsertUser(r) EXCEPT !.secret = secret, !.version = Bumped(UpsertUser(r))]

\* The write of one row by an operation; it disturbs the others if there
\* is an active admin less for it.
Store(u, r) ==
  /\ user' = [user EXCEPT ![u] = r]
  /\ emptied' = (emptied \/ (r = NoUser /\ \A w \in Users \ {u} : user[w] = NoUser))

Disturbs(u, r) == ActiveAdmin(user[u]) /\ ~ActiveAdmin(r)

\* Request p writes row u and is over.
Ends(p, u, r) ==
  /\ writes < MaxWrites /\ writes' = writes + 1
  /\ Store(u, r)
  /\ request' = [q \in Requests |->
              IF q = p THEN Idle
              ELSE IF Disturbs(u, r) /\ "disturbed" \in DOMAIN request[q]
                   THEN [request[q] EXCEPT !.disturbed = TRUE]
              ELSE request[q]]

Rest == UNCHANGED <<boot, marker, served, ended, removedUsers>>
NoWrite == UNCHANGED <<user, tokens, made, writes, boot, marker, served, ended, removedUsers, emptied>>

-----------------------------------------------------------------------------
(* Signing in and out.                                                     *)

\* A right password for an active row; the token is made from this read.
SignInReads(p) ==
  /\ served /\ request[p] = Idle
  /\ \E u \in Users :
       /\ user[u] # NoUser /\ user[u].put /\ user[u].status = "active"
       /\ Proceed(p, [pc |-> "touch",
                   token |-> [user |-> u, version |-> user[u].version, secret |-> user[u].secret]])
  /\ NoWrite

\* last_auth_at is set, and the session issued.
SignInIssues(p) ==
  /\ request[p].pc = "touch"
  /\ LET t == request[p].token
     IN  /\ Ends(p, t.user, UpsertUser(user[t.user]))
         /\ tokens' = tokens \cup {t}
  /\ UNCHANGED made /\ Rest

\* Sign-out of a session that is not the user's present one as well.
RevokesAny(token) == user[token.user] # NoUser

Revokes(token) == user[token.user] # NoUser /\ user[token.user].version = token.version

\* revoke_demo_session: one conditional increment, which ends every session.
SignOut(token) ==
  /\ served /\ token \in tokens
  /\ Revokes(token) /\ CanBump(user[token.user])
  /\ writes < MaxWrites /\ writes' = writes + 1
  /\ user' = [user EXCEPT ![token.user].version = Bumped(user[token.user])]
  /\ Counted(user[token.user])
  /\ ended' = ended \cup {<<token.user, token.version>>}
  /\ UNCHANGED <<tokens, request, boot, marker, served, removedUsers, emptied>>

-----------------------------------------------------------------------------
(* A request with a session.                                               *)

\* get_active_user_row; a shipped password is good only for changing it.
Asks(p) ==
  /\ served /\ request[p] = Idle
  /\ \E t \in tokens :
       /\ Accepted(t)
       /\ LET r == user[t.user]
          IN  Proceed(p, [pc |-> "asked", by |-> t.user, put |-> r.put,
                       admin |-> r.admin /\ r.secret # Default, disturbed |-> FALSE])
  /\ NoWrite

\* The caller knows the password the row had; the session of the answer is
\* made from the row as written.
ChangesPassword(p) ==
  /\ request[p].pc = "asked" /\ request[p].put
  /\ LET u == request[p].by
     IN  /\ CanBump(user[u]) /\ Counted(user[u])
         /\ \E secret \in Chosen :
              /\ Ends(p, u, Rehash(user[u], secret))
              /\ tokens' = tokens \cup {[user |-> u, secret |-> secret,
                                         version |-> user'[u].version]}
  /\ Rest

AdminAsks(p) == request[p].pc = "asked" /\ request[p].admin

\* Would the update take the admin access of the row.
Strips(r, update) == ActiveAdmin(r) /\ update \in {"suspend", "demote"}

Updated(r, update) ==
  CASE update = "suspend" -> [r EXCEPT !.status = "suspended"]
    [] update = "activate" -> [r EXCEPT !.status = "active"]
    [] update = "promote" -> [r EXCEPT !.admin = TRUE]
    [] update = "demote" -> [r EXCEPT !.admin = FALSE]

\* update_user: the last-admin guard concerns a row that is an active
\* admin's when it is read.
PatchReads(p) ==
  /\ AdminAsks(p)
  /\ \E u \in Users, update \in Updates :
       /\ user[u] # NoUser
       /\ Proceed(p, [pc |-> IF Strips(user[u], update) THEN "count" ELSE "patch",
                   by |-> request[p].by, target |-> u, update |-> update,
                   disturbed |-> request[p].disturbed])
  /\ NoWrite

\* The target itself counts as an admin that is left.
AdminsLeftAny(u) == Admins # {}

AdminsLeft(u) == Admins \ {u} # {}

\* The scan for other active admins.
PatchCounts(p) ==
  /\ request[p].pc = "count"
  /\ Proceed(p, IF AdminsLeft(request[p].target) THEN [request[p] EXCEPT !.pc = "patch"] ELSE Idle)
  /\ NoWrite

PatchWrites(p) ==
  /\ request[p].pc = "patch"
  /\ LET u == request[p].target
     IN  Ends(p, u, Updated(UpsertUser(user[u]), request[p].update))
  /\ UNCHANGED <<tokens, made>> /\ Rest

\* remove_user: anybody's row but the caller's own.
RemoveUserReads(p) ==
  /\ AdminAsks(p)
  /\ \E u \in Users \ {request[p].by} :
       /\ user[u] # NoUser
       /\ Proceed(p, [pc |-> "delete", by |-> request[p].by, target |-> u,
                   disturbed |-> request[p].disturbed])
  /\ NoWrite

RemoveUserDeletes(p) ==
  /\ request[p].pc = "delete"
  /\ Ends(p, request[p].target, NoUser)
  /\ removedUsers' = removedUsers \cup {request[p].target}
  /\ UNCHANGED <<tokens, made, boot, marker, served, ended>>

\* add_user: the put does not look again.
AddReads(p) ==
  /\ AdminAsks(p)
  /\ \E u \in Users :
       /\ user[u] = NoUser
       /\ Proceed(p, [pc |-> "put", by |-> request[p].by, target |-> u,
                   disturbed |-> request[p].disturbed])
  /\ NoWrite

AddPuts(p) ==
  /\ request[p].pc = "put" /\ made < MaxVersions
  /\ \E admin \in BOOLEAN, secret \in Chosen :
       Ends(p, request[p].target, NewUser(admin, secret))
  /\ made' = made + 1
  /\ removedUsers' = removedUsers \ {request[p].target}
  /\ UNCHANGED <<tokens, boot, marker, served, ended>>

\* A request that is refused, or whose handler fails: nothing is undone.
GivesUp(p) ==
  /\ request[p] # Idle
  /\ Proceed(p, Idle)
  /\ NoWrite

-----------------------------------------------------------------------------
(* The bootstrap.                                                          *)

BootIdle == UNCHANGED <<tokens, writes, request, ended, removedUsers>>

\* seed_demo_users_once: nothing to do once the marker is there.
BootBegins ==
  /\ boot = Idle
  /\ IF marker THEN served' = TRUE /\ UNCHANGED boot
     ELSE boot' = [pc |-> "scan"] /\ UNCHANGED served
  /\ UNCHANGED <<user, made, marker, emptied>> /\ BootIdle

\* No marker is taken to mean no users.
HasUsersIgnored == FALSE

HasUsers == \E u \in Users : user[u] # NoUser

BootScans ==
  /\ boot.pc = "scan"
  /\ boot' = IF HasUsers THEN [pc |-> "mark"] ELSE [pc |-> "get", left |-> Users]
  /\ UNCHANGED <<user, made, marker, served, emptied>> /\ BootIdle

\* seed_demo_users: the shipped users one by one, the admin first.
NextSeed(left) == IF SeedAdmin \in left THEN SeedAdmin ELSE CHOOSE u \in left : TRUE

BootGets ==
  /\ boot.pc = "get"
  /\ boot' = IF boot.left = {} THEN [pc |-> "mark"]
             ELSE IF user[NextSeed(boot.left)] = NoUser THEN [boot EXCEPT !.pc = "put"]
             ELSE [boot EXCEPT !.left = @ \ {NextSeed(boot.left)}]
  /\ UNCHANGED <<user, made, marker, served, emptied>> /\ BootIdle

BootPuts ==
  /\ boot.pc = "put" /\ made < MaxVersions
  /\ LET u == NextSeed(boot.left)
     IN  /\ Store(u, NewUser(u = SeedAdmin, Default))
         /\ boot' = [pc |-> "get", left |-> boot.left \ {u}]
  /\ made' = made + 1
  /\ UNCHANGED <<marker, served>> /\ BootIdle

BootMarks ==
  /\ boot.pc = "mark"
  /\ marker' = TRUE /\ served' = TRUE /\ boot' = Idle
  /\ UNCHANGED <<user, made, emptied>> /\ BootIdle

BootDies ==
  /\ boot # Idle
  /\ boot' = Idle
  /\ UNCHANGED <<user, made, marker, served, emptied>> /\ BootIdle

AccountsNext ==
  \/ \E p \in Requests :
       \/ SignInReads(p) \/ SignInIssues(p) \/ Asks(p) \/ ChangesPassword(p)
       \/ PatchReads(p) \/ PatchCounts(p) \/ PatchWrites(p)
       \/ RemoveUserReads(p) \/ RemoveUserDeletes(p) \/ AddReads(p) \/ AddPuts(p)
       \/ GivesUp(p)
  \/ \E token \in tokens : SignOut(token)
  \/ BootBegins \/ BootScans \/ BootGets \/ BootPuts \/ BootMarks \/ BootDies

AccountsSpec == AccountsInit /\ [][AccountsNext]_accountVars

-----------------------------------------------------------------------------

\* A session that is accepted on a row that was put was made for the row's
\* present password, by signing in with it or by setting it, and nobody has
\* signed out of it: a sign-in that read the row before a password change or
\* a sign-out and issues its session afterwards, and a username that was
\* removed and added again, bring no old session back.
SessionsCurrent ==
  \A t \in tokens :
    Accepted(t) /\ user[t.user].put =>
      t.secret = user[t.user].secret /\ <<t.user, t.version>> \notin ended

\* The last active admin is lost only to a request during which another one
\* took an active admin too: one request alone never leaves none.  In a table
\* that was emptied a bootstrap may seed over a row added meanwhile.
LastAdminNeverAlone ==
  [][Admins # {} /\ Admins' = {} /\ ~emptied =>
       \E p \in Requests : request'[p] # request[p] /\ request[p].disturbed]_accountVars

\* A user whom an admin removed is not seeded again, by a bootstrap from
\* before the marker existed either, unless the table was emptied.
RemovedStaysRemoved ==
  [][boot' # boot /\ ~emptied => \A u \in removedUsers : user'[u] = user[u]]_accountVars

=============================================================================
