# Verification of the user-management service

TLA+ models of the service under `src/`: a FastAPI backend over PostgreSQL and
MongoDB (`src/app`) and a React frontend (`src/user-management-frontend`). TLC
checks the models on small instances; TLAPS proves the main results for every
value of the constants. `PROJECT.json` ties each definition to the lines it
models and each property to a slip in the code that would break it.

## 1. The system

| component | state | operations | talks to |
|---|---|---|---|
| users, roles, groups, permissions (`app/services`, `app/crud`, `app/models`, `app/api`) | tables `users`, `roles`, `permissions`, `user_groups` and the association tables `user_roles`, `role_permissions`, `user_group_members`, `user_group_roles` | one endpoint per creation, update, deletion, assignment and removal | PostgreSQL, audit log |
| authorization (`app/dependencies.py`) | none: reads the tables | `get_current_user`, `require_permission`, `is_admin` | every endpoint |
| seeding (`app/main.py`, `seed_*`) | the same tables | the lifespan handler, at every start, in one transaction | the services |
| tokens (`app/api/v1/endpoints/auth.py`, `app/core/security.py`) | table `token_blocklist`; the tokens themselves are outside | `login`, `refresh` (rotation), `logout` | users |
| resources and permission catalogue (`resource_service`, `permission_service`) | tables `resources` and `permissions`, with `permissions.resource_id` and the denormalised `permissions.resource` | create, change, delete, seed | role permissions, by cascade |
| rate limiter, request ids, error handlers (`app/core`, `app/main.py`) | a list of timestamps per address | one middleware step per request | error log |
| audit and error log (`audit_service`, `error_service`) | MongoDB collections | fire-and-forget writes, queries | every service |
| frontend session (`AuthContext`, `baseApi`, `authSlice`, `storage`) | local storage, shared by the tabs; the Redux `auth` slice and a loading flag of each | restore, login in two requests, profile save, logout, any 401 | tokens |
| frontend editors (`EditRoleDialog`, `CreateRoleDialog`, `RoleDetailPage`, `GroupDetailPage`, `EditUserDialog`) | a query's data or a copy of it, a selection, an open confirmation | saves of one request per item, single additions and removals | roles, groups, users |
| frontend lists (`UsersPage`, `PermissionsPage`, `ErrorLogsPage`, `DataTable`) | page, size, text, timer; the slices RTK Query keeps | search, turn the page, delete a row, refetch | list endpoints |
| frontend record dialogs (the five list pages, `utils/permissions.ts`) | which dialog is open, its form; the permissions of the stored user | create, edit, delete | every mutating endpoint |

How they interact: `get_db` opens one database session per request; it is one
READ COMMITTED transaction, committed after the handler and rolled back when the
handler raises. (With the FastAPI versions `pyproject.toml:14` names first; it pins none, and
newer ones end `get_db` after the answer is sent. The models of the frontend let the effect
of a request precede its answer, and hold for the former.) The server is one process with one event loop
(`docker-compose.yml`): requests interleave at awaits only, which are the
database calls. `docker-compose.yml:55` runs the migrations before the server.
MongoDB writes are tasks nobody awaits. The frontend keeps its tokens in local
storage and never calls `/auth/refresh`. Its components share no state but the
store: a mutation reaches a query through the tags it invalidates, and RTK Query
fetches again once no request is pending. A handler goes on after its await
whatever the user did meanwhile.

What is hard here: statements of concurrent requests that read before others
commit (rotation, `delete_role`, `set_role_permissions`, `delete_group`);
rollback and crash between two statements; seeding on a database that
administrators have edited since the last start; guards keyed on names and on
addresses that other requests can change; cascades of foreign keys; in the
frontend, answers that arrive after the dialog, the page, the text or the session
they belong to, saves of several requests of which some fail, refetches under an
edited selection, and tabs that share a token and not the user they show. `PROJECT.json` lists each at its line under "hazards".

What makes each component correct:

* tables: no association row dangles, unique columns are unique, the rows that
  guards are keyed on (the `admin` role, the `admin` permission, the `admin` and
  `guest` groups) exist, the system administrator stays one, administration that is
  lost with every side door closed stays lost while the server runs, nobody loses the
  last role by accident;
* seeding: restores everything it seeds, never disturbs anything else, never
  keeps the server from starting;
* tokens: a refresh token is exchanged once; a failed exchange costs nothing; a
  logged-out access token is refused;
* catalogue: every `resource_id` refers to a row, the string beside it is that
  row's name, default permissions stay linked, protected rows and the wildcard
  permission never change;
* limiter: at most `rate_limit_requests` accepted in any window, and none turned
  away before;
* session: the user a tab shows owns the token it sends, an ended session does not
  come back, a session is lost only by a logout or a refusal, no tab waits for ever;
* editors: a save asks for what was toggled, reports success only of what the
  server holds, and leaves a screen that agrees with the server; the wildcard stays;
* lists: at rest they show what their controls ask for; dialogs: what is offered is
  accepted as far as the page can know, a form starts from the server's record, and an
  answer closes another record's dialog only if the user had left its own.

## 2. Modules

### Rbac: the access-control database

One step is one request or one start of the server. Requests that are refused
change nothing and have no action. A table is a function from its keys, `None`
in a unique column is the absent row, an association table is the set-valued
function of its first column.

| variable | table | | variable | table |
|---|---|---|---|---|
| `email`, `username`, `active` | `users` | | `perms` | `permissions` (by name) |
| `rolesOf` | `user_roles` | | `permsOf` | `role_permissions` |
| `roleName` | `roles` | | `members` | `user_group_members` |
| `groupName` | `user_groups` | | `grolesOf` | `user_group_roles` |

`server` is the process: "new" (never started on this database), "up", "down",
"failed" (the lifespan handler raised). Each endpoint is an action of the
service function's name (`CreateUser` ... `SetRolePermissions`); `UsersApi`,
`RolesApi`, `GroupsApi`, `PermissionsApi` put the permission each route asks for
in front, `a` being the bearer of the token. `Boot` runs `SeedRoles`,
`SeedPermissions`, `SeedGroups` and `SeedUsers` in one transaction, as
`lifespan` does; `BootFails` is its unique-index violation; `Stop` is a shutdown
or a crash. The initial state is the migrated database: only the permissions
that migration 0003 inserts.

Abstracted: passwords, names for display, descriptions, timestamps. A
permission is its name, because no operation of the code tells two permissions
of one name apart; `delete_resource` is present by its cascade onto permissions
(any but `admin`, which has no `resource_id`).

`AdminStaysLost` begins where nobody has a power (`Powers`: the wildcard, and
`permissions.write`, whose holder may assign any permission to any role) and no side
door is open (`Sealed`). The code has three, and each can bring administration back:
a deactivated administrator whom a `users.write` holder reactivates; a role of another
name that carries a power and may be assigned without a check; a group of another name
that carries the admin role. From a sealed state on no sequence of requests opens one.

### Tokens and RotatingSession: login, refresh, logout

`RotatingSession` is what rotation promises: one good credential per session,
replaced by a fresh one at every exchange, never good again. `Tokens` is the
code: each request moves from one database call to the next (`stage`), other
requests in between; uncommitted rows are invisible, except that an INSERT waits
for the holder of the same key (`Locked`). A token is `<<pair, kind>>` and
stands for its `jti`.

| code | action |
|---|---|
| `refresh`: decode, check the type | `PresentRefresh` |
| the `TokenBlocklist` row, flushed by the SELECT of the user | `InsertRevocation` |
| user missing or inactive: 401 and rollback | `CheckAccount` |
| new pair, `db.commit()` | `CommitRotation` |
| `get_current_user`: decode, blocklist, user | `PresentAccess`, `LookupBlocklist`, `LoadUser` |
| `logout`: the row and its commit | `RevokeToken` |
| the process dies | `Crash` |

`parent`, `root`, `loggedOut` and `late` are history: what was exchanged for
what, and which requests began after a logout was answered. `OneGoodPerLogin` claims a
good refresh token only of a login that was not logged out: the documents say that a
logout ends it, the code revokes the access token alone (section 5). Requests that wait
for one key cannot wait for each other: each holds one at most.
`Abstract == INSTANCE RotatingSession WITH good <- ..., spent <- ...` maps the
blocklist to it; `Rotates` is checked by TLC and proved.

### RoleDeletion: one endpoint, statement by statement

`Rbac` runs each request alone. `delete_role` is the request of many statements,
so it has a module of its own in which requests interleave between statements:

| code (`role_service.delete_role`) | stage / action |
|---|---|
| look the role up | `BeginDeletion` |
| SELECT the affected users | `ReadAffected` |
| `crud.user.remove_role` of one of them | `RemoveRow` |
| count the roles left | `CountRoles` |
| find `guest`, or create it | `FindGuest`, `CreateGuest` |
| `crud.user.assign_role`: look, insert | `CheckRow`, `InsertRow` |
| DELETE the role; its cascade, row by row | `DropRole`, `CascadeRow` |
| commit of the session | `Commit` |

`BeginAssignment` and `BeginRemoval` start the two endpoints that compete for
the rows, on the same stages. PostgreSQL is modelled by what the code relies on
and marked external: a statement sees committed rows and its own changes
(`Seen`, `RolesSeen`); it waits for a row or a unique key another transaction
changed and for the key-share lock of a foreign key (`Waits`); a cycle of waits
costs one transaction (`BreakDeadlock`). `Abort` is a lost connection or process.
`given`, `late`, `overlapped` and `deleted` are history: `given` are the users who hold a
role or were given one, before its deletion read its users if it is being deleted
(`InTime`), and were not asked to give one up since; `late` those whose assignment came
after that reading. Users may have no role at first, as `create_user` makes them.

### Catalog: resources and permissions by key

A request is two steps: its lookups and checks (`CreateResource`,
`UpdatePermission`, ...), then its one writing statement with the commit
(`AddResource`, `ChangePermission`, ...), with other requests, `Stop` and `Boot`
in between. The indexes and foreign keys have the last word (`FreeFor`, the
lookup of the link at the write); a request they refuse ends by `Fail`. `Init` is
what migrations 0003 and 0005 leave; `Boot` is the seeding of resources, then
permissions. Keys come from a sequence and are not used again (`used`).
`renamed`, `byHand` and `touched` are history: resources renamed, resource strings
patched apart from the link, permissions a request wrote. Who may call is `Rbac`'s matter; so is which
role holds which permission.

### Gateway: limiter, middlewares, handlers

`Reject` and `Accept` are one request each: `RateLimiter.dispatch` has no await
between pruning, counting and recording. The answer is computed through the
layers in the order `app/main.py` stacks them: `Application` (the handlers of
FastAPI around the router), then `CatchAll` (Starlette's outermost error
middleware). No property is about the answer's fields; they say in which layer a request
ends. The list of time stamps is a set, since its order is never used.

### WebSession: the tabs of a browser

`stored` is local storage, `auth`, `loading`, `leaving` and `login` are each tab's
store, loading flag, assigned `window.location.href` and login under way; `calls`
are its other requests. `Send` takes the token local storage holds at that moment,
as `prepareHeaders` does.

| code | action |
|---|---|
| `AuthProvider`, its effect | `Load`, `Restore` |
| `LoginPage.onSubmit`; `AuthContext.login` up to each await, and its catch | `SubmitLogin`; `LoginSucceeds`, `MeSucceeds`, `LoginFails` |
| `fetchBaseQueryWithAuth` on 401 | `Refused` (by `Unauthorized`) |
| `authMiddleware`, `authSlice.logout`, `authApi.logout` | `ClearAll`, `Forget`, `Logout` |
| `EditProfileDialog.onSubmit`, before and after its await | `SaveProfile`, `ProfileSaved` |
| the navigation, a reload | `LoadLogin`, `Reload` |

`crossed`, `mixed` and `ended` are history: why what is shown and what is sent may
differ, and which tokens were taken out of local storage.

### RelationEditor: sets edited one request per item

One module for the eight screens that edit a set (`editor` says which): a role's
permissions (`editRole`, `createRole`, `rolePerms`), users of a role and members of a
group (`roleUsers`, `groupMembers`), roles of a group (`groupRoles`), roles and groups
of a user (`userRoles`, `userGroups`). What a screen lets the user press is an operator
of its own (`EditRoleChip`, `GroupMemberRow`, ...); every handler up to an await is an
action (`SubmitRole`, `AddMembers`, `ConfirmRemoval`, ...), and what follows the await
another (`HeadAnswered`, `BatchAnswered`, `RemovalAnswered`, ...). A save keeps what its
closure captured (`NewSave`). `Loading` is `isLoading` of a mutation hook: of the last
request it triggered, so `watched` moves on with each trigger (`Unwatched`). A failure
is refused, lost, or answered after its effect with the answer lost (`Fault`); another
client changes the set (`ForeignChange`). `listed`, `fetch` and `stale` are the query,
its request and a pending invalidation; `LoadSelection` is the effect of
`EditRoleDialog` on its list.

Left out: a user without the rights (RowDialogs has what pages offer), the role `admin`
(its dialogs are disabled), a second attempt under another role name, and
`EditUserDialog` opened again or saving its fields. `refetchOnMountOrArgChange` is put
under `extraOptions` in `permissionApi.ts`, where RTK Query does not look for it:
opening a dialog fetches nothing that is kept.

### PagedList: search, pages, slices

`screen` is "records" for `UsersPage` and `PermissionsPage`, which apply a search by a
timer, and "errors" for `ErrorLogsPage`, which has a button. `Current` are the arguments
of the query, `cache` the slices kept, `shown` the data of the hook, which keeps the
former slice until the new one arrives (a slice kept is shown at once; RTK Query may show the
former one a little longer while the kept one is fetched again, which is before the list
rests). `Answers` is what the server may answer: the
error log is sorted, users and permissions are selected without an `ORDER BY`, so any
rows of the right number. `strayed` is history: the page was turned to with a total that
was out of date, or rows were deleted from under it.

### RowDialogs: what is offered, sent and answered

One record list and its create, edit and delete dialogs, on the page `screen`. `held`
are the permissions of the user in the store, `granted` those the server knows.
`UsersOffer` ... `ResourcesOffer` are what each page shows; `Forbidden` is the endpoint's
permission and `Refusals` what the services refuse by the records as they are: gone,
protected (`Reserved`, by page: the groups `admin` and `guest`, the five
`PROTECTED_RESOURCES`, the role and the permission `admin`, the system administrator and
oneself), a group that has members by now, a name that is taken. `OtherChanges`,
`OtherMembers` and `Regrant` are other clients.

`own` says whether the mutation hook of the dialog still waits for a request, which
`Busy` reads; `Leave` ends that and sets `left`. `doubt` says why what a dialog or a request
knew may no longer be so: another client, a lost answer, another request under way, or a
list that had not been read again. An overwrite of somebody's change (`FormShowsTheRecord`)
and a refusal of a record gone or of a group with members (`OffersAreAccepted`) happen in
doubt only; in doubt the code does nothing against them. `ClosesItsOwn` lets a late success
of a request whose dialog the user left close another record's dialog of its kind, because
`GroupsPage.tsx:136-150` and its siblings do. The dialogs of roles that send several
requests are RelationEditor's.

## 3. Runs

| run | module, cfg | question | distinct states |
|---|---|---|---|
| rbac | MCRbac, MCRbac | tables, guards and seeding over 4 requests and any restarts | 224,389 |
| tokens | MCTokens, MCTokens | rotation, logout and refinement, 3 requests | 68,229 |
| role_deletion | MCRoleDeletion, RoleDeletion | two deletions and one other request, by statement | 218,398 |
| role_deletion_skew | MCRoleDeletion, RoleDeletionSkew | overlapping deletions: first finding of section 5 | |
| role_deletion_late | MCRoleDeletion, RoleDeletionLate | an assignment during a deletion: second finding | |
| role_deletion_live | RoleDeletion, RoleDeletionLive | does every request end, deadlocks included? | 8,453 |
| gateway | MCGateway, Gateway | the limit, from both sides | 122,995 |
| catalog | MCCatalog, Catalog | stale lookups against constraints and restarts | 130,854 |
| editors | MCRelationEditor, RelationEditor | saves, removals, refetches and failures on eight screens | 424,810 |
| web_session | MCWebSession, WebSession | two tabs, two users, two logins, late answers | 243,076 |
| paged_list | MCPagedList, PagedList | does the list come to rest on what is asked? | 518,905 |
| row_dialogs | MCRowDialogs, RowDialogs | offers, forms and answers on five pages | 2,287,102 |

Bounds, and why they are enough.

* rbac: `MaxRequests = 4` mutating requests. The longest history a property needs
  is rename, remove, delete, restart (3 requests and a start); the inductive
  proofs show that no longer history does harm. Three keys per table: the two
  seeded rows and one more; `editor`, `team`, `other@` stand for every ordinary
  name. Besides `admin`, `users.write` is seeded and `permissions.write` can be
  created: the two families of endpoints by which an actor who is not an administrator
  could become one.
* tokens: 4 pairs and 3 requests let two requests race for one token while a
  third logs out or replays; `MaxTime = 3` exceeds both lifetimes; a login leaves
  a pair for every request (`Cardinality` in `Login`), so `CommitRotation` never
  lacks one. Two users or two logins are covered by the theorem `OneGood` alone.
* role_deletion: two users and three roles give a deletion more than one affected
  user, in either order, and two deletions with a user in common. The initial
  assignments are all there are, users without a role and a missing `guest` included.
  The liveness run has two deletions and two roles, enough for the two cycles of
  waits there are (rows of two users; row and role).
* gateway: 4 accepted requests are twice the limit; the clock runs to twice the
  window. Two clients, because the entries are kept per client.
* catalog: one default resource the migration inserts and one the first start
  adds; permissions with a resource, without one (`errors.read` names a resource
  nobody seeds) and the wildcard, and a key for one deleted and seeded again; 3 requests,
  2 at a time.
* editors: two items, the wildcard and another; two overlapping saves, or three
  single requests where a press sends one; one upset (another client's change or a
  failure), which is what the properties distinguish from none. Two saves are the
  fewest that overlap; every save has up to three requests under way.
* web_session: two tabs and two users are the fewest that can disagree; two logins
  make a former and a present session; two requests under way cross each other.
* paged_list: two rows in pages of one or two give a page past the end, an empty
  search and a last row to delete; a text that finds everything and one that finds
  one row; three presses type, turn and delete; one change by another client.
* row_dialogs: three records, some not yet created, and three names, of which one is
  protected, or two on the pages of groups and resources (for `guest`, and for the rest of
  the five resources). At first at most one group has members, and where one name is
  protected a second is free (`MCInit`). Two requests, enough for a second one to overlap
  a closed dialog's and for a second press of Delete; one upset. The logins are those with
  all but one permission, and the wildcard's.

Keys, users, values and requests are symmetric where the run has no temporal formula
under fairness. Deadlock is not checked where requests are bounded or may simply
not arrive, which is everywhere.

Fairness is assumed where liveness is checked. In role_deletion_live: weak fairness of each
request's next step, because the event loop resumes a coroutine whose database call has
returned and PostgreSQL ends every wait when the holder ends, and of the deadlock detector
(`deadlock_timeout`). In the frontend models: that requests are answered or fail, that
the browser runs handlers, effects, timers and navigations, and that RTK Query fetches
again what was invalidated. No user is obliged to press anything, nobody to send a
request or to crash.

## 4. Proofs

`RbacProofs`: `Inductive` proves `Spec => []IInv`, where `IInv` is `TypeOK`,
`ReferentialIntegrity`, `UniqueNames` and, once the server has started, the
anchor rows. They need each other: without references, a new row could be born
with the assignments of an old one; without unique names, removing or renaming
"the" admin row could leave none; without the anchors, the guards
that name them protect nothing. There is one lemma per operation and per
seeding step. The action properties (`SystemAdminKept`, `AdminStaysLost`,
`FallbackKept`, `StartRestores`, `SeedingIdempotent`) are proved from it.
`AdminStaysLost` is a statement about one step and about a property of states at once: since
`Sealed` is kept by every request, nobody is made an administrator by any sequence of them.

`AccessProofs` has the results about `Tokens` and about `Gateway`. Of the tokens: the runs'
invariants are not inductive. `IInv` adds that a request past its INSERT holds the only lock
on an unrevoked token, that parents and roots form chains within one login, and that what is
issued belongs to a user. `Refines` maps each step to `Open`, `Rotate` or a stutter. Of the
limiter: `WindowBound` speaks of what was accepted, the limiter counts what it keeps.
`KeptIsWindow` joins them: what is kept was accepted, and what was accepted and is still in
the window is kept. Hence the count is the window's. A new entry touches no window that
ended before, and a window that ends later holds only entries still kept.

`RoleDeletionProofs`: every statement of a deletion relies on what an earlier one saw, and
others may have committed since. `Shapes` says what a request has collected by its stage,
`Locks` what nobody can have changed meanwhile: one request at most creates `guest`, and only
while none is committed; no two drop one role; an uncommitted row refers to a role that
exists or that its own request creates, and that nobody else drops; a deletion that is ready
to commit sees no row of its role. `OneGuest` and `NoOrphanRow` follow at the commits. `Fallen`:
whoever a deletion moved to `guest` has the row among its own, which `Locks` protects; that is
`FallbackSurvives`, whatever overlaps. `NobodyDropped` holds without overlap (`Serial`), and
needs `NobodyForgotten`: each user `given` a role in time either keeps another role or is still owed a visit of the
loop, a count or an insertion. Last, `SerialSpec` lets a request take a step only while no
other is running, and `SerialIsAtomic` shows that it implements `AtomicSpec`, where a deletion,
an assignment or a removal is one step on the two tables: the deletion drops the role with its
rows and gives every user left without one `guest`, created if missing, or commits nothing. That
is what `Rbac` assumes when `DeleteRole` is one action. `SerialInv` says what the loop has
removed and added by each of its statements, exactly; TLC agrees on the constants of
`role_deletion` (9,513 states).

`CatalogProofs`: `IInv` says what a pending request may still rely on. The row it
checked may be gone, but has not become a protected one, since a key never comes
back and a protected name is taken while the server is up (`Serving`); the label
it resolved is the resource's name unless that was renamed or deleted. One lemma,
`PendingKept`, shows that every write respects this for all other requests.
`BootEffect` says what a start does to both tables, by `FilledColumn`. `SeededLinksStay`
needs that a pending change of a resource is not one of a default's name (`PendingKept`
again) and that a start fills in the resources before it looks for them.

`RelationEditorProofs`: a save captures the selection and the list when it is begun and
its requests are sent after an answer, when both may have changed. `IInv` therefore
relates the selection to the list shown at every moment (`SelectionFits`), each save to
what it captured (`SavesFit`), each request to its save (`CallsFit`), and says that where
removals are confirmed one is under way at a time (`RemovalsFit`). `WildcardHeld` follows
from the disabled chip, the selection effect and the difference of the two sets. The other
two results follow a request to its end. `ScreensAgree`: while no mutation is under way and no
invalidation waits, what a query lists or a fetch has read is the server's (`ListAgrees`);
for a copy, each request under way accounts for one item, by its phase (`CopiesAgree`), which
fails once two equal requests overlap. `SuccessMeansSaved`: nothing has changed before the
first save (`Untouched`), whose requests all move the server towards what was chosen, so that
an item is as chosen or has a request until the last answer (`FirstSave`), even if effects
precede lost answers.

`WebSessionProofs`: what a tab restores is what local storage holds, so the storage itself
has to agree (`StorageAgrees`), and a tab behind its spinner too (`TabsAgree`); that ended
tokens stay away needs that a new one is new (`TokensIssued`). `StoreKeeps` is the lemma
about every write of local storage.

`PagedListProofs`: at rest only the past vouches for the slice shown; the invariant says of
every slice kept (`CacheFits`) and every answer under way (`AnswersFit`) why it may still be
behind the server. `EmptyPageHasACause` adds that the page begins before the end of what is
found unless it strayed (`PageExists`), and a lemma on numbers: the ranks in a finite set are
exactly the numbers below its cardinality (`RanksAreDense`), so such a page is not empty.

`RowDialogsProofs`: requests are answered long after they were offered, so `DialogsOffered`
and `CallsOffered` carry the offer along; `ListIsServer` and `FormIsAlone` say when a list is
the server's and that a form not in doubt is alone with its own request. `RightsAgree`,
`ReservedHeld` and `ReservedSeen` say what may be relied on of rights and protected names
meanwhile, `QuestionIsTrue` and `CallIsTrue` what a deletion out of doubt still knows when it
is served. `ClosesItsOwn` follows a request to its answer: while its dialog was not left
that dialog is open (`OwnIsOpen`), or another success has closed it and, with it, every
chance of a second one (`ClosedByAnother`, `DeletedOnce`).

Assumptions are the named ones of the modules: seeded names are members of their columns'
values and distinct, `admin` is among the permissions seeded for the `admin` role, `None`
is no value, lifetimes, limit and window are naturals (the last two positive), the
wildcard is an item, sizes of pages are positive, some text finds every row. Every
invariant and action property of a passing run is proved. Only model-checked: liveness
(`Answered`, `Settles`, `TabsSettle`, `ListSettles`), which needs fairness and
ENABLED, out of the prover's reach. Proved and checked by no run of their own, for they
are part of the invariants: `TypeOK` of the other modules, `UniqueNames`, `SeedingIdempotent`,
`RevokedIffReplaced`, `LinksExist`.

## 5. Findings

Run role_deletion_skew: two deletions that overlap each count the role the other is
removing; neither falls back, and the user is left without a role, against
`app/services/role_service.py:109`.

Run role_deletion_late: a role is assigned to a user who has none, after its deletion has read
who holds it (`role_service.py:128`). The assignment commits, the cascade removes it with the
role, and the user is left without one, against the same line; one deletion is enough.

Seen while modelling, without a run of their own. In the backend:

* `seed_default_users` (`user_service.py:303`) finds the two accounts by address and
  creates them under a fixed user name: after a PATCH of the address the next start
  fails, against `README.md:45` ("Idempotent startup seeding"). `BootFails` has it.
* Deleting the role `guest` leaves its users without a role (`role_service.py:146`),
  against `role_service.py:109`; `FallbackKept` states it as the exception.
* `logout` (`auth.py:141`) revokes the access token; its docstring (`auth.py:137`,
  "Revokes the provided refresh token.") and `README.md:193` speak of the refresh token.
* The limiter's 429 (`rate_limiter.py:36`) is raised outside the handlers: the client gets
  a 500 and the error log an entry, against `README.md:384` and `README.md:405`.
* `tests/integration/test_role_endpoints.py:72` says that a role in use cannot be
  deleted; it is, with the fallback.
* Nothing purges expired rows of `token_blocklist`, which
  `models/token_blocklist.py:11` speaks of.
* A 500 from the catch-all carries no `X-Request-ID` header (`README.md:392`);
  a 422 and an unknown route carry no id in the body (`README.md:405`).
* The README counts four default resources (`README.md:114`), the code five; the
  permission `errors.read` names a resource that nobody seeds, so it has no link.
* The permissions endpoints ask for are not those of `README.md`: assigning and removing a
  role asks for `users.write` (`users.py:145`, `users.py:171`; `README.md:204-205` says
  `roles.write`), deleting a permission for `permissions.delete` (`permissions.py:102`;
  `README.md:222` says `permissions.write`), resources for `resources.read`, `.write` and
  `.delete` (`resources.py:28-95`; `README.md:245-249` says `permissions.*`). The models and
  the frontend follow the code.
* `update_user` and `update_permission` do not look a new address or name up; the unique
  index refuses it, as a 500 where other services answer 409.
* Renaming a resource does not reach `permissions.resource`, and a PATCH may set
  that string apart from the link; `LabelFollowsLink` says that nothing else can
  separate the two.
* Users and permissions are paged without an order (`crud/user.py:77`): consecutive
  pages may repeat or miss rows.

In the frontend (paths under `src/user-management-frontend/src`):

* Session: `logout` clears the token before the request reads it (`authApi.ts:22`), so the
  server refuses the call and the token stays valid; a late 401 of a former session wipes
  a newer one (`baseApi.ts:38`, the exception of `OnlyStaleAnswersWipe`); tabs do not hear
  of each other (`crossed`), and a profile save answered after another login stores one
  user beside another's token (`mixed`). The query cache and notifications survive a logout
  that does not reload the page. The frontend's README promises an automatic refresh on
  401 and admin-only routes; `/auth/refresh` is never called and `requireAdmin` never set.
* Editors: after a partial failure `EditRoleDialog` fetches the list again and replaces
  the edits, except by an empty list, which it ignores, so that a retry grants the old set
  again; a retry of `CreateRoleDialog` meets the name it has just created (409), and a retry
  of a batch the users already added (409). A second click on a group in `EditUserDialog` is
  not prevented (`doubled`). The search effects depend on `usersData?.items ?? []`, a new
  array at each render until the users are loaded. `RoleDetailPage` asks for the first page
  of users only. A query whose refetch failed keeps a list that is behind the server; no screen
  asks again before the next mutation (`ScreensAgree` leaves it out).
* Lists: deleting the last row of the last page leaves an empty page, and the arrow may
  lead past the end of a search whose total is not there yet (`strayed`); the first timer of
  `UsersPage` returns to page 0 within 300 ms of opening it.
* Dialogs: `DeleteUserDialog`, `DeletePermissionDialog`, `DeleteResourceDialog` and
  `DeleteRoleDialog` pass no `isLoading`, so a second click sends a second request; the late
  success of a request whose dialog was left closes whatever dialog of its kind is open, with
  what was typed in it (the exception of `ClosesItsOwn`); only `RolesPage` knows the protected
  records. Saving a role is offered for `roles.write`, its permissions need
  `permissions.write`; removing a user from a role needs `users.write`.
* Tags: creating, renaming or deleting a role, and changing the roles of a group, does not
  invalidate the cached users (`roleApi.ts:4-36`); nor do permission changes of a role.

## 6. Plan

1. The statements of `delete_group` against `add_member` and of two bulk PUTs of a role's
   permissions, in the style of `RoleDeletion`.
2. The safety half of the liveness results: which request a waiting one waits for, and what a
   step brings nearer.
3. One cache with several queries: the tags that are missing in section 5.
4. `Audit`: events against commits and crashes.

The number of runs is kept small: a run is kept while no other says more about
the same part, and a later component takes the place of the weakest one.

Not modelled: rendering, layout, themes, notifications and the dashboard, which hold no
state of their own; field validation; the audit log, which nothing reads back; SQL reports,
the CSV export and the standalone `scripts/seed.py`. See `components` in `PROJECT.json`.
