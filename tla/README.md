# Verification of university-exam-tests

TLA+ models of a service on which students solve practice exams: a Rust
backend (`src/crates`: axum handlers, application services, sqlx
repositories over PostgreSQL), its schema (`src/migrations`) and an Angular
client (`src/frontend`). This directory holds the modules, the
configurations that check them with TLC, and theorems about them with proofs
checked by TLAPS. `PROJECT.json` maps definitions to source lines and lists
the runs, the mutants that show each property can fail, the findings, the
hazards and the theorems.

## The system

All requests of all users are served concurrently by one process over a
connection pool. Apart from one transaction (`set_subjects`) every SQL
statement commits on its own, so a handler is a sequence of separate atomic
steps and whatever it read may be stale when it writes. A handler whose
client disconnects is dropped between two steps, and any statement may fail.
The backend keeps no state in memory; access tokens are stateless.

| Component | State | Operations | Hard behaviours | What makes it correct |
|---|---|---|---|---|
| Login sessions: `auth_service.rs`, `refresh_token_repository_impl.rs` | `refresh_tokens` (owner, expiry, revocation and reason, successor) | login, refresh (rotation), logout of one token or of all | refreshes racing each other and logouts; checks made statements before the write; a failure between storing the successor and revoking the old token; expiry and account lock meanwhile | at most one usable token per session in service; revocations final; closed sessions never reopened; no token for a locked account |
| Test solving: `test_solving_service.rs`, `test_result_repository_impl.rs` | `practice_tests`, `test_results` | solve; update and delete a practice test | the 24-hour check is not atomic with the insert; the answer key is replaced or the test deleted between read and insert; key and question count disagree | every letter counted once; graded by the current key; no results of deleted tests; retakes a day apart |
| Accounts and roles: `auth_service.rs` (register), `user_handler.rs`, `role_handler.rs` | `users`, `roles`, `user_roles` | register; update, delete, restore a user; create, update, delete, assign, remove a role | read-then-write of whole rows; partial registration; unique indexes that ignore deleted rows; stale roles in access tokens | live e-mails and usernames unique; every registered user has the default role; deactivation not undone by accident |
| Catalog: `test_management_service.rs` and repositories | `subjects`, `test_books`, `practice_tests`, and their lessons and exam types | create, update, delete, list | existence checked before the write; failures halfway; edits of references without rechecks; cascades | a practice test's subject belongs to its book; no row names what is gone |
| Subjects of a book: `test_book_subject_repository_impl.rs` | `test_book_subjects` | replace the set in a transaction | READ COMMITTED: a DELETE sees only rows committed when it began, and waits for locks | it takes effect at once or not at all, and undisturbed leaves the set asked for |
| Results and statistics: `result_service.rs`, `test_handler.rs` | none of their own | paging, statistics | page arithmetic in `u32`; count and page read separately | pages partition the results |
| Browser session: `auth.service.ts`, `auth.interceptor.ts`, `token-storage.service.ts`, guards, login, register, header | tokens in localStorage, signed-in user in a signal | login, register, logout, reload, refresh and retry on 401 | several 401s at once refresh with one token; logout does not wait; tabs share storage; answers lost | no dead pair stays in storage; the pair a logout revokes is not stored again; requests settle |
| Administration pages: lists, forms, test books | what a page shows, its form, dialogs, modals, spinners and disabled buttons | load, page, filter, delete, assign; create and edit; the modals of books and practice tests | answers late, out of order or failed; modals that outlive their closing; chained loads | what is shown is what was asked; nothing is deleted or saved twice; saving erases nothing; every spinner ends |
| Student pages: dashboard, book, results, solver | filters, books, result modal, submission | select, search, open a result, submit | overlapping loads, redirections | what is shown belongs to what is selected |

The interactions: the browser calls the handlers over HTTP and reacts to 401
by refreshing; handlers call services, services call repositories; sessions
depend on accounts (`is_active`, `deleted_at`, roles), solving depends on the
catalog (answer keys; deletions cascade from books to tests to results). The
pages send their requests through the interceptor. `PROJECT.json` lists every
component with its sources, and under "hazards" each place where the code is
hard to test with the properties that watch it.

## Modules

### RefreshSessions

The table `refresh_tokens`, the two account flags its users depend on, and a
set of requests in flight. A request has a program counter and the locals
that survive from one statement to the next; an action is one statement and
the pure code up to the next one:

| Action | Code |
|---|---|
| `LoginLookup`, `LoginInsert` | `login`: find the user and check; insert the row |
| `RefreshFind`, `RefreshUser`, `RefreshInsert`, `Rotate`, `Reply` | `refresh_token`: find and check the token; find and check the user; insert the successor; revoke the old row naming it; the answer reaches the client |
| `LogoutFind`, `LogoutRevoke` | `logout` with a token |
| `LogoutAll` | `logout` without one: a single UPDATE |
| `SetActive`, `SoftDelete`, `Restore` | the writes of `update_user`, `delete_user` and `restore_user` |
| `Drop` | an error from the database, a disconnect, a lost answer |
| `Tick` | time |

Reading roles and issuing the access token change no modelled state and are
part of the neighbouring actions. A refresh token is an unguessable value, so
a row stands for its token; `held` is the set of tokens clients were given.
`origin` is a history variable: the login row from which a row descends.
Passwords are right or nothing happens. `delete_expired` and
`count_active_for_user` are never called and are left out.

`SessionContract` is what the component promises seen from outside: a login
opens a session of its user, which has one current key; a refresh replaces the
key by one never used before, in a single step; a logout ends the session for
good; failures and lost answers change nothing. `RefreshSessions` implements
it: a session is the login row, and its key is the row in service that descends
from it and is not revoked. A row is *in service* when it began a session or
some row was rotated into it; the successor stored by a refresh that then loses
its rotation never enters service and is no key. The four statements of a
refresh thus appear as one step, its UPDATE, or as none.

### TestSolving

The tables `practice_tests` (question count and answer key) and
`test_results`, and requests as above.

| Action | Code |
|---|---|
| `SolveFind`, `SolveCheck`, `SolveInsert` | `solve_test`: read the test; read the latest result, check the 24 hours and the length, grade and stamp; insert, refused by the foreign key if the test is gone |
| `UpdateRead`, `UpdateWrite` | `update_practice_test`: read the row, merge the fields of the request, write the whole row |
| `DeleteTest` | `delete_practice_test` and, by cascade, the deletion of its book; results go with it |
| `Drop`, `Tick` | failures and time |

Grading (`RightOnes`, `WrongOnes`, `EmptyOnes`) is `evaluate_answers` on
sequences of letters, pairing up to the shorter one, `_` and blank empty,
letters compared in upper case. The latest result being a day old is modelled
as all being a day old. A letter has one to four bytes (`Bytes`): the lengths
are compared in bytes (`ByteLen`), and what is paired is letters. Nothing keeps
keys and answers to letters of one byte: the DTOs ask for one character, the
column is `TEXT`, and the key is typed into a free text area. `by` and `key` in
a result are history variables, the request that stored it and the key that
graded it. The initial tests have as many letters as questions, as the form for
them asks; nothing enforces that either.

### Accounts

The tables `users`, `roles` and `user_roles`, and requests as above. The
partial unique indexes on `LOWER(email)` and `LOWER(username)` and the foreign
keys are the only things that see what happened between two statements.

| Action | Code |
|---|---|
| `RegisterEmail`, `RegisterName`, `RegisterInsert`, `RegisterRole`, `RegisterAssign` | `register`: two checks, the insert, the lookup of the default role, its assignment |
| `UpdateFind`, `UpdateEmail`, `UpdateName`, `UpdateWrite` | `update_user`: read the row, check the new names, write the whole row |
| `DeleteFind`, `DeleteWrite`, `RestoreFind`, `RestoreWrite` | `delete_user`, `restore_user` |
| `RoleCreateFind`, `RoleCreate` | `create_role` |
| `RoleUpdateFind`, `RoleUpdateName`, `RoleUpdate` | `update_role` |
| `RoleDeleteFind`, `RoleDelete` | `delete_role`, whose rows of `user_roles` go with it |
| `AssignFind`, `AssignRole`, `AssignWrite`, `RemoveFind`, `RemoveRole`, `RemoveWrite` | `assign_role_to_user`, `remove_role_from_user` |
| `Drop` | failures and disconnects |

`Lower` is a constant, the SQL function on the spellings of the instance.
`registered` is a history variable: the users whose registration was answered
with success. Passwords and role descriptions are carried along unread. The
administrators who make the requests are not among `Users`, so
deleting oneself, which the code refuses, does not arise. What the same writes
do to login sessions is in `RefreshSessions`.

### Catalog

The tables `subjects`, `test_books`, `test_book_subjects` and
`practice_tests`, and requests that are handlers of `test_management_service`.
Lessons and exam types appear only through their deletion.

| Action | Code |
|---|---|
| `CreateSubject` | `create_subject` |
| `CreateBook`, `UpdateBook` | `create_test_book`, `update_test_book`: their checks and the write of the row, after which only the subjects are left to set |
| `BeginSet`, `DeleteLinks`, `InsertLink`, `CommitSet` | `set_subjects`: the DELETE begins and finds the committed rows, passes the locks, one INSERT per subject, COMMIT |
| `CreateTest`, `InsertTest` | `create_practice_test`: subject among the book's; the insert |
| `UpdateTest`, `CheckTest`, `WriteTest` | `update_practice_test`: read the row, check a subject that was named, write the whole row |
| `Delete`, `DeleteTest` | deletion of a subject, a book, a lesson or an exam type with what cascades; of a test |
| `Fail` | an early return, an error, a dropped request; a transaction rolls back |

The transaction runs at READ COMMITTED with row locks: a DELETE waits for the
transactions that hold one of its rows, passes over those that have gone and
does not see those committed after it began; an INSERT of a row that another
transaction holds waits, and fails on the unique index if it is there. A
deadlock of two transactions is `Fail`. `checked` in a test (its subject was
looked up among the book's and not taken away since) is a history variable.

`CatalogContract` is what the catalog promises, without statements, locks and
failures. Setting the subjects of a book begins and takes effect; between the
two, others may give the book subjects, which are *late* for it. When it takes
effect it replaces every subject but the late ones, and what it sets is late
for the others under way. So one that nobody disturbs leaves exactly the set
asked for, two that overlap leave the union, and nothing of a set is seen
before. `Catalog` implements it: a `set_subjects` begins with its DELETE and
takes effect in its COMMIT, and late are the committed rows its DELETE did not
see; what lies between is a stutter, and so are the lookups of the handlers.

### ClientAuth

The two tokens in localStorage (one value: both are written in one turn of
the event loop), and for each tab whether it is signed in and what it shows;
the requests under way; what the server knows of the tokens. A request
carries its kind, the tokens it was built with and, once served, its answer,
which the browser handles in a later step.

| Action | Code |
|---|---|
| `SubmitForm`, `Fetch`, `Logout`, `Navigate`, `OtherForm` | what a user may do: the forms, a page's request through the interceptor, the header's logout, links through the guards |
| `Reload` | constructor and `initializeAuthState`, both of which ask for the current user |
| `Serve` | the server answers: a refresh token works once, an access token until it expires |
| `BeginRefresh`, `Refreshed`, `RefreshFailed`, `RetryFailed` | the interceptor on a 401: refresh, store and send once more, or `logout` |
| `Rejected`, `MeAnswered`, `LoginAnswered`, `RegisterAnswered`, `FetchAnswered` | what the callers do with an answer |
| `Lose`, `Expire`, `EndSession` | a refresh or its answer lost; an access token expires; the server revokes a session |

`ServeRefresh` is one step: what justifies it is that `RefreshSessions`
implements `SessionContract`, where a refresh is one step too, and the refresh
that lost its rotation there is one that is answered 401 here.

### Page, AdminLists, AdminForms, BookAdmin, StudentPages and Pages

`Page` has what the page components share: the route shown, the requests
under way (`net`; an answer is taken from anywhere in it, as success or as
error), `isLoading`, `isSubmitting`, the error message, and
`DeleteConfirmationComponent` with the page's flag beside the widget's own.
`Mount` is `ngOnInit`, `Unmount` is `takeUntilDestroyed` or, for the two
components without it, leaves the requests behind whose answer navigates
(`orphans`).

| Module | Components | Steps |
|---|---|---|
| `AdminLists` | exam types, lessons, subjects, users, roles, the roles of a user | open, load with the chain of loads each has, filter, search and pager, delete through the dialog, assign and remove a role; the server serves a request in a step of its own, so an answer may be older than what it is shown beside |
| `AdminForms` | exam type, lesson, subject and user form | open to create or edit, dropdowns, load, type, save; `Body` is the body sent, by where each value comes from |
| `BookAdmin` | dashboard of the books, page of a book, four modals | loads, two deletion dialogs, and the modals that create and edit books and practice tests: each lives as long as its page, so closing it aborts nothing |
| `StudentPages` | dashboard, book with the result modal, results, one result, solver | filters and search with the three ways to clear them and what its `computed` makes of them (`FiltersOn`), chains of loads, the modal's two loads, submission, redirections that end some time after they began |

Components that differ only in which request ends the spinner, which clears
the message or which is sent next are records (`SubjectsList`, `UserForm`,
`BookDetail`) read by one set of actions. `Pages` puts the four together: one
page at a time, and `OrphanCame`, the answer to a request of a page that is
gone, which navigates away from whatever is shown by then.

A redirection of a student page is in two steps, `redirected` and `Redirect`,
for the page stays usable in between. After a form's save and after the deletion
of a book the page is left in the step that takes the answer: the flag of the
save, or of the deletion, stays up until then, so nothing is saved or deleted
twice; what else the page could be used for while it is being left is not modelled.

History variables: `old` in a request (a later request of the same kind was
answered first), `tardy` (such an answer came last), and `mixed` in a modal
(its data came when it was closed or open for something else). They mark what
the code does not guard against, and the properties say what holds otherwise.

A definition that no next-state relation reaches (`BodyVerbatim`,
`HideDialogAndFlag`, `CheckSubjectExists` and others) is the one after it with
a plausible mistake; `PROJECT.json` uses it as a mutant.

## Runs

| Run | Question | Instance | Result |
|---|---|---|---|
| `sessions_race` | Do rotation and revocation survive every interleaving? | two users, three token rows, two requests, no clock | holds |
| `sessions_expiry` | Do expiry and account locks bind, up to requests already past their checks? | one user locked and unlocked, three token rows, two requests, clock to 2 with a lifetime of 1 | holds |
| `sessions_delete` | Does deleting a user revoke the user's tokens, as `src/backup/PRD.md:1151` says? | one user | violated |
| `solving_race` | Is grading right and are results consistent while the test is edited and deleted? | two users, two requests, three results | holds |
| `solving_retake` | Are retakes a day apart? | two requests of one user | violated |
| `solving_keys` | Does a key have a letter per question? | one edit | violated |
| `accounts_names` | Do names stay distinct and deactivations hold under concurrent registration, edit, deletion and restoring? | two users, two requests, three spellings of two e-mails, three bodies of an edit | holds |
| `accounts_roles` | Is the default role found, kept and given, whatever happens to roles? | one user, two system roles and two others, four spellings of three names, two requests | holds |
| `catalog` | Do the statements implement the catalog contract, and does a test keep a subject of its book, while requests overlap, fail and cascade? | two subjects, two books, one test, two requests; 85,913 states | holds |
| `client_auth` | Do storage and server agree, and does every request settle, through 401s, refreshes, logouts, reloads and lost answers? | one tab, two requests at once, five token pairs, two mishaps; 102,223 states | holds |
| `pages` | Is what is shown what was asked for, is nothing saved or deleted twice or erased, and does every spinner end? | two items, one per page, two tests, one exam type, two lessons, two results, two requests under way, two uses of a modal per visit; 146,151 states | holds |
| `accounts_roleless` | Does every new user get the default role, as `src/backup/PRD.md:402` says? | one registration | violated |

What the properties say:

- `OneLiveTokenPerSession`: two refreshes with one token never both leave a
  usable token with a client.
  `ClientsHoldNoOrphan`: the successor left over by the one that lost is
  never handed out. `RotationChains`: successors stay in the session of the
  same user and are not shared. `RevocationIsFinal`: the second of two
  revocations changes nothing. `ClosedSessionStaysClosed`: a refresh past its
  checks does not bring back a session that was logged out.
- `ExpiredSessionStaysUnusable` and `LockedOutUserGetsNoToken` exempt the
  requests in flight when the instant passes or the account is locked,
  because the code checks once and does not check again. That is the
  strongest statement the code satisfies.
- `EveryAnswerCounted` says what comparing lengths in bytes is worth when pairs
  of letters are counted: where all letters are single bytes every answer and
  every question is in one count, although the key may have been replaced before
  the insert. With wider letters some are in none: the key "ÇÇ" accepts "ABCD"
  and counts two of its letters. The property bounds how many, by the bytes the
  other string has beyond one per letter. No document promises more, so the run
  reports no finding.
- `LiveUsersAreDistinct` must hold although every check precedes its write and
  neither the edit nor the restoring of a row that was deleted in between
  checks again.
- `DeactivationHolds`: `update_user` writes back the `is_active` it read, so a
  deactivation can be undone by an edit of something else. The property says
  only edits that had read the account before it can do that.
- `DefaultRoleIsUnambiguous`: names are looked up ignoring case while the
  constraint of the table is exact, and two other roles may well end up
  differing only in case. The default role cannot be shadowed that way, since
  the system role is there before any check and is never renamed.
  `RegisteredHaveDefaultRole` and, within `TypeOK`, `RolesHeldExist` relate
  the three tables.
- `BurstIsBounded` is what remains of the 24-hour rule under concurrency: no
  more results within a day than requests in flight at once.
- `ImplementsContract` of `Catalog`: a `set_subjects` that fails leaves the set
  before, one that commits leaves its own together with what others committed
  since its DELETE began, a subject or book deleted meanwhile does not come
  back, and no reader sees a set half made. It says what overlapping requests
  leave behind to the last row, where a weaker property would exempt them.
  `TestsFitTheirBook` exempts a subject taken from the book afterwards and a
  test moved without naming a subject, both of which the code allows; a check
  made statements before the write, a row written back over a concurrent move
  and a cascade do not add to that. `TypeOK` of `Catalog` includes that no row
  names a subject or book that is gone.
- `StoredTokenIsUsable`: of requests that refresh at the same time, one wins
  and the losers clear the storage; no path leaves a spent or revoked pair
  behind. `LogoutNamesNoStoredToken`: no answer that arrives after a logout
  stores the pair again that the logout names, though a refresh under way may
  store its successor. `CallsCanMove`: no combination of stage, kind, answer
  and storage is one that no handler takes. `CallsSettle` and `ReloadSettles`
  are liveness: the interceptor neither waits nor retries for ever, and a tab
  opened with tokens ends signed in or without tokens.
- `ListIsCurrent`, `BooksFitFilter`, `ModalGradesItsResult`,
  `ModalShowsItsTest`, `SubjectsFitSelection`: what is shown belongs to what is
  asked, at rest, without an error message and without an overtaken answer. The
  exemption for overtaken answers is real: the client does not cancel a load
  when it sends the next (no `switchMap`).
- `OneDeletionAtATime`, `SavesAreGuarded`: one request per dialog or form, and
  the flag that disables the button is up exactly while it is under way.
  `NoUpdateErases`: a form saved after its load failed sends nothing that was
  neither loaded nor typed. `SpinnersAreBacked`: a spinner turns, of a page or
  of a modal, only while a request is under way whose answer can stop it or
  sends the next. `SpinnersEnd`, `DialogComesBack`: spinners, the loads of
  modals and dialogs end, whichever request fails.

The four violations are disagreements between the code and what its
documents or pages say; "findings" in `PROJECT.json` quotes both sides.

Bounds. Two requests in flight suffice for every race of two handlers, and
each request is reused, so longer histories are covered too; every hazard
listed for these modules involves two handlers and a clock or an account
change. Three token rows allow a login and the successors of two racing
refreshes, or two refreshes in a row, or sessions of two users. Three results
are one more than `BurstIsBounded` allows two requests, so the property can
fail. A day is two ticks and the clock stops after three, so a retake just too
early, in time, and after a deletion all occur. For accounts, two users
suffice for a clash of names and an edit body each takes a name, changes one
while deactivating, or activates; a second role lets two roles be created,
renamed to each other's name and deleted while given. For the catalog, two
subjects give sets that overlap, contain each other or are empty, and the
second book is the one to move a test to. Three requests on one book (74,575
states) also hold; with two books they are too many. In `ClientAuth` two requests are the
smallest number that can get a 401 together; a request and a logout, or a
reload with its two requests, need no more. Five pairs of tokens suffice for
the server always to find one to issue, which `CallsCanMove` shows (with four it
fails), and the mishaps (reload, expiry, lost answer, ended session) combine in pairs. A run
of two tabs with two mishaps (safety, 1.47 million states) and one of two tabs
with one mishap and liveness also hold; they are too long to keep. For the
pages, two requests under way suffice to overtake one another, two rows with
one on a page make a last page that a deletion empties, two tests and two
results can be mistaken for each other, and a modal used twice in a visit
meets the answer to its first use. One exam type and two lessons make two
selections of a book's form. Users, tokens, results and requests are
interchangeable in Init, Next and the invariants, hence the symmetry sets,
save in the runs with liveness. The theorems need none of these bounds: they
hold for every value of them.

`CHECK_DEADLOCK FALSE` only in the runs of `TestSolving`: when all results are
used or the test is deleted with the clock at its bound, nothing is left to
do. The system itself goes on. Every other run checks deadlock: there is always
an account or an edit to change, a link to follow or an answer to come.

Fairness. The backend's specifications assume none: a request may be dropped at
any point, and nothing in the backend runs by itself. The browser's assume
that what is under way ends. In `ClientAuth`, weak fairness of `Serve(c) \/
Receive(c)` for each request: the server or the network answers or the browser
reports an error, and the event loop runs the callback; a request is never
left waiting by the interceptor, which is one chain of observables. In `Pages`,
weak fairness of `Progress`: the oldest request is served and answered, as
success or as error; the request left behind by a page that is gone is
answered; a redirection ends. The browser and the connection pool end every
request, late or with an error, so this asks for no more than that. Nobody has
to click, to reload, to type or to expire, and nothing says which answer it is.

## Proofs

The eight proof modules prove every safety property of the passing runs but one
(`CallsCanMove`), for every value of the constants: any number of users,
requests, tabs, tests and rows. Assumed are only the named assumptions of the modules: the clock and
lifetimes are naturals, `None` is no user, token, row, record or letter, keys and
answers are non-empty sequences of letters, a letter has an upper case and one to
four bytes, (for the bound on bursts) finitely
many requests are in flight, and no other system role shares the default
role's name ignoring case, the rows of a listing are a finite set of numbers,
a page has at least one row, and a page may have at least one request under
way.

*Sessions.* `OneLiveTokenPerSession` follows from `OneLiveInService` (the rows
of a session in service) and `ClientsHoldNoOrphan`. It is not inductive: it
says nothing of a successor that is stored but not yet rotated in. The
invariant `IInv` adds `RowsOK` (every row descends from a login row of the
same owner, a row not stored is blank), `LocalsOK` (the token a request
presented is in service; the successor it stored is in the same session and
not in service; whatever revokes the successor has revoked the token
presented), and that no two requests hold the same successor. From it follow
the invariants, the action properties, and the refinement: every step is a
step of `SessionContract` or leaves the mapped state unchanged. The mapping
takes as key of a session the one row `OneLiveInService` leaves (`KeyOf`).
The key case is `Rotate` (`RotateRefreshes`): the UPDATE matches only an
unrevoked row, so either the old row stops being the key as the new one, which
was not in service before, becomes it, or nothing happens. `ClosedStaysClosed`
is then proved from the contract alone.

*Solving.* `EveryAnswerCounted` needs that the three sets of questions partition
the positions up to the shorter string (`GradingPartitions`), that a string has
a byte for each letter and its extra bytes (`BytesSplit`, by a bijection between
letters and first bytes), so that strings of as many bytes differ in letters by
no more than the extra bytes (`PairingLoss`), and that a row waiting to be
inserted already adds up. `BurstIsBounded` needs `SpacedPerRequest`: the
results one request stores for a user and a test are a day apart, because
between its check and its insert only other requests store. The results within
a day then map one-to-one into the requests, and the pigeonhole lemma of the
library does the rest. `GradedByCurrentKey` is proved step by step from the
types.

*Accounts.* `IInv` adds to the invariants what the requests have made sure of:
the name a pending write gives a role is not the default one, no pending write
renames, deletes or takes away the default role, the role a registration is
about to assign is the default one, and the row a request writes exists. The
cases reduce to five kinds of step (read, write of a user row the indexes
allow, refusal, change of a role, change of a holding), one lemma each.
`DeactivationHolds` is proved from the types: any step that is not an edit of
the user leaves both the row's flag and the edits in flight alone.

*Catalog.* `IInv` adds to the two invariants `Sound`: what each request holds
fits the tables. A `set_subjects` deletes rows that are committed and inserts
none that is (`FitsSetting`); what it inserts names rows that exist
(`HoldsGround`); a row about to be written, if checked, has a subject of its
book (`FitsRow`). It adds `LocksExclusive`: no two transactions hold the same
row. Commits and cascades change what others hold, so those lemmas are about
every request, and each other action comes down to one request going on.

The refinement has one lemma per step of the contract. The key case is the
COMMIT (`CommitSetCommits`): it must leave the late rows and the new ones, and
move what is late for every other transaction on the book by exactly its own
rows. Both rest on the second half of `FitsSetting`, that a transaction inserts no
row another has committed; that this survives the commits of others is what
`LocksExclusive` is for, and the only reason it is in the invariant.

*ClientAuth.* `IInv` adds `Shapes` (what a request at each stage carries) and
`Fresh` (a pair just issued works, is held by one answer, and is neither
stored nor carried by any request). Every action is one of four kinds
of step, with one lemma each: plain (storage and live tokens stay), storing
(an answer's pair enters the storage), signed out (the storage empties), and
issue (the server spends one pair and makes another). The key case is
`Refreshed`, where the fresh pair replaces one that a logout may name.

`RequestsSettle` and `ReloadsSettle` prove the liveness properties from the weak
fairness of the specification. `Ahead` counts the steps a request has before it
at most eight; a step that serves it or handles its answer brings it nearer
(`ServedIsNearer`), no other but a reload takes it farther (`NeverFarther`), and
eight applications of `Descent` end it. Two hypotheses are left to TLC. Weak
fairness says something only while such a step is possible: `CallsCanMove`,
which contains ENABLED, is an invariant of the run and out of the provers'
reach. `ReloadsEnd`, that reloads stop, follows from the bound on mishaps, by an
induction over its value that the provers cannot make.

*Pages.* `PagesProofs` proves what is shown. A request is live while no later
one of its kind has been answered; `RowsInv` says that a list warns, or waits
for the answer to a change after which it loads again, or has a live request
for the query of its controls whose answer is still true, or has no live
request and shows the server's rows or an overtaken answer. `GradeInv` and
`FilterInv` say the same of the result modal and the dashboard; `FormsInv`
keeps `NoUpdateErases` request by request. `PagesSavesProofs` counts: a guard
is raised if and only if exactly one request it guards is under way
(`SavesInv`), preserved since a button sends only with its guard down and an
answer removes one request; then the edit modal (`EditInv`) and the selections
of a book's form (`SubjectsInv`, which needs that the dashboard never loads a
book). `PagesTypesProofs` proves types, and that only the answer to a book's
save, which reloads book and tests, exceeds the bound on requests, and by one
(`SizeInv`).

`NoSpinnerIsStuck` is the part of `SpinnersEnd` that does not speak of the
future: while a spinner turns, a request is under way whose answer, success or
error, stops it or sends the next of its chain. Its invariant `SpinInv` says so
of lists, forms, the page of a book, the modals and the student pages, and that
what belongs to a page that is not shown is at rest (`Still`). A request that
stays keeps its spinner backed (`StillAwaited`), and the cases left are the
answers: each lowers the flag or sends a request that the flag waits for
(`Taking`, `Sending`). That the request is then answered is fairness, and remains with TLC:
a request advances through the queue, whose length is a constant, and the
argument is an induction over it.

Only model-checked: `CallsCanMove` (ENABLED), `SpinnersEnd` and `DialogComesBack`
(liveness by induction over a queue), the four violations, and what the mutants
show.

## What the models leave out or exempt

These are things the code does which the properties exempt or which have no
property; nothing in the repository says otherwise, so they are not findings.

- Two overlapping `set_subjects` of a book leave the union of their sets, or
  one fails on the unique index; the contract of the catalog allows the union. `update_test_book` writes the row before it
  looks up the subjects; `create_test_book` may leave a book without subjects;
  `update_practice_test` moves a test to a book without checking that its
  subject is there; `list_subjects_by_test_book_id` answers 404 if a subject is
  deleted between its two reads.
- The client's `isAdmin` knows `admin`, the server also `super_admin`. The first
  of the two requests for the current user may fail at once when a tab is
  loaded, the interceptor asking for an `AuthService` under construction; that
  failure then clears the session. The model has both outcomes.
- `logout` does not wait for a refresh under way: the answer that comes after it
  stores the successor pair again, and a tab that is loaded later is signed in.
  The server revokes the pair the logout named, which by then is spent.
- The search of the users page is never sent. A filter keeps the page number,
  so that a page past the end shows no users and no pager.
- The exam types, lessons and roles pages never clear an error message.
- `clearAllFilters` of the dashboard empties the lessons and does not load them
  again; `hasActiveFilters` is a `computed` over two fields that are not signals
  and one that is: computed once with a filter selected, it never reads the
  search again and the button to clear the filters stays (`filtersStuck`).
- `submitTest` shows its button again before the navigation to the result has
  ended, so a test can be submitted twice; the administration's lesson dropdowns
  can be used without an exam type, whatever their `[disabled]` says.
- A late load fills the edit modal of another test; the result modal may show
  one result beside the key of another until its own key comes; the edit modal
  of a book sends nulls among `subject_ids` after a reset; the answer to a save
  closes a modal that was opened again meanwhile.
- The user form and the page of a book do not abort their requests when they are
  left: the answer then navigates the user away from wherever they are.
  The user form's active box is sent as it stands after a load that failed.

## Not modelled

- Results, paging and statistics: they only read. The page arithmetic in `u32`
  (`page = 0` underflows) reaches no state.
- The answer-key counter and the forms around it: one pure function of a number.
- JWT and Argon2: tokens are unguessable values and passwords right or wrong.
- Lessons and exam types in the backend beyond their deletion: a name is
  checked and then kept unique by an index, as role names are in `Accounts`.
- Routing, DTOs, OpenAPI, settings, the pool, the migrations as scripts, layout
  and shared widgets: declarative, or without state of their own.
- `test-selector`, `test-books-list`, `test-book-form`, `practice-tests-list`,
  `practice-test-form` and `tests.routes.ts`: no route and no template reaches
  them.
- A retry after a lost answer: the client has none. The user who submits a test
  again is refused for a day (`BurstIsBounded` covers the double submission).
