# A formal model of LawSuite

TLA+ modules, TLC configurations and TLAPS proofs about this repository: a
practice-management system for law firms. FastAPI handlers over SQLAlchemy's
async session and PostgreSQL (`backend/app`), Celery workers and a beat schedule
(`backend/app/workers`), and a Next.js client (`frontend`).

What makes this code hard is the same everywhere. A handler is an `async`
function with a session of its own: it loads rows with plain SELECTs, decides on
what it loaded, awaits, and flushes the changed columns at commit. PostgreSQL
runs at READ COMMITTED, there are no version columns, and only a few places take
`FOR UPDATE`. Nothing a handler has checked is known to hold when it commits.
The tests run one request at a time.

The client has the mirror image of this: a handler of a click awaits an answer and
then writes what it knew before, while other clicks, refreshes and a renewal of
the tokens are in flight. It has no tests for these.

## Inventory

| part | state | operations | what makes it correct | model |
| --- | --- | --- | --- | --- |
| **invoice ledger** `invoice_service`, `invoice_payment_service` | `invoices` (status, number, net, paid), `payments` | create, edit, issue, void, delete, serve, record payment; overdue sweep | no payment counted twice or lost; status says what the payments say; numbers unique and without gaps; an issued invoice is final | `InvoiceLedger` |
| **invoice drafting** `invoice_service`, `disbursement_service`, `fee_arrangement_service` | line items, totals, `disbursements.invoiced`, fee arrangements | idempotent create, line CRUD, disbursement CRUD | stored totals are those of the lines; a disbursement is billed once | `InvoiceDrafting`, without fee arrangements |
| **matters, clients, plan limits** `matter_service`, `client_service`, `billing_service`, and their forms | clients, matters, references, idempotency keys | create, status, delete; delete-or-archive; the form that is sent again | one row per form; a matter has a client; references unique; the limit holds | `ClientIntake` |
| **tasks and the board** `task_service`, `kanban-page.tsx` | tasks, completion times, keys; the cards of the board | create, update, delete; drag, menu, dialogs, reload, archiving | the board agrees with the server once it is answered; one task per opened dialog | `TaskBoard`, without comments, watchers, links |
| **membership and sessions** `auth_service`, `deps`, `api-client.ts`, `auth-store.ts` | members, tokens; stored tokens and session store of a tab | login, switch, refresh, logout, remove, invite; retry after 401 | a call acts once; the tab shows what its tokens are for; who is removed is shut out | `ClientSession`, without registration, Google, roles |
| **team and invitations** `auth_service`, `billing_service`, `accept-invite-page.tsx` | users, memberships, invitation tokens; the page that opens a link | invite, resend, invite-check, accept, remove | seats are limited; a person is a member once; a link leads where it says; members can get in, others cannot | `Team`, without roles and registration |
| **subscription** `billing_service`, `api/webhooks`, `billing-page.tsx` | plan, trial, Paystack codes, `billing_transactions` | checkout, verify, webhooks, cancel | a plan was paid for; events out of order do not undo a newer plan; a cancellation is real | `Subscription` |
| **desktop sync** `sync_service` | all tables, `updated_at` | pull since, push | nothing newer is overwritten; totals follow lines | pushed lines, in `InvoiceDrafting` |
| **worker** `workers/` | Celery queues | sweep, mails, folders, channel renewal | redelivery after a crash does no harm | the sweep, in `InvoiceLedger` |
| **tax engine** `tax_engine` | none | `compute_invoice_totals`, `wht_applies` | agrees with VAT and WHT at every boundary | - |
| **MFA** `mfa_service` | secrets, backup codes | enrol, verify, disable | a backup code is used once | - |
| **notes, documents** | rows, versions | CRUD, versions, comments | version numbers are distinct; a comment is not lost | - |
| **Google: Drive, Docs, Calendar, tokens** | tokens, folder and event ids | connect, refresh, revoke, push, watch | one external object per row; a revoked token stays revoked | - |
| **notifications** `notification_service`, `api/notifications` | `notifications`, position of a stream | fan out, mark read, stream | a connected client gets each notification once | - |
| **tenant scoping** `core/database`, `core/deps` | settings of a pooled connection | get_db, get_scoped_db | a request sees the rows of its organisation throughout | - |
| activity and audit logs, reports, e-mail, storage, admin, search, other pages | append-only rows, reads, external I/O | | | - |

Interactions: the services share tables and nothing else. Drafting, the ledger
and sync write `invoices`; limits read what matters and membership write; issuing
and creating a matter lock the organisation row, and the billing handlers write
it; the sweep and the requests meet on `invoices.status`. The client meets the
server through `api-client.ts`, which renews tokens under every page; its pages
share `auth-store.ts` and the pair of tokens in `localStorage`. `PROJECT.json`
lists every part with its status, and under `hazards` each place where these meet
badly.

## Plan

Done: the ledger with its abstract specification; drafting; intake of clients and
matters with its forms; the task board; the session of a tab; the subscription;
the team and its invitations. All seven have a module of proofs.

Left, in this order:

1. The single active fee arrangement of a matter, as one more resource of
   `InvoiceDrafting`; role changes in `Team` (the last administrator).
2. The backup codes of MFA, document versions and comments: three read-modify-writes
   of one column, best as one module with the columns as parameters.
3. `GoogleCredentials` and `CalendarSync`, with Google as an external actor.
4. `NotificationStream`: the cursor of the stream against deletions and equal
   timestamps.
5. Theorems for what these add. Of what is modelled now, only liveness is without one
   (see Proofs).

Every module takes its sets as CONSTANTS with a named ASSUME, has one action for
each step of a handler, and no RECURSIVE operator.

## Modules

| module | what it is |
| --- | --- |
| `AtomicLedger` | what the invoice endpoints promise: each request is one atomic step on the committed state |
| `InvoiceLedger` | the handlers as they are: load, decide, commit, with everything between |
| `InvoiceLedgerRefinement` | the mapping of the second onto the first |
| `MCInvoiceLedger` | small instances for TLC; `MCCovers` says how many unit payments reach a net amount |
| `InvoiceLedgerProofs` | its theorems about every interleaving, about invoices that are not raced, and the refinement |
| `InvoiceDrafting` | the lines of a draft, the totals computed from them, disbursements, idempotent create, pushed lines |
| `MCInvoiceDrafting` | small instances for TLC, with their symmetry |
| `InvoiceDraftingProofs` | its theorems about every interleaving |
| `InvoiceDraftingAloneProofs` | its theorems about what is not raced and not contended |
| `ClientIntake`, `MCClientIntake`, `ClientIntakeProofs` | client and matter forms, their keys, the matter limit, deletions; its instance; its theorems |
| `TaskBoard`, `MCTaskBoard`, `TaskBoardProofs` | the kanban board against the task handlers and another member; instance; theorems |
| `ClientSession`, `MCClientSession`, `ClientSessionProofs` | one browser tab, its calls and tokens, against membership; instance; theorems |
| `Subscription`, `MCSubscription`, `SubscriptionProofs` | Paystack, its events and their handlers; instance; theorems |
| `Team`, `MCTeam`, `TeamProofs` | invitations, their links and pages, removal, the seat limit; instance; theorems |

### InvoiceLedger and the code

* A **worker** is a request in flight; `req[w]` is the point its handler is at
  and what its session has loaded. `Load` is `_get_invoice`; the `...Load`
  actions are the handler up to its last check, the `...Commit` actions its
  flush and commit. A flush writes the columns that differ from the loaded ones,
  by primary key, so `PayCommit` writes `status` only when it differs from the
  status that was *loaded*, and a void or a sweep writes over whatever is there.
  A row that is gone makes the flush fail (`Rollback`), except that deleting it
  again is harmless. A dying process or a disconnected client is `Abort`,
  possible at every point.
* `issue_invoice` has four steps, because it waits for the organisation row
  between its check and its count: `IssueLoad`, `IssueLock`, `IssueCount`,
  `IssueCommit`. The unique constraint on the number is `NumberTaken`.
* `record_payment` judges the status, then looks the reference up. The lookup
  and the unique constraint both leave the ledger unchanged, which is
  `PayUnchanged`. A refusal is kept (`PayRefuse`, `Refused`), since its client
  may be repeating a payment that was recorded.
* A **sweeper** is one execution of `mark_overdue_invoices`: it loads all rows
  past due and commits them in one transaction; `due[s]` is what it loaded.
* Money is not added up. `credited[i][r]` counts how often the amount of payment
  `r` is in `amount_paid_kobo`; so a payment that is lost, or counted twice, shows
  as such. `Covers(n, c)` is the comparison with `net_payable_kobo` and is a
  parameter, so the proofs hold for every way amounts compare.
* `raced` is a history variable: the invoices that a session loaded while
  another one held them. The handlers read it nowhere.
* `BillsOfCharges` are the invoices whose flag is set when they are served; the edits
  that change the flag are left out, since only `mark_served` reads it.
* Left out: `written_off`, which no handler writes; activity and audit rows, which no
  handler reads; the columns edits change beyond lines, net amount and due date;
  and the writes of the desktop push, which `InvoiceDrafting` has.

### InvoiceDrafting and the code

* `InvoiceLedger` says what happens to an invoice; here it is only "draft", "out",
  "void", and what counts are its lines. A request is cut finer: the flushes of
  `create_invoice`, `_build_line_item` and `delete_line_item` are steps of their
  own, because a flushed row is locked until the commit, and other sessions wait
  for it or do not see it.
* The totals stored on an invoice are what they were computed from: a set of
  lines with amounts, and the tax setting or override. Two totals are the same
  number if these are the same; `tax_engine` is a function of them.
* `req[w].seen` is the collection `invoice.line_items` of the session. An edit
  computes from it as loaded, an addition and a removal after a refresh, and a
  refresh finds the new rows but keeps the loaded amounts of the old ones
  (`Refreshed`). `req[w].was` are the totals as loaded: a flush writes them only
  if they differ (`WriteTotals`).
* `autoflush=False` (`core/database.py:27`) is why a pushed new line is not in
  the collection that is read back (`PushLoad`, "pushnew"). The tests' sessions
  flush by themselves (`tests/conftest.py`), so no test can see it.
* A disbursement that two drafts read while it is unbilled is billed twice; the
  second flush waits for the first one's lock and then writes over it.
* `source`, `spent`, `raced`, `contended` and `pushed` are history: from which
  disbursement a line was made, which keys were drawn, which rows two sessions held
  at once, which invoices had a new line pushed.
* Simplified: a create has one line or none; an override sets one value; a draft
  that lost an idempotency race is answered by an error (`Rollback`), as the code
  does, since the flush that fails is outside the `try`; columns of one totals
  write are written together, which matters for raced invoices only.

### ClientIntake and the code

* A **form** is one of the two create pages. Mounting it draws the key
  (`idempotencyKeyRef`), which it keeps until it is left or answered; `waits` is
  `submittingRef`, which keeps a second click from being sent. A connection may
  break before the request arrived or while the handler runs; the form may then
  send the same key again next to it (`LoseConnection`).
* `create_client` is a lookup of the key and a commit that a taken key turns into
  the existing row. `create_matter` looks the key up, waits for the
  organisation row, counts under it (limit, reference), inserts, and commits; the
  insert fails on a taken key or a missing client, outside the `try`.
* `delete_or_archive_client` counts the matters and then deletes or archives. The
  deletion waits for an uncommitted matter of the client, and takes the matters that were
  committed since the count with it (`ON DELETE CASCADE`). The list page reads the
  client again and drops it only if it finds it archived.
* "open" stands for open, pending, in_review and closed, which lead to each other
  and count alike. `change_status` and `delete_matter` judge what they loaded; the
  first takes no lock and checks no limit, and `reopened` are the matters it brought
  back.
* `maxMatters` is the plan's limit now (`PlanChanges`), `limit` the one a creation read under
  the lock. `Abort` ends a handler at any step without a commit, and frees the lock.
* `clientBy`, `matterBy` (the mounted form a row was made from) and `reopened` are
  history.

### TaskBoard and the code

* `board` is what the cards show. A drag writes it before it asks and puts the
  remembered column back when the update fails; the menu, the dialogs and a
  deletion write it with the answer.
* A request is a session of the server: `create_task` looks the key up, flushes
  (a key another session has flushed is waited for) and commits; `update_task` loads
  the row and writes what then differs, so two of them may both decide on a status
  that is gone. When the connection breaks the page takes it as a failure, and a handler
  that has the request goes on for nobody.
* `loadBoard` reads the list, archives what has been done for a year, and shows the
  list with these archived whether or not the update succeeded or its connection held
  (`LoadRead`, `LoadArchive`, `DeliverSweep`, `LoseSweep`). It may take its snapshot before, between or after
  the requests it overlaps with.
* A key is drawn with each opening of the dialog; a failure leaves the dialog open
  with it, so the retry finds what the first attempt made.
* "todo" stands for `todo` and `in_progress`, which nothing here tells apart.
  Another member updates and deletes with sessions of the same kind.
* History: `madeIn` (the opening a task was made in), `confirmed` (openings reported as
  done), `raced` (tasks two sessions held at once), `unsettled` (cards whose
  requests met each other or a refresh, whose answer was lost, which another member
  changed, or whose archiving failed; a refresh that met no request clears it).

### ClientSession and the code

* `stored` is the pair in `localStorage`, `store` is `useAuthStore`. They differ
  between the halves of an operation: `login` and `switchOrg` store the new
  tokens, then fetch the profile with them.
* `req[r]` is one call of `apiFetch`: sent with the token it read, answered, refused
  with 401, waiting for the renewal (`refreshPromise`, at most one), sent again once
  (`retried`), given up. `acts` counts how often the server did what it asks.
* The server believes a token until it expires, whatever became of the membership
  (`get_current_user`); login, switch, refresh and `/auth/me` look it up. Who is
  removed from the last organisation is deactivated, and active again after
  accepting an invitation.
* `mixed` (history) is set when session operations overlap, when tokens are replaced or
  cleared under a renewal, and when a switch is cut off between its halves.

### Subscription and the code

* Paystack is external: `sub[s]` is a checkout and the subscription made from it; a
  payment disables the one it replaces, a failing renewal ends one. `due` are the
  events it still has to send, delivered in any order, each perhaps twice.
* A handler is a session: it loads the organisation, verify and cancel ask
  Paystack, and the commit writes the attributes that differ from the loaded ones
  (`dirty`). `handle_charge_success` first commits the row of the reference and
  leaves everything else when that row is there already; `handle_subscription_disable` leaves
  the organisation alone when its code is another's.
* The webhook has answered 200 before its handler runs, so `Crash` loses the event.
* History: `took` (subscriptions that gave the organisation their plan), `over` (whose
  end was handled), `cancelled` (reported so by the page), `disturbed` (an event was
  lost, handled out of date, or by handlers that were to write different
  things at once).

### Team and the code

* A person is one row of `users` for all organisations: `account` is its `is_active`
  ("none" before the first invitation), `invite` its `invite_token`. A membership is
  named by the link it was made with, whose numbers grow as `joined_at` does: both are
  written by one commit, while the row of the user is locked.
* `links` are the tokens that were made, each mailed once, and where it `led`, which the
  database does not store. A new token overwrites the old one, so only the
  last link of a person is good.
* A request loads (`LoadInvite`, `LoadResend`, `LoadAccept`, `LoadRemove`) and commits.
  `invite` locks the organisation's row from the count of its seats to the commit; the
  others lock nothing. A commit writes what differs from the loaded row: an
  acceptance writes `is_active` only if it was loaded inactive, a removal only if it was
  loaded active. Two invitations that both insert the user meet the unique e-mail.
* `accept_invite` looks for the newest membership after its flush. From there on an
  invitation of the same person waits for the row of the user, so flush, lookup and
  commit are one step (`CommitAccept`).
* `page[u]` is what `accept-invite-page.tsx` got from `/auth/invite-check` when it was
  opened: the link, the membership it showed, and whether it asks for a password.
* `maxSeats` is what `get_effective_plan` gives an organisation now and changes at any time
  (`PlanChanges`: a plan, a flag, the end of a trial); `seats` is what a request read with
  the lock. It counts the founder, who invites; the unlimited plan is a number that no
  instance reaches. `Abort` is the rollback of `get_db`, which frees the lock. `disturbed` is history: people on whom a removal met another request,
  or an acceptance an invitation.

### The two kinds of property

Overlap on one row really breaks this code (see the findings), so some
properties are claimed of all behaviours and some only as long as the row
concerned is not in `raced`.

* Whatever happens: `NoDoubleCredit`, `IssuedIsNumbered`, `NumbersAreUnique`,
  `ReceiptOnRecord`, `ServedHasLeftDraft`, all part of `LedgerInv`; and
  `SweepCatchesUp`.
* For invoices that no two sessions held at once, however many requests on *other*
  invoices are interleaved, aborted or rolled back: `NoPaymentLost`,
  `StatusFollowsPayments`, `IssuedIsFinal`; when no invoice is raced,
  `NumbersHaveNoGap`, `CountedNumberIsFree`, and the refinement
  `ImplementsAtomicLedger`, whose abstract specification stops promising anything
  when `contended` becomes true.
* In `InvoiceDrafting`: `OneInvoicePerKey`, `BilledIsMarked`, `LinkIsItsLine`
  whatever happens; `TotalsAreDerived`, `IssuedIsFrozen` for invoices, and
  `BilledOnce`, `InvoicedIsFrozen` for disbursements, that no two sessions held.
* All of `ClientIntake` whatever happens, except that `ReferencesAreUnique` ends with
  the first deleted matter and `LimitHolds` does not count reopened ones.
  `LimitHolds`, like `SeatsAreLimited`, is about the step that adds: the limit is the one
  the plan gave when the organisation was locked, for a plan that shrinks takes away
  nothing that exists.
* In `TaskBoard`, `OneTaskPerOpening` and `ConfirmedIsMade` whatever happens,
  `CompletedMatchesStatus` for tasks that are not raced, `SettledBoardAgrees` for
  cards that are not unsettled and have no request in flight.
* In `ClientSession`, `NoRequestActsTwice` and `RemovedIsShutOut` whatever happens,
  the other two unless operations mixed.
* In `Subscription`, `PaidPlanWasPaid` and `CancelledIsDisabled` whatever happens;
  when all events are handled, `PlanFollowsPaystack` unless disturbed and
  `EveryPaymentTakesEffect` after at most one fault.
* In `Team`, `SeatsAreLimited` and `MemberOnce` whatever happens;
  `EntryFitsMembership` (`ActiveBelongs` and `MemberCanEnter`), `InviteLeadsHome` and `ShownIsJoined` for people who are not
  disturbed, however many organisations invite them, remind them and wait.

## Runs

| run | instance | shows |
| --- | --- | --- |
| `ledger_race` | one invoice (a bill of charges), two payments, net amounts of one and two payments, two requests, one sweep; 60 thousand states | everything two requests and a sweep can do to one invoice, type and safety invariants, finality, progress of the sweep, refinement |
| `ledger_two` | two invoices, one reference, two requests, one sweep, two years, symmetric; 470 thousand states | numbering across invoices and years, one reference sent for two invoices |
| `drafting_totals` | one invoice that a desktop has too, two lines, two amounts, two tax settings and an override, two requests, symmetric; 1.4 million states | the stored totals are those of the lines after every interleaving of additions, edits, removals, toggles, pushes, aborts; an issued invoice changes by pushes only |
| `drafting_billing` | two invoices, two lines, one disbursement, one idempotency key, two requests, symmetric; 820 thousand states | types, double creation, double billing, dangling links |
| `client_intake` | two clients, two matters, one form, two requests, limits of one and two, three keys, symmetric; 1.8 million states | double submission, deletion against creation, the limit and the references, while handlers abort and the plan changes |
| `task_board` | two tasks, two sessions, three requests, two openings, symmetric; 675 thousand states | drags, dialogs and refreshes in flight at once, lost answers, another member |
| `client_session` | two organisations, two calls, two tokens; 1.9 million states | one renewal for several calls, switches and logouts around it, removal and its effect under fairness |
| `subscription_events` | two plans, two subscriptions, two handlers, one fault, symmetric, each checkout of another plan; 2.4 million states | events duplicated, reordered, lost; a plan replaced by another; cancellation |
| `team_race` | two people, two organisations with no or one seat left, two requests, three links, symmetric; 780 thousand states | the seat limit while plans change and requests abort, double membership, where links lead, who can get in |
| `finding_void`, `finding_number`, `finding_push` | the smallest instance each | the three findings |

`LedgerInv`, `DraftingInv`, `IntakeInv`, `BoardInv`, `SessionInv`, `SubscriptionInv` and `TeamInv`
are the inductive invariants of the proofs, with the types as their first part. They
contain properties that are not listed again by themselves: `IssuedIsNumbered`,
`NumbersAreUnique`, `ReceiptOnRecord` (`LedgerInv`), `BilledIsMarked`, `LinkIsItsLine`
(`DraftingInv`), `MemberOnce` (`TeamInv`).

Bounds. Every conflict in these handlers is between two holders of one row, or
of one counter: two requests and a sweep are all the roles there are at once, and
a third request repeats one of the two. Two payments are needed to see one
overwrite the other, and to tell part-paid from paid (`Nets = {1, 2}`). Two
invoices are needed for the numbers and one reference for two invoices; two years
for the count that restarts. `MaxYear` is the only bound in a guard. In
`InvoiceDrafting` a key is drawn once (`spent`), so two lines are two additions,
enough for one to be removed or edited under the other; two amounts tell an edit
from none; settings, amounts, lines and requests are interchangeable, so each set is
a symmetry set. Pushes are in the first instance and not in the second, which
would be five times as large for them. Deadlock is not checked: an instance whose
invoices are all deleted, or whose keys are used up, has nothing left to do.

`client_intake`: two matters are the fewest that race for the last place, under a limit of
one; the limit of two lets both in. The constraint `PlanIsAskedFor` keeps the larger plan to
the time in which a matter is being made, which is when it is read (without it 3.2
million states, and all properties hold too). With three keys the form can be mounted
again after each of two rows it made. `task_board`: three requests are two that
meet and one that follows; two openings let the key of the first reach the
second. `client_session`: two calls are needed to share a renewal, two
organisations to switch. One of the calls may carry session operations; with both
(7.8 million states) the safety invariants hold too. `subscription_events`: the
second subscription replaces the first; one fault (a second delivery or a crash) is
what `EveryPaymentTakesEffect` allows; the constraint `CheckoutsDiffer` leaves out two
checkouts of one plan, and `FaultsComeLast`, after the fault, the overlaps of a page's
handler with a second one or with another subscription's events (with them it is 4.8 million
states, and all properties hold too).
`team_race`: two organisations are needed for a link to lead elsewhere, two people
for the last seat, three links for two invitations and a reminder between them. The constraint
`PlanShrinksUnderInvitation` leaves out smaller plans while nobody is being invited, where they
only refuse (with them 1.8 million states, and all properties hold too).
`Plans` are the plans' own limits, which include the founder's seat in `Team`;
`MaxKeys`, `MaxRequests`, `MaxDialogs`, `MaxSubs`, `MaxFaults` and `MaxLinks` are bounds of the
instances. The proofs hold for every value of them, and without the constraints.

Fairness (`SweepFairness`). Celery beat starts the sweep every day whatever
happened the day before: weak fairness of `SweepLoad`. An execution may die or be
rolled back, but not every one of them: strong fairness of `SweepCommit`. Nothing
is assumed of requests; clients may stop at any point. `SweepCatchesUp` would be
false if one payment after the other, or one deleted row after the other, could
keep an invoice from being swept: references and rows are used up, in the model
as in the code.

In `ClientSession` it is weak fairness of `Expire`, for a token carries its own end,
and of nothing else: no call need ever be answered. `RemovedIsShutOut` says that
time alone shuts a removed user out, because no renewal, login or switch makes
another token for them. The other new modules state safety only and assume no
fairness.

## Findings

1. **A void invoice with a payment** (`VoidHasNoPayments`). `void_invoice` checks
   `amount_paid_kobo` on its own copy and commits later; a payment that commits in
   between stays on record on a void invoice.
2. **Issued twice** (`NumberIsFresh`). Two issues of one invoice both pass the
   draft check and queue for the lock. The second writes a second number over the
   first. One number is a gap, the count is now one short of the largest number,
   and from then on each issue of that year counts a number in use and fails on
   the unique constraint.
3. **The push that is not counted** (`PushKeepsTotals`). A desktop pushes a new
   line; `apply_rows` adds it to the session and `_recompute_touched_invoices` reads
   the lines back without a flush. The line is committed with totals that lack it.

### Other observations

Met while reading, some of them excluded by the history variables above; each is
what the code does, not a claim that it was meant otherwise.

* The payment that settles an invoice makes it `paid`; its replay is refused, because the
  status is judged before the reference is looked up, while
  `invoice_payment_service.py` 4-6 says that a retry records nothing and is answered alike.
* A invites somebody, B invites the same person, A sends its invitation again:
  `accept_invite` takes the newest membership for the one the token is for, so the link
  that A sent shows B and leads into B (`api/auth.py` 538 has it otherwise).
* A removal that loads an account before its owner accepts finds it inactive and has
  nothing to write when it commits after the acceptance: the account is active and
  belongs nowhere (`api/auth.py` 502 has it otherwise).
* `client-list-page.tsx` 162-177 handles a 404 on an `ApiClientError`, but
  `api-client.ts` throws `NotFoundError`, which is not one.
* After `delete_matter` the count is behind, and the next reference repeats one in
  use. `delete_matter` judges "archived" on its own copy. Reopening archived matters is
  not limited.
* `task_service` and `matter_service` flush outside the `try` that handles a lost
  idempotency race, as drafting does: the racing retry is answered 500.
  `create_task` finds deleted tasks by their key.
* Two sessions that update one task can leave `completed_at` at odds with its status.
* The board shows an auto-archived task as archived although the update failed;
  overlapping drags of a card, or a refresh under a drag, can leave a column the
  server does not have until the next refresh.
* A renewal in flight while `switchOrg` or `logout` replaces the tokens writes tokens of
  the old session back. A `switchOrg` that fails after its first half leaves the store on the old
  organisation with tokens of the new one. A network failure during a renewal logs
  the user out.
* The retry after a renewal always parses JSON (`api-client.ts` 262): a repeated
  DELETE that is answered 204 is reported as a failure.
* An acceptance that overlaps an invitation of the same person clears the token of that
  invitation, and leads into its organisation if that committed first. Two
  acceptances of one link may both set the password. A removal leaves the token: the
  link then answers 400, or leads into another organisation that invited earlier.
* A handler that loaded the organisation before another committed may put a
  plan back; a `subscription.create` delivered again after the end revives the code;
  verifying an old reference after a cancellation restores the plan. A second
  administrator who pays is another customer of Paystack, whose events find no
  organisation.

## Proofs

`InvoiceLedgerProofs` proves, for every set of invoices (finite), references,
requests and sweeps, every `Covers` and every `MaxYear` (`LedgerAssumption`):

* `TypeCorrect`: `Spec => []TypeOK`.
* `LedgerIsSafe`: `Spec => []LedgerInv`, and from it `NeverOverCredited`,
  `NumberedAndUnique` and `PaidHasReceipt`.

None of the table invariants is inductive by itself, because a commit writes what
was loaded long before. `LedgerInv` adds `Pending`: what a session in flight still
knows of its row, however stale its copy. A payment in flight holds a balance
that counts recorded payments only, each once, and its invoice has a number
(`PendingPay`), for numbers and recorded payments never go away except with the
row; a served invoice stays out of draft (`PendingServe`) because no handler
writes `draft`; a row in a sweep is numbered (`PendingSweep`); a counted number is
a real one (`PendingIssue`). Rows that have been deleted are exempt (`Kept`), as
no commit can reach them. The argument: `CommitSafe` for a step that writes one
row, with `BalancesStay` for what it leaves alone; `PaySafe` for the one step that
adds to a balance; `LoadSafe` for a session that begins, which knows what its guard
checked; `SweepSafe`; `RollbackSafe` for every way to end without a write.
`LedgerInv` is also an invariant of `ledger_race`.

Its second part proves, under the same assumption, what the two runs check of
invoices that no two sessions have held at once: `NoPaymentIsLost`,
`StatusIsOfPayments`, `NumbersAreGapless`, `CountedIsFree`, `IssuedStaysFinal`, and
`LedgerIsAtomic`, the refinement: `Spec => Atomic!Spec`. The invariant (`AloneIsSafe`)
is `LedgerInv` with three parts:

* `AloneInv`: an invoice that is not raced has one holder at a time (`OneHolder`); what
  the holder has checked is still so, and a payment's copy is the row
  (`HoldersKnow`); and the row agrees with the payments (`RowAgrees`). Without the
  middle part nothing is inductive, since a commit decides on what it loaded. `LoadAlone`
  is about the steps that load, `WriteAlone` about commits, which end the only
  holder, and `StepAlone` about all that do neither.
* `LockHeld`: who has counted holds the organisation row. Other invoices are issued
  at the same time, so one holder per invoice is not enough for the numbers.
* `NumbersInv`: numbers of a year are 1 to their count, and a counted number is the next
  one until it is written, by `LockHeld` and `FS_AddElement`.

For the refinement, a step either leaves an invoice raced, and the abstract ledger is
contended from then on; or none is raced, the balance of each invoice is its
payments on record (`BalanceIsPaid`: at most once by `NoDoubleCredit`, at least once by
`RowAgrees`), and the commit is the atomic request (`EditIsAtomic` to `SweepIsAtomic`,
one lemma for each).

`InvoiceDraftingProofs` proves, for every instance of `InvoiceDrafting`
(`DraftingAssumption`: the "none" values are not members of their sets, and
settings and overrides are told apart), `DraftingIsSafe`: `Spec => []DraftingInv`,
and from it `KeysAreUnique`, `BilledIsAlwaysMarked` and `LinksAreTheirLines`.
`DraftingInv` adds to these and the types what a session knows before its commit:
the key of a line it has drawn has no row (`LinesAreDrawn`), or a pointer to a new
line could be one to an old line; an invoice it creates is held by nobody else
(`NewIsOwn`); a key it has flushed is neither committed nor flushed elsewhere
(`KeyIsOwn`), which is the unique index, and why the wait in `CreateFlush` is needed;
and a line without a row has no amount and no source (`NoRowNoData`). The
argument: `SessionSafe` for all steps that write no table, `LoadSafe` for those
that load an invoice, `CommitSafe` for what a commit leaves the others, with
`AppearSafe`, `KeysKept` and `KeysFreed` for the keys, and `RemoveLinesSafe` for
what a deletion takes away.

`ClientIntakeProofs` (`IntakeAssumption`: the sets of clients and matters are finite):
`IntakeIsSafe`, `ClientsOutliveMatters`, `FormsMakeOneRow`, `ReferencesNeverClash`,
`LimitIsNeverPassed`, an action property about the commit that adds a matter, for any plans
that change at any time. What is missing for induction is why a count taken
before a commit is still good at the commit: the session holds the
organisation row (`LockIsHeld`), so no other session that adds a matter is past its
check, and the room it found under the limit it read is still there (`RoomIsKept`,
`ReferencesAreCounts`, with `FS_AddElement` for the matter that is added); and the client an inserted
matter refers to stays (`RequestsPoint`). `SessionSafe` and `PagesSafe` are the steps
that write no table, `CreateMatterCommitSafe` the one that uses all of it.

`TaskBoardProofs` (`BoardAssumption`: the "none" values are not members of their sets,
the bounds are numbers): `BoardIsSafe`, and from it `CardsAgreeWithRows`; inductive
together with its first part `CompletionIsKept`, `OpeningsMakeOneTask`,
`ConfirmedTasksExist`. The invariant has two layers.

* `RowsInv` is about the server: what a request carries (`RequestsFit`: a creation carries
  the key of the opening it was sent in), rows and keys (`KeysFit`), rows that are flushed
  and not committed (`FlushesApart`), and a session that alone writes a task, which still
  knows its status (`WritersKnow`). One lemma `...Safe` for each action.
* `BoardInv` adds the page. That a card is where its row is once nothing is in
  flight says nothing of the steps before, so `SettledFor` says for every task that is
  *followed* (not unsettled, or to be settled by the refresh in flight) what is true while its
  request is under way: it is the only one; what it has loaded, or was answered, is so
  (`ServerFits`); the card shows the server's column, or, for a drag, the new one with the
  server's remembered (`CardFits`); and the snapshot of a refresh is the server's.
  The rest is what this needs: whatever the page, a refresh or a request names has a
  row, unless a creation is about to make it (`KnownFits`); who may wait for which kind of
  request (`PurposesFit`); one update at most is swept, and a quiet refresh met none
  (`RefreshFits`). One lemma `...Fits` for each action, over two that all share:
  `RequestStep` for what a step about one task leaves to the others, `TaskStep` for the task
  itself; `SendFits`, `AdvanceFits`, `RefusalFits` and `LoadEnds` serve several actions.

That a swept update ends as "archived" holds for a followed task only (`ServerFits`), not
always: one that finds the task archived writes nothing, and is answered with what
another member has written since. Two sessions are too few to show this; TLC did with three
sessions, three targets and a task that is there at first.

`ClientSessionProofs`: `SessionIsSafe`, `CallsActOnce`, `TabShowsItsTokens`,
`TabForgetsTokens`. The last one says that a tab which shows no session has neither tokens
nor a renewal in flight, as long as nothing overlapped: a logout under a renewal sets
`mixed`, and there the code does write the old tokens back. A call that was refused has not
acted, and one that has acted never waits. For the tab, `Unmixed`: while `mixed` is false at most one call is a
session operation, nobody replaces the tokens under a renewal (`RenewsStored`), the
profile in flight is that of the stored tokens (`ProfileKnows`), and store and
tokens differ only between the halves of an operation (`OutHasNoTokens`,
`ShownIsStored`). `MoveSafe`, `EndSafe`, `RenewalSafe` and `ServerSafe` are the four
kinds of step.

`SubscriptionProofs`: `SubscriptionIsSafe`, `PaidPlansArePaid`, `CancellationsAreReal`,
and from these `PlansFollowPaystack` and `PaymentsTakeEffect`.
They go together: a cancellation asks Paystack to disable the code it loaded, and that
this code is of a paid subscription is the other property; every event on
its way was caused by Paystack (`EventsHaveHappened`), so what a handler writes was
paid for, however late it writes it. The two properties about a quiet system
(`AllHandled`) need what is true before it is quiet:

* `EffectsAwait`: a payment without effect still has its charge and its
  `subscription.create` queued or being handled, and each fault takes away one of the two.
  A charge counts only until its reference is recorded, or while the handler that recorded it
  runs (`ChargesHandledOnce`): that is where a crash loses it for good.
* `LatestPrevails`, while nothing was disturbed: the last subscription has given the
  organisation its plan once its creation was handled, and taken it away once its end was;
  until then no handler of an older end may clear it. `WritersAgree` and `WritersKnow` are why
  a commit keeps it: handlers that write at once write the same, and an attribute that a
  handler leaves out has the value already. `TimesFit` orders the subscriptions,
  `EndsHaveHappened` ties the events of an end to it.

The argument goes by kinds of step instead of actions (`StepKinds`: Paystack and the pages,
a handler that starts, moves on, loads, stops or writes), one lemma for each kind and part:
`OutsideEffects` to `WritesEffects`, `OutsideCalm` to `WritesCalm`.

`InvoiceDraftingAloneProofs` (`DraftingAssumption`): `DraftsAloneAreSafe`,
`TotalsStayDerived`, `NoDoubleBilling`, `IssuedStaysFrozen`, `InvoicedStaysFrozen`. Its
invariant is `DraftingInv` with

* `AloneInv`: an invoice that is not raced has one holder at a time, whose copy of the
  lines and of the totals is the stored one, plus or minus the line it is about to
  write (`CopyIsGood`), whose guards still hold (`StillSo`); and the stored totals are
  those of the lines (`RowAgrees`);
* `LinesStay`: the line that a session edits or removes is on the invoice it loaded or
  gone for ever, so a commit writes no other invoice's lines (`OthersSame`);
* `BillInv`: an uncontended disbursement has one holder, who knows that it is unbilled.

Again `QuietAlone` is about steps that write no row, `WriteAlone` about commits.

`TeamProofs` (`TeamAssumption`: the "none" values are none of the members, `Plans` are
numbers): `TeamIsSafe`, and inductive together with it
`NobodyIsTwiceMember`, `MembersAloneEnter`; from these the action properties
`SeatsAreNeverPassed`, `InvitationsLeadHome` and `ShownIsAlwaysJoined`. `SeatsKept` is why a count taken before the
commit is still good at the commit, though the plan may be another: one invitation of an organisation is past the lock, and
removals only make room (`SeatsShrink`, `SeatsGrow`, with `FS_AddElement`). `LinksFit` says that
the token of a person is the newest link made for them, so a page whose token is
still good was opened on the newest membership (`PagesFit`), and an acceptance that is not
disturbed knows no membership newer than its link or its page (`AloneKnow`): the newest one
it finds is the one that was shown (`JoinsNewest`). `StartSafe` is about requests that begin,
`FinishSafe` about what a commit leaves to the others, `Apart` about why nobody else
is about the same person.

Every invariant and action property of the runs that pass, and the refinement, is thus
proved. Model-checked only are `SweepCatchesUp` and `RemovedIsShutOut`: liveness under fairness is out
of the reach of the prover.

## Not modelled

`PROJECT.json` gives the reason for each part. In the parts that are modelled:

* `ClientSession`: the second factor, Google sign-in by tokens in the URL, registration
  and accepting an invitation in the same tab, and other tabs, which share the
  stored tokens but not the store. `/auth/me` and `/auth/organisation` are one call.
* `Subscription`: recurring charges, the cache of the client's subscription hook, trial
  dates, feature flags, notifications, more than one Paystack customer.
* `TaskBoard`: the detail sheet (comments, watchers, links), filters, several matters.
* `Team`: roles, the profile, registration and the founder's own removal, and seven days
  as time: a link that expired is refused, which is a link that nobody uses.
* `ClientIntake`: edit forms, invoices as records of a client, the other fields.

* `NotificationStream` is only planned: the poll remembers the id of the last row it sent
  and reads the newest rows, so it may skip rows when that row is deleted, when two rows have
  the same time, or when more than a page is new. It promises nothing else; a client
  reloads its list.
* Tenant settings are made in the request's transaction, so a rollback inside a handler (a
  lost idempotency race) undoes them for the rest of it. The policies that read them live
  in PostgreSQL; every query also filters by organisation.

Most of the client is pages that load, show and save one record, layout, charts,
mock data and a component library: no state of theirs decides anything that an
interleaving could break, and a model of them would restate their markup. So
the modules cover a small share of the client's lines, and most of what they cover is in
the services.
