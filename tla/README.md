# SentinelVault in TLA+

SentinelVault is a zero-knowledge password manager: clients encrypt every vault item, the
servers keep ciphertext with versions. This directory models the parts of the code whose
correctness depends on order: handlers that await the database between a check and the write
it was made for, devices that sync while their user goes on editing, calls that end half-way,
restarts of services that keep their records in memory, waiting periods, lockouts, one-time
values and revocations. TLC checks the models on small instances; TLAPS proves theorems about every
module for every instance: each safety property the passing runs check is a theorem, some of them
under hypotheses that are listed below.

`PROJECT.json` is the index: components, runs, the mutated definitions that show each property
can fail, the source lines of every definition, findings, hazards and theorems.

## The system

| component | state | operations | speaks to |
|---|---|---|---|
| sync-api, push and pull (`backend/sync-api/src/sync/sync.service.ts`) | table `encrypted_vault_items` | `pull`, `push` | called by every client |
| sync-api, vault envelopes (same file) | tables `user_vaults`, `vault_keys` | list (with migration), create, update, delete, `saveVaultKey`, `getVaultKey` | deletes rows of `encrypted_vault_items`, the table of `push` |
| client sync (`core/lib/src/sync/sync.dart`, `vault_database_io.dart`) | table `vault_items` on each device | `sync`, local insert, update, soft delete | pull and push |
| emergency access (`backend/sharing-service/src/emergency`) | `emergency_contacts`, `access_requests` | designate, revoke, request, deny, ask for status | clock |
| key directory (`.../key-directory`) | `key_bundles`, `wrapped_key_versions`, `wrapped_key_recipients` | publish, fetch, revoke | pull reads its recipients |
| shared vaults (`.../shared-vault`) | a map in memory | create, details, add and remove members, rotate keys | admins' clients make the keys |
| share links (`.../share-link`) | a map in memory | create, open, revoke | clock |
| share invitations (`.../share-invite`) | a map in memory | create, accept, decline, read the payload | |
| password login (`backend/auth-service/src/auth/auth.service.ts`) | `users`, `sessions`, redis challenges and denylist, mfaTokens in memory | SRP login in two steps, TOTP, lockout, listing and revocation of sessions | the `JwtAuthGuard` of each service verifies its tokens; only the auth-service's reads the denylist |
| registration, WebAuthn and passkeys (same file) | `users`, `webauthn_credentials`, challenge maps in memory | register, both ceremonies of WebAuthn, passkey registration and login | mfaTokens come from the password login |
| single sign-on (`.../auth/sso.service.ts`) | configurations and states in memory | configure, begin, callback | external provider |
| personal access tokens (`.../auth/pat.service.ts`) | a map in memory | create, validate, revoke | audit log |
| breach monitor (`backend/security-analysis-service/src/breach-monitor`) | `breach_opt_ins`, `breach_entries` | opt in, opt out, check now, daily job | Have I Been Pwned (HIBP) |
| audit log | one table | append | |
| URL, file and AI analysis | none | scoring | external APIs |
| vault lock, duress and decoy vaults, biometrics (client) | keys in memory, flags, secure storage | unlock, lock, logout | gates sync |
| client and native cryptography | none | ciphers, key derivation, Shamir, PQC | |
| user interface, CLI, browser extension | screens | edit, share, rotate, fill | local database, services |

What is hard here, by component (each item is a hazard in `PROJECT.json` with its line):

* **push**: two loops of awaits without a transaction. Correct if no write takes a version
  back, an acknowledged row is stored, and a refusal is justified.
* **client sync**: local writes between any two awaits, chunks of which some are refused, lost
  answers, retries, screens that save what was deleted meanwhile. Correct if everybody converges,
  versions never go down by syncing, only tombstones vanish, and no edit is replaced by an older
  one. (The last two are not so, see findings.)
* **vault envelopes**: read-modify-write of several rows. Correct if there is one default, one
  vault stays, items go with their vault, and the stored key is the served key.
* **emergency access**: a waiting period that ripens only when somebody asks. Correct if no key
  comes early, and denial and revocation are final.
* **key directory**: a version that is a number in one place and text in another; several
  copies per user. Correct if versions grow, copies are not replaced, revoked users find
  nothing and the newest publish is served.
* **shared vaults**: the server is atomic, but what it stores was made by a client from details
  it read earlier. Correct if, whatever stale views admins act on, the owner is never locked
  out, members have keys that were current, no version has two keys, and who was removed
  learns no later key.
* **links, invitations, challenges, sign-on states**: values that may be redeemed once, with
  views, expiry, revocation, replacement and restarts in any order. Correct if each implements
  a one-time ticket.
* **password login**: whole records written back after awaits, redis and the table written one
  after the other, expiries. Correct if lockout holds, one proof gives one session, a second
  factor is not passed by, and revoked means revoked.
* **registration and ceremonies**: one challenge per user for two kinds of ceremony, a save that
  looks the row up again, lists of credentials that were read before an await. Correct if a
  session needs the user's credential, what was acknowledged stays, and a response in time is
  turned down for a reason only.
* **access tokens**: the record changes before the audit event is stored, which may fail.
  Correct if a token is of no use after its revocation was answered or it has expired.
* **breach monitor**: an external request between reading the opt-in and storing breaches,
  overlapping checks, a job that goes on after failures. Correct if nothing is stored for who
  has opted out, a breach is new once, and what is known is found in the end.

## Modules

| module | models | correspondence |
|---|---|---|
| `SyncServer` | `SyncService.push` | `store` is the item table. `req[r]` is the state of one handler: the batch, what is left of the current loop (`todo`), the conflicts found. One turn of the first loop is `CheckItem`, of the second `SaveItem`; `FinishCheck` is the `return conflicts`; `FailPush` a rejected call or the end of the process, in either loop; `Answer` the response. |
| `VaultItems` | | the ids of items, which `SyncServer` and `UserVaults` share |
| `VersionedStore` | what the docs promise of that table | abstract: a row may be created or replaced by one that is not behind it |
| `VaultSync` | `VaultSyncManager.sync` on several devices, over `SyncServer` | `call[c]` is one sync call between two awaits: pulled rows, rows still to push, conflicts collected. The whole synchronous part between two awaits is one action: `Merge` is the merge *and* the choice of what to push; `PushAnswered` the tombstone removal, and for the last chunk the resolution of all conflicts. Push requests are handlers of `SyncServer`. `screen[d]` is an open editor, sharing screen or rotation dialog: the item is read when it is opened, and `UpdateItem` writes over whatever the row has become by then, as `updateItem` does; nothing happens if the row is gone. |
| `UserVaults` | vault envelopes | every endpoint starts with its first query and goes on one repository call at a time. Of the items it has the column `vaultId` (`vaultOf`). `stored` is the key a client was last told is stored. |
| `SyncApi` | the process of the sync-api | `SyncServer` and `UserVaults` in any interleaving, on one table: `PushRow` saves a row into a vault, `DeleteRows` takes the rows of a vault out of the table |
| `EmergencyAccess` | `EmergencyService` | one repository call at a time; `now` counts hours |
| `KeyDirectory` | `KeyDirectoryService`, one folder | one repository call at a time; wrapped bytes are the number of the publish they come from; `Before` is the text order of the varchar column |
| `SharedVault` | `SharedVaultService`, one vault, and its admins' clients | each request runs without an await and is one step. `view[a]` is what a client read last; `AddMember` and `RotateKeys` wrap the key and choose the members from there. A key is the pair of its version and its maker. |
| `ShareLink` | `ShareLinkService` | each request is one step; `hour` is the clock; `ForgetLinks` a restart |
| `ShareInvite` | `ShareInviteService` | each request is one step; `ForgetInvites` a restart |
| `SharingService` | the process of the sharing-service beside emergency access | `KeyDirectory`, `SharedVault`, `ShareLink`, `ShareInvite` |
| `AuthLogin` | SRP login, lockout, TOTP, sessions of one account | one await at a time; redis commands are single steps; whether a proof or a code is right is an input. `Accepted` is the guard of the auth-service, `Verified` that of the other three. |
| `Account` | registration, WebAuthn and passkeys | one await at a time. `webauthn[n]` is the one challenge a user has, `passkeys` those of passkey logins; `ceremony[h]` is what a challenge was given out for. A signature is the challenge it is over (`response`), compared with the one the server took off (`expected`), whatever ceremony it was given out for. `UsersWith` is the save by primary key that moves a credential. Public keys are not told apart. The options handlers are one step each: what they read before their awaits is not used after them. |
| `AccessTokens` | `PatService`, `SsoService` | a PAT request is the change of the record up to the await on the audit log, then `AnswerRequest` or `AuditFault`; `SsoService` runs without an await. The map is that of one process, and `validateTokenAndScope` has no caller in the services yet, so what is checked is what a caller could rely on. |
| `Enrollment` | the auth-service beside the password login | `Account` and `AccessTokens` |
| `OneTimeTicket` | what everything that is redeemed once promises | abstract: a ticket is fresh, open, taken while it is judged, then used or void for good, and used at most once |
| `BreachMonitor` | `BreachStore`, `BreachMonitorService`, `BreachMonitorScheduler` and the endpoints | `check[k]` is one check between its two awaits, HIBP and the insert; `Daily` is the check of the daily job, which walks through `todo` |
| `MC...` | instances for TLC | constants, symmetry |
| `..._proofs` | | theorems about the module they are named for and, in sections of their own, about its parts: `VaultSync_proofs` about `SyncServer`, `SyncApi_proofs` about `UserVaults`, `SharingService_proofs` about `SharedVault`, `ShareLink` and `ShareInvite`, `Enrollment_proofs` about `Account` and `AccessTokens` |

`VaultSync` extends `SyncServer`: a sync call and the push handler that serves it have the same
index, the client's `PushChunk` is the handler's `ReceivePush`, its `PushAnswered` the handler's
`Answer`.

`SyncApi`, `SharingService` and `Enrollment` put the parts of one process together. Those of the
sync-api meet in the rows of `encrypted_vault_items`, so `SyncApi` interleaves them at every
await: a push that looks up a row, saves one, or puts one into another vault may run between any
two steps of a deletion.

The parts of the other two have no state in common: each keeps its own tables or maps, and none
reads what another has written. Any interleaving of their steps is then a pair of behaviours of
the parts, so in a behaviour one part, `active`, takes steps and the others keep their initial
state. This is a choice of the model, not a result about the code. A
state invariant or a step property of one part is the same with and without the others moving.
One meeting point with another component is modelled on the side that reads: an mfaToken of the
password login is `RequireMfa` of `Account`.

Conventions:

* A handler is a record with a program counter. An action runs from one await to the next and
  includes everything the code does there. What a query returned is kept in the record and may
  be stale when it is used.
* `save()` of TypeORM writes an entity as a whole, inserts it when its row has gone, and leaves
  a column alone whose property is `undefined`. The last point decides `revokeContact`
  (`EmergencyAccess!RevokeSave`) and `UserRepository.save` (`AuthLogin!SaveUser`). The latter
  looks its user up again before it writes (`Account!SaveLookup`), so that a registration that
  was overtaken updates the row of the other one; a list of credentials that lacks one is
  refused by the database (`Account!Saved`).
* A batch of rows is a function from item ids, with `NoItem` where an id does not occur. A
  client sends each id once, since it reads them from a table with that key.
* Variables called history (`stored`, `last`, `excluded`, `revoked`, `failures`, `overlapped`,
  `interleaved`, `known`, `leftAt`, `views`, `accepts`, `confirmed`, `earned`, `uses`, `found`
  and so on) are no state of the program; they record what a property compares with. None is
  read by a guard, except those that keep an id from being given out twice.
* An operator `XxxMutant` is a wrong version of the definition below it. No specification uses
  it; it shows which error the property named for it in `PROJECT.json` would notice.

## Runs

| run | shows |
|---|---|
| `sync_server` | pushes one at a time, any starting table, any batch, failures half-way: implements `VersionedStore`; acknowledged means stored; a 409 is justified |
| `sync_api` | vault calls one at a time, two of which end half-way: one default, one vault left, items go with the vault, the stored key is served; with a push interleaved on the item table, rows go forward, and only with their vault |
| `sync_server_race` (violated) | with two overlapping pushes the older version may end on top |
| `vault_sync` | convergence, no roll-back by sync, and a live row is only lost when it was saved over a tombstone under way, for two devices with overlapping pushes |
| `vault_sync_purge` (violated) | one device removes a row the user has just saved, see findings |
| `vault_sync_edits` (violated) | one device loses an edit, see findings |
| `user_vaults_race` (violated) | two deletes at a time leave no vault |
| `emergency_revoked` (violated) | a request granted earlier still gets the key of a revoked contact |
| `sharing` | directory: versions grow, copies stay, revoked stay out, the last publish is served, made-up bundles replace nothing. Shared vaults and invitations: `KeysGuarded`. Links and invitations implement one-time tickets. Emergency access: no key before the waiting period, a resolved request stays resolved, one active contact and one pending request, a revocation sticks |
| `key_directory_order` (violated) | from version 10 on the directory serves version 9 |
| `auth_service` | sessions need the user's credential, accounts and credentials stay, also while a second account is made and a credential is registered a second time, refusals have a reason; challenges and sign-on states implement one-time tickets; a revoked or expired access token is of no use. Password login: lockout, one session per proof, TOTP gate, revocation for good in the auth-service |
| `breach_monitor` | nothing stored without an opt-in, a breach is new once, and what HIBP knows is found in the end |

### Bounds

* `sync_server`: two items (a batch of several rows, of which one may conflict), two handlers
  (one answer still under way while the next push runs), four rows: behind, equal with equal
  and with other content, ahead, live and deleted. Neither loop looks at two rows at once, so
  further items add nothing. Every table is a starting state.
* `sync_api`: vault calls one at a time with three vaults, two keys and two calls that end
  half-way; once there is a push, two vaults, one key and one such call (`Bounds` in `MCSyncApi`).
  Two items; the table starts empty, so every row in it was pushed. One call of each kind is what
  it takes for a push and a vault call to meet; further calls of one kind overlapping each other
  are the two runs with `race`.
* `vault_sync`: two devices with one call each, two items in chunks of one, three local writes,
  one fault, one screen open at a time (`MaxScreens`). Three writes are what it takes for two devices to disagree and for one to write
  again during the resolution. Pushes overlap here. `MaxVersion` 3 is no
  bound on the model but part of what `ClientTypeOK` says: three writes and the conflicts they cause
  never raise a version above 3. `vault_sync_edits` and `vault_sync_purge`
  need one device, one call and one item.
* `sharing`: directory: two users, versions asked for below, at and above the latest, or none; four
  publishes, two failures, one call at a time; the numbers stay below 10, where text and number
  order agree (`key_directory_order` goes to 10). Vault: three users, so that two admins with
  stale views can act on a third member, and one rotation (versions 1 and 2), which two admins
  can attempt at a time; more rotations are left to the theorem. Links: two, an expiry of one to two
  hours, a wish of minus one to three, so
  that the default and both clamps occur, and a clock of three. Invitations: two, to one or two
  folders and recipients. Emergency access: two contact rows of one user (revoked and designated
  again), two requests, two calls that may overlap at any await, a waiting period of one hour and
  one that is over when it begins (nothing keeps a client from zero or less), a clock that can
  pass the first. Once calls have overlapped there is one contact or one request
  (`EmergencyBounds`): what an overlap can disturb is one of each. Wrapped keys are left out
  (`Key` is empty), since the properties ask for whom and when a status call answers with the row,
  not for what is in it. The `overlapped` clause of a property marks what the code only guarantees
  for calls one after the other. `emergency_revoked` needs one call, a key and two periods.
* `auth_service`: two users with a credential each, which either may present or register; two
  challenges (so that one can replace the other), one mfaToken, two overlapping calls, one
  restart or one tick of the clock, which outlasts a challenge. In behaviours where one of the
  users has yet to register, one challenge and no tick, which is enough to register a credential
  again. Sign-ons with two domains and two states. Tokens: one token, two scopes, two requests at
  a time, days before, at and after its expiry. Login: two challenges, two sessions, two
  overlapping calls, a limit of two attempts of which one was made before. Time is coarse but
  keeps the order of the periods in the code: a challenge lives shorter than a lockout and a
  token. Where calls have overlapped the clock stops one short of its end (`LoginBounds`), before
  a token expires; that a denylist entry outlives its token there as well is left to the theorem.
* `breach_monitor`: two addresses, so that the failure of one can stand in the way of the other,
  two breaches, one check by hand beside the daily one, one restart, after which the
  addresses stored before can be decrypted or not; users opt in and out as
  often as they like. No symmetry, because liveness is checked.

Ids are never given out twice; when they are used up the actions that need one are disabled.
That bounds the number of rows and no property depends on what happens beyond. In `sharing` and
`auth_service`, where in some parts every action needs an id or a later hour, and in `sync_api`,
where a push or a vault call may meet its bound, the run switches the check for deadlock off for
that reason.

The instances of `sharing` and `auth_service` put a further specification beside the one they are
named for (`EmergencyAccess`, `AuthLogin`): a behaviour is one of the one or one of the other, and
the variables of the other keep their initial values. Nothing is claimed of the two together;
they have no state in common that either depends on.

### Fairness

Two runs check liveness.

`vault_sync` assumes weak fairness of each sync call, from its
start to its end, and of the steps of the push handler; nothing of the user, the network or the
database. A handler is scheduled by the event loop and its queries return or throw, which
justifies the second. The first says that the app goes on being opened: `sync()` is called on
every unlock (`unlock_screen.dart`) and after local writes, not by a timer, so a device that is
never opened again does not converge, and the property claims nothing about one. Faults and
local writes are bounded, hence "once the user stops writing and the faults end".

`breach_monitor` assumes weak fairness of the daily job and of the check it is doing: the cron
decorator starts it every day, its loop catches the error of each address, and a request or a
query ends one way or the other. It assumes strong fairness, for each address, of an answer of
HIBP and of a successful insert: when the job asks again and again, it is answered at times.
That holds while the service has a valid HIBP key; without one every answer is empty for ever,
and the code says so in its log. Nothing is assumed of users or of checks by hand.

## Findings

1. **Overlapping pushes take a version back** (`sync_server_race`). The save loop does not look
   at versions again. `docs/ARCHITECTURE.md:122` promises a version check per item. The clients
   heal the visible state (`vault_sync` converges with overlapping pushes), but a write that
   was acknowledged can be gone from the server in between, and for good if the device that
   wrote it does not return.
2. **An edit can lose against the version it edits** (`vault_sync_edits`). `VaultItem.encrypt`
   gives each row version 1; a shared item has a higher one. The next sync takes the higher
   version, which is the older content.
3. **Sync removes a row the user has just saved** (`vault_sync_purge`). An editor opened before a
   delete saves over the tombstone while its push is awaited; `hardDeleteItem` then removes the
   row, which nobody else has. The comment above says what is cleaned up are soft-deleted items.
4. **Two deletes leave no vault** (`user_vaults_race`), against the message of the check.
5. **Revoking a contact leaves the wrapped key in its row** (`emergency_revoked`), and a granted
   request goes on receiving it. The test that expects the key to be gone runs on a mock that
   stores `undefined`.
6. **Version 10 sorts below version 9** (`key_directory_order`), so the newest folder key is
   neither listed nor fetched by default. The comment on `getCurrentKeyVersion` calls the
   order safe.
Seen while modelling, without a run:

* `README.md:135` says the auth-service "enforces instant Redis-backed token revocation
  (`revoked:jti:<id>`)". Only its own guard reads that key; the guards of sync-api,
  sharing-service and security-analysis-service look at signature and expiry (`Verified`), so the
  token of a revoked session works on there until it expires. `RevokedForGood` is therefore about
  the auth-service alone, and nothing is claimed of the others.
* `share-invite.dto.ts:36` says of the wrapped folder key "Only stored after the recipient accepts
  AND confirms the fingerprint". `createInvite` stores it at once; what waits for the
  confirmation is handing it out, which is what `InviteGate` checks.
* `README.md:392` says removing a member "automatically enforces" a rotation. `removeMember`
  only answers `requiresKeyRotation`, and no client calls `rotate-keys`. `SharedVault` makes
  rotation a step of its own that an admin may or may not take.
* A credential that is registered a second time, with its id and for another user, moves to that
  user (`user.repository.ts:152-164` saves by primary key). No doc says anything about it;
  `AcknowledgedStays` allows it and says that a credential goes away in no other way.
* A second factor may be proved over a challenge that was given out for a registration of the
  same user: there is one challenge per user for both, and `verifyWebAuthnLogin` takes it.
  `SessionsAreEarned` says what is left: the challenge was for this user, and the credential is one
  that was registered for the user.
* `push` takes any vault id, also of a vault that is gone; `deleteUserVault` does not look again.
* Properties with an `overlapped` or `interleaved` clause claim less for overlapping calls:
  there, two registrations of a name can replace a verifier, a stale record can switch
  WebAuthn off, an mfaToken can give two sessions, a request can be granted while it is denied.

## Proofs

Eight modules hold proofs. Each theorem is about the specification TLC checks and for all values
of its constants that satisfy the named assumptions.

| module | theorems | assumptions on constants |
|---|---|---|
| `VaultSync_proofs`, the handler | types; durability; justified refusal; refinement of `VersionedStore` | `RecordAssumption`: versions and contents are numbers, `NoItem` is not a row |
| `VaultSync_proofs`, the devices | `ClientTypeOK`, `SyncNeverRollsBack`, `OnlyLateEditsAreLost`; `Spec => ServerSpec` | the same, `DeviceAssumption`, `BoundsAssumption`: numbers |
| `SyncApi_proofs` | `VaultsTypeOK`, `AtMostOneDefault`, `StoredKeyIsServed`, `LastVaultStays`, `ItemsGoWithVault`; of the whole: `RowsGoForward` | `CallsAssumption`: a bound; `NullAssumption`: null values |
| `AuthLogin_proofs` | types; `RevokedForGood`, `OneSessionPerProof`, `LockoutHolds`, `TotpGate` | `PeriodAssumption`: limits and periods are positive; `NullAssumption`: null values |
| `EmergencyAccess_proofs` | types; `KeyOnlyAfterWaiting`, `ResolvedOnce`, `RevocationSticks`, `OnePerContact` | `HoursAssumption`: waiting periods are integers, one is the shortest and one the longest; `RowAssumption`: the null values are not rows or ids |
| `KeyDirectory_proofs` | types; `RevokedStayOut`, `BundleKeepsItsOrigin`, `PriorPublishesStand`, `LastPublishIsServed` | `AskedAssumption`, `NoRowAssumption`: null values; `BoundsAssumption`: no publish leaves the two digits of `Version` |
| `SharingService_proofs` | of shared vaults: types, `SharedKeysSound`; of links and invitations: types, `InviteGate`, both refine `OneTimeTicket`; of the whole: `SharingTypeOK`, `KeysGuarded`, `TicketsServeOnce`, and the theorems on the key directory | `VaultAssumption`: null values, at least one version; `LinkAssumption`: the default expiry is at most the longest, null value; `InviteAssumption`: null value; those of `KeyDirectory` |
| `BreachMonitor_proofs` | types; `NewOnceWhileMonitored` | `CheckAssumption`: the daily job is not a check by hand, null value |
| `Enrollment_proofs` | of `Account`: types, challenges refine `OneTimeTicket`, `RefusedForAReason`, `SessionsAreEarned`, `AcknowledgedStays`; of `AccessTokens`: types, `RevokedPatsStayOut`, sign-ons refine `OneTimeTicket`; of the whole: types, `ChallengesServeOnce` | `NoneAssumption`, `RowAssumption`: null values; `LifeAssumption`: a life time and a bound of the clock; `TokenAssumption`: null values, tokens and states are different things |

Beside these assumptions, which a configuration meets or TLC refuses it, some theorems have
hypotheses of their own. They are part of what the theorem says:

| hypothesis | theorems | without it |
|---|---|---|
| `~Overlapping` (`SyncServer`) | durability, refusal, refinement of the push handler | refuted by `sync_server_race` |
| `~Overlapping` and `~CallsOverlap` | `RowsGoForward` | two pushes at a time: `sync_server_race`; two vault calls at a time: the row of a vault that was removed is saved again by an update that had found it |
| `~CallsOverlap` | those on `UserVaults` except types | TLC refutes each of them; `user_vaults_race` is the run for `LastVaultStays` |
| `~Overlapping` (`KeyDirectory`) | those on `KeyDirectory` except types | TLC refutes each of them: a publish under way serves a recipient who was revoked meanwhile, two publishes take the same version |
| `OneDigit`: no version goes above 9 | `PriorPublishesStand`, `LastPublishIsServed` | TLC refutes each of them; `key_directory_order` is the run for `LastPublishIsServed` |
| `AnyRecord`: a row may hold any content and any version | those on the devices | not a limit: a `Record` with a largest version only bounds what TLC enumerates |
| `OneCallPerDevice` | `OnlyLateEditsAreLost` | the purge of one call hits a row that another call of the device has pulled again |

Sets of users, items, requests, links and so on may be infinite. Bounds on clocks, versions and
restarts are arbitrary numbers.

**Push.** `TypeInvariance` holds always, overlapping or not. `Durability`, `JustifiedRefusal` and
`Refinement` assume `~Overlapping`. The assumption is stated in each theorem and cannot be dropped:
`sync_server_race` refutes the refinement without it. The code does not enforce it. It describes a
server whose pushes do not run at the same time; what the theorems say is that the two loops,
their order, their early return and their failures are right, and that concurrency is the only
thing missing. None of the three is inductive. A row that `FinishSave` acknowledges was written
several steps before, and it is "not behind" because nobody else wrote since; a row that
`SaveItem` writes was compared in the other loop. `Inv` therefore says, of the handler that is
running, what holds at each point of its loops: while it checks, conflicts found are still
ahead in the table and items passed are still not behind (`CheckInv`); while it saves, no row of
the batch is behind and those done are in the table (`SaveInv`); after that, the two answers
(`OkInv`, `ConflictInv`). `Exclusion` says that at most one handler is running, so that a save
only affects handlers that have answered; for those a lemma on `Behind` (it composes: what is
not behind a row that is not behind a third one is not behind that) carries `OkInv` and
`ConflictInv` over the save.

**Devices.** `DevicesUseTheServer` shows that whatever devices do, the server sees a behaviour of
`ServerSpec`, so the theorems above hold below the sync engine. That no row goes back rests on one
lemma for merges and resolutions (`MergedFits`, `ResolvedFits`: the result is a row, and not older
than the local one) and on where a call has its rows: each is in the queue, in the chunk under way
or among the conflicts, and never in two of them (`CallsApart`), so that an answer does not purge a
row and resolve it, at the pulled version, in the same step. That is enough for any number of
calls, stale pulls and overlapping pushes. `OnlyLateEditsAreLost` compares two moments: `AllBuried` says
that a row whose tombstone waits or is away is still a tombstone on its device, or gone, or newer
than the tombstone; users may write to a deleted row, but what they write is newer than anything
on its way (`AllPast`), and only the same call can revive the row, by a merge that comes before
its queue is made or in a resolution that comes after the last chunk. That one device cannot do
without the last alternative is `vault_sync_purge`.

**Vault envelopes.** `UpToDate` says what a handler knows at each await: before it saves a default
vault there is none, before it removes a vault there is another one, before it deletes items their
vault is gone. It is true while no other handler writes (`OneAtATime`), and it is what a failure
between two steps leaves behind: without a default, never with two. `KeyInPlace` is the
same for the stored key: as long as no client saves another one, re-keys the default vault or
creates a new default, the row of `vault_keys` and every default vault hold it, through any
number of other calls and of failures in between.

**The sync-api.** `RowsInv` is the invariant of the push handler weakened for rows that a deletion
may take away between two of its steps: an item that the first loop has passed, or that is being
saved, is not behind the row in the table, or there is no such row any more (`Passed`). A save may
therefore insert again what was deleted, but never replaces a row it is behind. That a row goes
with its vault, after the vault, is `UpToDate` of the vault call that deletes it. Each step of the
process is a step of the vault envelopes or leaves them alone (`ApiSteps`), so their invariant
carries over.

**Login.** Two of the four invariants hold however calls overlap. `OneWay` follows a challenge: it
goes from unused to redis to one call that took it with `GETDEL`, and from there to one session
or one mfaToken, never back; that gives `OneSessionPerProof`. `TokensInOrder` is about expiries:
a token is handed out once, by the one call that made its session (`HandedOutOnce`), and expires
within `TokenLife` (`TokensExpire`); when a token can be revoked the call that made its session is
done, and revocations write nothing but marked rows, so that no late save takes the mark away
(`RevocationsHold`); the denylist entry is set for `TokenLife` at a moment when the token is
there and hence outlives it (`RevokedAndDenied`). The other two, `SecondOnce` and `Counted`, hold
until calls have overlapped: the record a call saves is the one in the table with its change, the
counter counts the failures that were answered, and a lockout reaches as far as the last of them
demands.

**Key directory.** That a publish always finds a version in range is not obvious with the text
order: `FindLatest` adds one to the version that sorts last. `VersionsBelow` counts: what is
there leaves room for every publish that may still come (`Room`, which needs the number of calls
that wait for their version, hence finite sets). That the text order has a last element at all is
`LatestIsThere`: `Rank` maps it into the natural numbers, where a largest one exists.
`SoloInv` is what one call at a time gives: a bundle that is about to be saved has the
date of the one that is there, a publish under way includes nobody who was revoked since. With
versions of one digit the text order is the order of numbers (`DigitsInOrder`), the latest version
is the highest (`LatestIsHighest`) and a publish is above it (`TargetIsAbove`), so that it finds no
copy to replace; `LastIsNewest` then says, between calls, that the copies of the highest version
are those of the last publish. It covers a publish that failed after its version row as well: the
next one goes above that row.

**Emergency access.** `IInv` has two layers. `Fits` says what a handler holds wherever it stands and
however calls overlap: rows do not go away, and a request that is due stays due, since the clock
only runs on. With `GrantsAreDue` it gives the waiting period for overlapping calls. The other
layer holds until calls have overlapped: one handler is running (`OneAtATime`) and what it has
read is still so (`UpToDate`): the request it saves has no rival, the requests of the contact it
revokes are those it still has to cancel. From that follow uniqueness (`OnlyOne`, which says
`OnePerContact` without cardinalities) and the finality of denials and revocations, also
when a revocation ends half-way and is repeated.

**Shared vaults.** `SharedKeysSound` is not inductive: an admin adds a member with the key of an old
view. `KeysWereMade` adds where keys come from: what a client has read it has learned, a wrapped
key is one that somebody made, and no known key is ahead of the vault's version. A rotation must
be above that version, so the key it makes is the only one of its version; a removed user learns
a key by reading or rotating only, and can do neither.

**Links, invitations, sign-on states.** The refinement of `OneTimeTicket` needs what the records
say of the past (`ViewsAreNoted`, `RecordsTellThePast`, `StatesTellThePast`): an unconsumed
link has no view, a pending invitation was never accepted, a waiting state was never redeemed,
and an id without a history has no record. Each step is shown to move at most one ticket, or
to void many (a restart, an hour). The same facts give `InviteGate`.

**The sharing-service.** A step of `SharingNext` is a step of each part or leaves it alone, so a
behaviour of the whole is one of each part. That carries the theorems on the
parts over (`SharingTypesHold`, `DirectoryKeepsItsWord`); the invariants of the parts together
give `KeysGuarded`, and `TicketsServeOnce` combines the steps of links and of invitations into one
of the common ticket box.

**Breach monitor.** `CheckSound`: what a check has in hand was answered for its address;
`FoundIsStored`: what was found since the opt-in is in the table. The second is why nothing is
new twice: `ON CONFLICT DO NOTHING` returns what was not in the table.

**Registration and ceremonies.** `Shape` holds however calls overlap. `HandlerFits` says what a
handler holds wherever it stands: a response that was found right is over a challenge given out
for this user (or for anybody, to log in with a passkey), and a session belongs to a credential
that was registered for the user. It is carried over the steps of other handlers by two facts about
every step: accounts stay and so does what was registered for them (`UsersStay`), and what a
challenge was given out for stays. That the credential is still in the user's list is not claimed:
another user may have registered it meanwhile. What a save does to the table is `Saving`: it
replaces one user's list, never by one that lacks a credential of that user's, and takes the listed
ones away from all others, for which the lists a handler has read hold registered credentials
only. `AcknowledgedStays` follows. `Place` is the
reason that challenges serve once: one that is offered is in one map and unused, one that a
handler has taken off is in no map and no other handler has it. Every step drops challenges,
accepts one that is held, takes one off or gives one out (`EachStepIsOneOfFour`), and each of the
four keeps `Place` and is a step of the ticket box. `Awaited` gives `RefusedForAReason`: a challenge
without an answer is still where its response will be looked for, or has a rival, or a response to
somebody else's challenge came to its user's endpoints and used it up. `Solo` is for what only holds
until calls have overlapped: one handler is running, the row it read is the row in the table, the
name it registers is free, and the mfaToken it came with has earned nothing yet and is gone before
its session is made. From `Solo` follow the unchanged verifier and the one session for an mfaToken.

**Enrollment.** `ChallengesServeOnce` combines the steps of challenges and of sign-on states as
`TicketsServeOnce` does for the sharing-service.

**Access tokens.** `RevokedIsOut` covers the time before the answer as well: a token whose
revocation was answered, or still waits for the audit log, is marked or forgotten. `created`
keeps a forgotten id from being made again.

Model-checked only: liveness (`Convergence`, `BreachesFound`), which is out of the prover's reach,
as are `ENABLED` and what needs induction over data.

## Not modelled

* Cryptography in all its forms: an opaque blob, a proof that is right or not, a key that is the
  pair of its version and its maker. SRP and TOTP are modular arithmetic and HMAC; their outcome
  is an input. TOTP secrets are not told apart, so replacing one is not visible.
* Scanners, import and export, heuristics, URL, file and AI analysis: functions of their input and
  of external services, without steps that interact.
* The content of the audit log, which nothing reads back into a decision. That storing an event
  may fail is part of `AccessTokens`.
* Screens, command line, browser extension, platform bridges. Opening an item, and the writes of the
  editor, the rotation dialog, the delete button and the sharing screen, are actions of `VaultSync`.
* The local database of the web build (`vault_database_web.dart`), whose `updateItem` is an upsert:
  there a screen can also bring back a row that has been purged.
* The deletion of vaults in `VaultSync`: rows that leave the server's table with their vault are
  part of `SyncApi`, which has no devices. A device pushes such rows again.
* The vault lock manager with its duress flag: its methods run one after the other and the order in
  which they are called is up to the screens. The decoy and duress branch of `sync` returns at
  once and is left out of `VaultSync`. Opening a second vault drops the flag
  (`app_shell.dart:123`); what follows from that is not modelled.
* The `vaultId` and `folderId` columns of items on devices, and with them the effect of a 409 resolution that
  drops the folder (`sync.dart:255`).
* Two sync calls running at a time on one device (a tombstone purge may then hit a row that the
  other call has just revived), and overlapping publishes of the key directory, which break
  several of its properties.

## Plan

Done: the modules above, with proofs about all of them.

Left, in this order:

1. Proofs: weaker promises of the key directory and of the vault envelopes that survive
   overlapping calls (the present ones do not), and of the key directory beyond version 9.
2. `VaultLock`: keys in memory, duress flag, biometric cache, and what sync does under them, with
   the calls of the screens as its environment.
3. The folder column in `VaultSync`, for the resolution that drops it.

A run for a new module takes the place of one that shows the least; the number of runs is kept
small enough to repeat them all on a laptop.
