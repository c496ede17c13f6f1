# A verification project for SpeakCore

SpeakCore manages TeamSpeak 3 servers on one host: a Next.js web application with
a SQLite database (`apps/web`), an agent with access to the docker CLI
(`apps/agent`), and packages with shared pure logic (`packages/shared`,
`packages/types`). This directory holds TLA+ models of it, the TLC
configurations that check them, and TLAPS proofs.

## Contents

| file | what it is |
|---|---|
| `ManagedLifecycle.tla` | the lifecycle services of the web side, the container and volume handlers of the agent, docker as they use it, and the faults between them |
| `ServerLifecycle.tla` | its abstract contract: how status, container, license and archive may change, without web, agent or faults |
| `BackupStore.tla` | the agent's backup handlers with the web services that call them, on one directory of archives and metadata, with helper containers that outlive their handler |
| `BackupArchive.tla` | its abstract contract: what may become of an archive file |
| `Provisioning.tla` | how servers get their volume and the network they share, and how that network is removed |
| `ServerResources.tla` | its abstract contract: record, outcome, volume, network and container of each server, without requests or handlers |
| `SecretRotation.tla` | stored credentials, the runs that re-encrypt them, and the web process with its key |
| `CredentialVault.tla` | its abstract contract: what may become of a stored credential |
| `QueryClient.tla` | a status refresh over ServerQuery: socket, timers, parser, session and the write after it |
| `StatusRefresh.tla` | its abstract contract: question and answer in turn, and the status that comes of them |
| `Access.tla` | rate limits, setup, login, sessions, logout |
| `SystemCheck.tla` | the survey of the host, the docker inventory, and the preflight evaluation of the system check page |
| `RotationPlan.tla` | the backup listing and the deletions its rotation plan proposes |
| `MC*.tla`, `*.cfg` | the instances TLC checks: `MCLifecycle` (`Serial`, `Overlap`, `Recovery`, `FalseSuccess`), `MCBackup` (`BackupSerial`, `BackupOverlap`), `MCProvisioning`, `MCRotation` (`Rotation`), `MCQuery` (`Query`), `MCAccess`, `MCSystemCheck`, `MCRotationPlan` |
| `*_proofs.tla` | theorems about the eight modules that are not contracts, for all values of the constants |
| `PROJECT.json` | components, runs, mutants, source map, findings, hazards, theorems |

Run `tlc -config Serial.cfg MCLifecycle` (and so on for each `.cfg`), and `tlapm` on
each `_proofs` module. A definition `Bug_X` is not part of a model: it is a plausible
mistake in the definition that follows it, kept to show that a property notices it.

## Inventory

Components, the state each keeps, its operations, and what makes it correct.

**Managed lifecycle (web).** `core/container-{prepare,create,start,stop,restart,remove}.ts`,
`volume-remove.ts`, `server-archive.ts`, `managed-health.ts`, behind the server
actions of `servers/actions.ts`. State: one `ServerInstance` row per server
(`provisioningStatus`, `runState`, `managedVolumeState`, `archivedAt`,
`lastProvisioningErrorKey`) and its `ServerCredential`. Every service reads the
row, checks a guard, usually makes one agent call, and writes the row
unconditionally. There is no lock, no version column and no conditional update.
Correct means: the license is accepted before a container runs, data is lost only
on confirmation, the row is what docker has or says that something failed, and
the status moves only along the documented edges.

**Agent handlers.** `docker-{container,start,stop,remove,volume-remove,status}.ts` over
`docker-cli.ts`. No state of their own: each is a sequence of `docker` calls that
looks (probe, managed list, any list, running list) before it acts. Each call is
killed after 5 s; `ok = false` covers failure and kill alike. Correct means: they
touch only labelled resources, they are idempotent, and success answers are true.

**Agent client.** `lib/agent-client.ts`: one HTTP request per call, an
AbortController timer (mostly 8 or 10 s), `null` for every failure. Giving up does
not stop the handler.

**Docker.** External; shared by everything on the host.

**Resource provisioning and the shared network.** `core/provisioning.ts`,
`agent/docker-write.ts`, `core/network-remove.ts`, `agent/docker-network-remove.ts`:
a DRAFT row, then network and volume through the agent, then the outcome. One
network for all servers, created by whoever comes first and removed from any
server's page. Correct means: no volume without a row, no row that claims a volume
it lacks, and the network is not removed under a server.

**Backup store.** `core/volume-backup.ts`, `backup-{verify,backfill,download,file-delete}.ts`
and their agent counterparts `docker-backup.ts`, `backup-*.ts`. State: one directory
with an archive and a metadata file per backup, named by the time stamp of the
agent's clock; and the helper containers (`docker run ... tar`) that write archives.
No index, no lock, no temporary names. Correct means: metadata and archive agree,
an unfinished archive is never vouched for, no file is lost that was not named, a
download streams the file that was verified, a checksum once recorded stays.

**Secret rotation.** `core/secret-rotation.ts`, `crypto.ts`: a command-line run reads
all credentials, plans which to re-encrypt, and writes them in one transaction; the
operator then restarts the web process with the new key. State: the credentials and
the key each process holds. Correct means: no credential becomes unreadable, is
lost, comes back, or gets another one's plaintext.

**Rate limiting, setup, sessions, users.** `core/rate-limit*.ts`, `setup*.ts`,
`users.ts`, `session.ts`. State: hit rows, user rows, session rows. Every check is a
query of its own, and only the creation of the owner is a transaction. Correct means:
exactly one owner, limits hold up to what is under way, cleanups take nothing that
still counts.

**TS3 ServerQuery client.** `core/ts3/client.ts`, `ts3/protocol.ts`, `core/servers.ts`:
one socket, one pending command, timers and socket events in any order. Correct
means: an answer settles its own command, the socket is closed on every path, every
refresh ends.

**System check.** `agent/system-info.ts`, `environment.ts`, `network.ts`,
`docker-inventory.ts`, `packages/shared/src/preflight`, the `systemcheck` page: probes
side by side, each with its own timeout, then a pure evaluation. Correct means: a
verdict was measured, a failed probe reads as unknown, and thresholds are monotone.

**Backup listing and rotation plan.** `agent/backup-list.ts`,
`core/backup-rotation-preview.ts`, `shared/provisioning/backup-delete.ts`: a
directory read file by file, and a pure plan over what was read. Correct means:
following the plan never costs the newest or a young backup.

**Pure decisions.** `packages/shared`: deprovisioning guards (part of the services that
use them), backup guards, input validation; `core/host-validation.ts`.

**Read-only and presentation.** Export, audit, pages, branding.

How they interact: browser form -> server action (session, role, rate limit) ->
service -> database, agent client -> agent HTTP server -> handler -> docker CLI.
Web and agent share nothing but one request and its reply. What is hard is listed
at its line in `PROJECT.json` under "hazards": requests that overlap, a web side
that has given up while the handler works, acknowledgements that are lost,
listings that fail, crashes between two steps, and pages rendered for a record
that has changed.

## ManagedLifecycle

A *job* is one request of the owner: its web service (`web[j]`) and the agent
handler the service calls (`agent[j]`). Every database access and every docker
call is one step. A job can be reused when both sides have ended, so with one job
the owner waits until the agent has come to rest; with two, either two requests
overlap or a request overlaps the leftover handler of one that timed out.

| state | in the code |
|---|---|
| `rec[s]` | the `ServerInstance` row, its credential (`credential`), and `archivedAt`, `credentialsRemovedAt` as booleans |
| `container[s]` | the docker container of the server's name: none, stopped, running, or `foreign` (without SpeakCore's labels) |
| `volume[s]` | the volume of the server's name: none, managed, or `unlabelled` (made by `docker create -v`) |
| `web[j]` | where the service is: reading, waiting for the agent, at a later write; its form, the last reply, whether it is part of a restart (`chain`), and the credential the archive saw |
| `agent[j]` | which docker call of which handler comes next |
| `consented`, `lossConfirmed` | history: what the owner ever accepted or confirmed |
| `faults` | the number of faults so far |

| action | code |
|---|---|
| `Submit` | a server action: the form with its license box, confirmations or credential decision. Without `StaleTabs` only forms the page offers for the current record |
| `Refuse`, `RefuseRunning` | a guard's early return (remove of a RUNNING server writes an error key) |
| `CallAgent` | read and guard of a service, then the request |
| `SaveReply` | the write after the reply (success state, error key, or the run state of a health check) |
| `Timeout`, `ConnectionLost` | the agent client returns null: the service writes `unreachable`; the handler runs on, or the request never arrived |
| `ReadForPrepare`, `StoreCredential`, `MarkPending` | `prepareManagedContainer` |
| `ReadForArchive`, `Archive` | `archiveManagedServer`: read and guard; then the transaction |
| `BeginRestart`, `AfterService`, `FinishRestart` | `restartManagedContainerForServer`: stop service, start service, `finalize` |
| `AgentProbe`, `AgentFindContainer`, `AgentFindManaged`, `AgentFindForeign`, `AgentFindRunning`, `AgentAct` | the docker calls of the handlers; what each handler concludes from what it saw is its table (`createTs3Container`, ...) |
| `WebCrash`, `AgentCrash` | a process dies between two steps; docker and the database stay |
| `ForeignContainer` | somebody else takes the container's name |

The handlers have the same shape, so each is a table from what a listing showed to
what comes next, and one action per kind of docker call. The tables are read off
the handlers one by one. Container status is compared only as far as the code
does: `created` and `exited` are both `stopped`.

Faults are chosen per instance (`Faults`) and bounded (`MaxFaults`): `probe` (first
call of a handler fails), `list` (a later listing fails, which the code reads as an
empty list), `command` (a command fails without effect), `ack` (the CLI is killed
after the command took effect), `timeout`, `webCrash`, `agentCrash`, `foreign`.

Left out: audit entries (nothing reads them), rate limits (`Access`), the
encryption key and `AGENT_DOCKER_WRITE_ENABLED` (configuration: when missing, the
services refuse before they change anything), names, ports and plans (static per
server), the TS3 part of the health check (it writes only display fields).

`ServerLifecycle` is the contract. Docker's container changes only in a status
that allows it, the status moves only to what docker already is, archives only
without a container. `ImplementsContract` is the refinement, under the mapping
given at `Contract`: the status as it is, the managed container, the archived
servers, and the accepted licenses.

`RemovedDataIsGone` is about a sequence the code allows: remove volume, prepare,
create. The record keeps `managedVolumeState = removed` and `volume-backup.ts:38`
refuses every backup of the server from then on. That is right only if what docker
made again is never the data; it is not, because no handler of the lifecycle makes a
labelled volume and no success of a removal is untrue.

## BackupStore

A *job* is one request: the web service and the agent handler together, because
the web side of a backup request only shows the reply (its single decision, to
stream only after "valid", is `Compare`). The program counter says which docker
call, file access or hash comes next.

| state | in the code |
|---|---|
| `inUse`, `volumeRemoved` | what the backup service reads of the server's record |
| `container`, `volume` | the server's container and volume in docker |
| `helper[f]` | the helper container that writes archive `f`, by what it captures |
| `archive[f]`, `metadata[f]` | the two files of a backup; a name is its time stamp |
| `clock` | the agent's clock, in milliseconds |
| `job[j]` | the handler's local variables: checksum read, checksum computed, first stat, what was streamed, reply |
| `naming[f]` | history: the name is free, given to a backup, used by its helper, or shared by two backups |
| `damaged`, `deleted`, `sealed` | history: archives changed by others, archives deleted, the first checksum recorded |

| action | code |
|---|---|
| `Submit` | a service and its guard; only names a page has listed |
| `Probe`, `FindContainer`, `FindManagedVolume`, `FindAnyVolume` | the first docker calls of `backupTs3Volume` |
| `FindImage` | the image listing, and in the same turn of the event loop the name (`safeTimestamp`) |
| `StartHelper`, `RunTimeout` | docker carries out the `docker run`, or refuses it because a helper of that name runs; the CLI is killed |
| `HelperDone`, `HelperFails` | the helper ends; the handler goes on only if it still waits |
| `HashForMetadata`, `Truncate`, `WriteMetadata` | checksum, then `writeFile` in its two steps, for a backup and a backfill |
| `Exists`, `ReadForVerify`, `HashForVerify` | `verifyTs3VolumeBackup`, also as the first half of a download |
| `ReadForBackfill` | `backfillBackupChecksum` |
| `StatForDownload`, `OpenStream` | `resolveBackupDownload` and the stream |
| `Lstat`, `HashForInspect`, `Restat`, `ReadForInspect` | `inspectBackup` (an agent route no page calls yet) |
| `Unlink`, `MetadataExists`, `UnlinkMetadata` | `deleteTs3BackupFile` |
| `TakeIntoUse` ... `RemoveVolume` | the server's lifecycle as far as backups meet it; its steps are those of `ManagedLifecycle` |
| `Tick`, `AgentCrash`, `Damage` | time, the agent dying (its helpers do not), another user of the directory |

Abstractions. An archive is what it captured: the managed volume at rest (`data`),
under a running server (`hot`), another volume (`other`), or it is unfinished
(`part`); after somebody changed it, it reads as `rot`. All unfinished contents of
one file are one value, and a second stat of a file still being written may differ
or not (`Restat`). A hash, and likewise size and time, is the content it is of:
SHA-256 without collisions, and a change of content that changes size or time.
Metadata is absent, torn, without or with a checksum; the other fields are
constant. A helper takes longer than a millisecond, so it never ends in the one it
was named in. Name checks, confirmations and rate limits refuse before anything is touched. A web
timeout is not a step: the reply it loses is only shown.

`BackupArchive` is the contract: a name is free, being written, left unfinished,
whole, or gone, and moves only in that order; but a name that was given to two
backups before the first of them was finished (`Share`) can be begun again
(`Again`). The exception is the code's: a backup takes its name from the clock in one
step and docker takes it in a later one, refusing a helper only while another of the
same name runs. Two backups named in the same millisecond therefore end in one of
two ways: the second run meets the first helper and fails, or it comes after that
helper has ended and overwrites its archive (see Findings). `ImplementsContract`
says that this is the only way: a name is shared only between backups that overlap,
and no helper that outlives its handler, no retry and no crash leads to a second use
of any other name. The properties of checksums, verification, download and
fingerprint except shared names for the same reason.

## Provisioning

A *job* is one request of the owner, with its service and its handler, as in
`ManagedLifecycle`. Here there are several servers, because the network is theirs
together.

| state | in the code |
|---|---|
| `provisioningStatus[s]` | the row of a server, as far as provisioning writes it; "none" before it exists |
| `network`, `volume[s]` | docker: managed, somebody else's, or none |
| `container[s]` | the server's container: it holds the network |
| `web[j]`, `agent[j]` | the two sides of a request; `agent[j].kind` is the resource the handler is at, `net` what came of the network |
| `misled`, `since` | history: which servers' handlers were misled by a failed listing; what happened since a removal was asked for |

| action | code |
|---|---|
| `Submit`, `CreateRecord`, `CallAgent` | `prepareManagedTs3Resources` up to the request; `removeManagedNetworkForServer` |
| `Timeout`, `ConnectionLost`, `WebCrash` | the agent client gives up; the connection is lost; the web process dies |
| `SaveStatus` | the write after the reply (`resolveProvisioningStatus`) |
| `ReportRemoval` | the end of a network removal, which writes no status |
| `AgentProbe`, `AgentFindManaged`, `AgentFindAny`, `AgentAct` | the docker calls of `prepareProvision` (network, then volume) and `removeTs3Network` |
| `AgentCrash` | the agent dies; docker stays |
| `ContainerCreate` ... `ContainerRemove` | what `ManagedLifecycle` does to the container, in four steps |
| `ForeignNetwork` | somebody else takes the network's name |

Docker takes `volume create` of an existing name for success, refuses a second
network of a name, and refuses to remove a network with running containers; this is
`CommandPossible` and `CommandEffect`. Volumes of another installation may be there
from the beginning (`Leftover`).

`ServerResources` is the contract. The mapping forgets requests and handlers, the
rest of the state is shared. What it adds to the invariants is the order of steps: a
record is a DRAFT before anything is made for it in docker, leaves DRAFT once and
never again, and says prepared in a step in which the volume is there (or a listing
misled the handler). A mutant that takes the record back when the agent gives no
answer shows why that matters: the handler goes on, and makes a volume for nobody.

## SecretRotation

| state | in the code |
|---|---|
| `row[s]`, `cred[s]` | `ServerInstance` and `ServerCredential`; the two encrypted fields are the key each is under, or `damaged` |
| `cred[s].secret` | the plaintext, named by the credential it was stored for |
| `stored[s]` | how many credentials a server ever had: the source of fresh row ids |
| `webKey` | `SECRET_ENCRYPTION_KEY` of the web process |
| `req[w]`, `run[r]` | a web request; a rotation run with its keys, the rows it read and its exit |
| `settled` | history: a rotation that should have left everything readable |

| action | code |
|---|---|
| `Submit`, `StoreExternal` | `createExternalServer` |
| `ReadForPrepare`, `StoreForPrepare` | the credential of `prepareManagedContainer` |
| `ReadForArchive`, `Archive`, `ReadForRemove`, `Remove` | the services that delete a credential |
| `RestartWeb` | the operator restarts the web process, with any key |
| `StartRun` | `rotate-secrets`, exit 2 for a missing key |
| `ReadRows` | `findMany` and `planCredentialRotation`; exits 0 and 1 that write nothing |
| `WriteAll` | the transaction, which fails as a whole when a row is gone (exit 3) |
| `RunFails` | a query throws (exit 3): `findMany`, an audit entry, the transaction, or the audit entry after it |
| `Report`, `Kill` | exit 0; the run is interrupted at any point |

Encryption is a key; AES-GCM notices every other key. The operator is free: any two
keys, any order of runs and restarts, several runs at once.

`CredentialVault` is the contract. Its `key[s]` is the key that reads both encrypted
fields, or `damaged` when none reads both; requests, runs, their rows and their
transactions are forgotten. A credential is stored under the key that is served, its
value never changes, re-encryption happens to all planned credentials in one step
and only to readable ones, and no number is given twice, so that what was deleted
cannot come back. `DeletedStaysDeleted` and `ReadableStaysReadable` follow
from it; they are theorems of their own.

## QueryClient

| state | in the code |
|---|---|
| `row` | the server's row and its `lastStatus` |
| `pc` | where the refresh is; the name of a command when that command is pending |
| `socket`, `bannerSeen`, `buffer` | the variables of `createSocketTransport` |
| `wire`, `inbox` | what the server sent and the client has not received, and the other way |
| `answers`, `torn`, `outcome` | history of the session; its result |

| action | code |
|---|---|
| `Refresh`, `SaveStatus` | `refreshServerStatus` before and after the session |
| `RemoveServer` | `removeServer`, by another request |
| `Greet`, `Reply` | the TeamSpeak server (external) |
| `Data(n)` | the `data` event with the first `n` pieces on the wire: banner, `extractCompletedResponse`, `parseError`, and the next command of the session |
| `ConnectTimeout`, `CommandTimeout` | the two timers |
| `SocketError`, `PeerCloses` | the `error` and `close` events |

The stream is a sequence of pieces, and chunks are cut between pieces: an error line
is cut after `error i`, after `d=`, and after the number. These are the cuts the parser
can tell apart. The values of `serverinfo` are one piece.

`StatusRefresh` is the contract: phase, answers so far, and whether the session is
connected. A command is asked only after every earlier one was accepted, `complete`
needs three acceptances, both ends of a session are disconnected, and a removed row
stays removed. A torn error line (see Findings) maps to the phase `torn`, in
which the contract promises only that the session can disconnect and report, and
that the row stays removed. `SocketsAreClosed` and `RemovedStaysRemoved` follow
from it; they are theorems of their own.

## Access

| state | in the code |
|---|---|
| `now` | the clock, in steps |
| `users`, `hits`, `sessions` | the user, `RateLimitHit` and `Session` rows |
| `job[j]` | a request: setup, login, or an action of the owner; the keys it is limited by and those still to be handled |

| action | code |
|---|---|
| `Submit`, `SubmitAction` | the request comes; an action needs a session (`validateSessionToken`) |
| `ReadState`, `Check`, `Record`, `Clear` | `getSetupState`, `checkRateLimit`, `recordRateLimitHit`, `clearRateLimit`, one query each |
| `Verify` | the password is right or wrong |
| `CleanupRateLimits`, `CleanupExpiredSessions` | the two cleanups of a login |
| `CreateOwner` | `createOwner`, one transaction |
| `CreateSession`, `Logout` | `createSession`, `invalidateSession` |
| `WebCrash`, `Tick` | the process dies; time passes |

Passwords, tokens and hashes are abstract. One action kind stands for all limited
actions of the owner: they differ in the name of their key and in their limit.

## SystemCheck

| state | in the code |
|---|---|
| `host`, `past` | the host as it is, and (history) as it was since the page was asked for |
| `phase`, `open` | how far the page is; the probes of `Promise.all` that have not ended |
| `info`, `listing` | the agent's two answers as they are collected |
| `shown` | what the page evaluates, and its badge |

| action | code |
|---|---|
| `Ask` | the page is asked for |
| `probeDocker`, `probeDockerCompose`, `probeDataPathStorageGb`, `runDetectVirt`, `readCgroup` | the probes, each with its failure |
| `Collect`, `NoAnswer` | the end of `gatherSystemInfo` and the page's reading of it; no answer in 2 s |
| `listContainers`, `listRest`, `NoInventory` | `gatherDockerInventory` |
| `HostChanges` | the host is resized, filled, or changed in between |

The evaluation (`runPreflight`, `findings`, `gradeService`, `buildUpgrades` and the
graders under them) is a set of operators with the thresholds of `profiles.ts` and
`evaluate.ts`; a missing number is the empty set. The page always asks for the
profile "small"; the others are evaluated as well, since the function takes them.

Two conversions stand between the host and its verdict. `toGb` rounds bytes to a tenth
of a GB, a half up; the snapshot is in tenths, and `GB` is the bytes of a gigabyte.
`classifyVirtualization` takes what `systemd-detect-virt` says: a container that
CONTAINER_HINTS does not list (`otherContainer`) is a machine. `VerdictsAreMeasured`
says what is left of a verdict after both (`Good`, `Bad`, `AtLeast`).

## RotationPlan

| state | in the code |
|---|---|
| `today`, `stamp`, `birth`, `created` | the clock in days; of each backup the day in its name, of its archive, and in its metadata |
| `made`, `making`, `files` | backups so far, the one under way, the archives in the directory |
| `reading`, `entries` | the listing under way: names still to be read, entries read |
| `planned`, `gone` | history: every candidate any page has shown; the deleted backups |

`NameBackup`, `CreateArchive`, `WriteMetadata` and `BackupFails` make backups,
`ListDir` and `ReadEntry` are `listTs3VolumeBackups`, `ShowPlan` is
`buildRotationPreview`, `DeletePlanned` the owner who deletes one of the shown files,
on a page of any age. `deleteCandidates` is `buildBackupRotationPlan` with its five
protections. The single steps of backup and delete are `BackupStore`'s.

Backups are numbered in the order of their names, which is that of the clock as long
as one backup is made at a time. That names differ is not a result of this
module; what becomes of two backups with one name is `BackupStore`'s question.

## How the modules compose

`ManagedLifecycle` takes servers whose resources are prepared; `Provisioning` ends
there and keeps of the rest only what holds the network. `BackupStore` keeps of
`ManagedLifecycle` the five steps that change a volume or whether it is in use.
`SecretRotation` keeps the steps that store or delete a credential. `Access` is in
front of every action and decides only whether it runs at all. Each of these shared
parts is a set of free steps in the module that borrows it, in any order their guards
allow; the modules are checked and proved one by one, not as one specification.

## Runs

The lifecycle instances have one server: the services and handlers address one row,
one container and one volume by the server's identity, and the only resource servers
share, the network, is `Provisioning`'s. The proofs make no such restriction. Backups
are of one server: names of different servers differ.

| run | instance | shows |
|---|---|---|
| `Serial` | 1 job, 2 faults of probe, command, ack, timeout, agentCrash, foreign | `TypeOK`; `NoSilentDivergence`: a settled record without an error key is what docker has; `ForeignNeverTargeted`; `RemoveDecisionDeletesCredential`; `ImplementsContract` |
| `Overlap` | 2 jobs, stale pages, 1 fault of ack, timeout, webCrash, agentCrash | `OnlyLicensedServersRun`, `CredentialComesFirst`, `SuccessRepliesAreTrue`, `DataLossIsConfirmed`; `RemovedDataIsGone`: a record that says removed is right |
| `Recovery` | 1 job, 3 faults of every kind but foreign, fair, a persistent owner | `RequestsEnd`, `AlwaysReconciled` |
| `BackupSerial` | 1 job, all operations, the server's lifecycle, 2 stamps, 2 faults of every kind | `DeletedLeavesNothing`, `ChecksumIsNeverReplaced` |
| `BackupOverlap` | 2 jobs, 2 stamps, 1 fault of disk, helper, timeout, damage | `TypeOK`, `ChecksumVouchesForArchive`, `MismatchMeansDamage`, `DownloadIsVerified`, `FingerprintIsOfOneArchive`, `ImplementsContract` |
| `Rotation` | an external and a managed server, 2 keys, 2 web requests, 2 runs, 2 credentials per server | `SecretsKeepTheirValue`, `RunsAreAllOrNothing`, `SettledIsReadable`, `ImplementsContract` |
| `Query` | socket errors and closes at any moment, any number of refreshes | `AnswersAreOwn`, `ImplementsContract`, `RefreshEnds` |
| `Provisioning` | 2 servers, 2 jobs, a leftover volume, 1 fault of every kind, fair | `VolumesAreAccountedFor`, `RemovalRepliesAreTrue`, `NetworkOutlivesContainers`, `DraftIsLeft`, `ImplementsContract` |
| `Access` | 2 requests, 3 hits, 2 sessions, limit 1, window, retention and lifetime of 2, clock to 3 | `AttemptsAreBounded`, `OneOwner`, `CleanupsSpareWhatCounts` |
| `SystemCheck` | 15 hosts at the thresholds and beside their rounding, profiles small and large, 2 changes, 1 fault of every kind | `VerdictsAreMeasured`, `MoreIsNeverWorse` |
| `RotationPlan` | 4 backups, 4 days, keep 2 and 2 days, 1 failing access | `NewestAreKept`, `YoungAreSpared` |
| `FalseSuccess` | 1 job, 1 failing listing | `SuccessRepliesAreTrue` is violated (see Findings) |

Bounds. Two faults in `Serial` are enough for a fault and another in its repair
(an acknowledgement lost, then the agent dying in the retry); three in `Recovery`
add a false answer to that. Two jobs give every pairwise interleaving; a third
request would meet the same two unsynchronised writes. `Overlap` leaves the
health check out: it writes only the run state, which none of its properties
reads. In the backup runs there are an older backup and two new names, so that two
backups can meet in one millisecond and in two; a helper left by a request that
timed out is a third actor. `BackupOverlap` leaves the server's lifecycle out: it
only changes what an archive captures, which its properties do not read; `verify`
is part of `download`. It also leaves out the crash of the agent, which leaves behind
what a timeout, a failed access and a helper without handler leave; `BackupSerial`
and the proofs have it. In `Rotation` two credentials per server let a run hold a copy
of a credential that was replaced; two keys and two runs let the runs work against
each other. Two servers in `Provisioning` are one whose container holds the network
and one that removes it. In `Access` three hits are the limit, the request too many,
and one older; the clock goes one step past every duration. The hosts of `SystemCheck`
differ from one that is exactly on the thresholds in one respect each, in both
directions; a GB is 20 units there, so that one unit is the half tenth `toGb` rounds
away. In `RotationPlan` four backups are two to keep, one to delete, and one
under way; the policy is smaller than the default of 3 and 7 so that its boundaries
are reached. All these bounds are gone in the proofs.

Why an instance leaves faults out is part of what it shows. `Serial` is without
`list` and `webCrash`: the first makes handlers report false success (a finding),
and a web process that dies between docker's change and the write leaves a
difference nobody records; there is no code that could. `Overlap` is without
`list` for the same reason. `ForeignNeverTargeted` holds with one request at a
time; with overlapping requests the look and the act of a handler can be
separated by a remove and a foreign create, and the code has nothing against it.
`BackupSerial` has one request at a time because its two properties need it: of two
overlapping backfills the slower replaces the checksum, and a backfill that overlaps
a delete writes the metadata back after the delete has removed it.

Deadlock is not checked: an owner who submits nothing more is a legitimate end
(an archived server's page offers nothing), the operator runs nothing, and the
bounds end a behaviour.

### Findings

`FalseSuccess` is expected to violate its property: when the listing of running
containers fails, stop answers `alreadyStopped` for a container that runs
(docker-stop.ts:95-112), and the service records CONTAINER_STOPPED. `PROJECT.json`
quotes the comment that says otherwise. A removal needs two failing listings to be
as wrong: with one, the second listing still sees the name and answers `conflict`
(docker-remove.ts:61-90, docker-volume-remove.ts:83-107).

What else the models reach and no property excludes, for whoever changes this code:

- Remove volume, prepare, create: docker makes the volume again, the record keeps
  `managedVolumeState = removed` for ever, and the new volume has no labels: it is not
  the data (`RemovedDataIsGone`), but it can neither be backed up nor removed.
- Only the page keeps lifecycle actions from archived servers; the services do not
  look at `archivedAt`, so a tab rendered earlier still acts.
- Archive's guard is outside its transaction: a prepare and create in between leave
  an archived server with a container, which is out of every page's reach; for an
  owner who waits `ArchivedIsAtRest` excludes it. A credential stored in between
  survives the decision to delete it.
- The container listing of a backup is made once: a container created and started
  before the helper ends is backed up while it writes (`archive[f] = "hot"`). A volume
  removed between the listing and `docker run -v` is made again, empty and without
  labels, and backed up (`"other"`).
- Two backups of one server whose image listings end in the same millisecond get the
  same archive name and the same helper name (docker-backup.ts:179-191). If the first
  helper, run with `--rm`, has ended when docker carries out the second run, the second
  overwrites the finished archive, and for a while its recorded checksum is another
  archive's. Everything the store promises excepts such names (`Shared`).
- The slower of two overlapping backfills replaces the recorded checksum, also by that
  of an archive changed in between.
- `rotate-secrets` can exit 3 with every credential re-encrypted: the audit entry after
  the committed transaction (secret-rotation.ts:111) can throw, and main reports a
  failure. secret-rotation.ts:22 says that nothing is written then ("bei hartem Fehler
  wird NICHTS geschrieben"); `RunsAreAllOrNothing` says what holds, nothing or
  everything. An operator who sees exit 3 can repeat the run: what is under the new
  key already is skipped.
- The later of two overlapping prepares turns CONTAINER_CREATED back into
  CONTAINER_PENDING (container-prepare.ts:88).
- A chunk that ends inside the error line of a ServerQuery answer is taken for the
  whole line (protocol.ts:124): its id reads as 0 or is missing, so a refusal can pass
  for acceptance. `AnswersAreOwn` says so by `torn`.
- Two servers provisioned at the same time on a host without the network: docker
  refuses the second network, and that server ends RESOURCE_PREPARE_PARTIAL, from
  where no page leads on. The same holds for a DRAFT whose request was lost.
- A limit is exceeded by requests that pass the check before the first of them
  records; `AttemptsAreBounded` says by how many.
- The system check can never be green overall (`NeverGreenOverall`): upload, firewall
  and backup storage are not surveyed, and unknown is yellow. Docker counts as present when its CLI is,
  with or without a daemon.
- The system check is green where the host is slightly short or a container: `toGb`
  (system-info.ts:22) makes 3.95 GiB of memory 4.0 and 19.95 GiB of disk 20.0, and
  `classifyVirtualization` (environment.ts:27) takes container-other, pouch and proot
  for a VM. Thresholds are meant as recommendations (profiles.ts:4), and only
  what is missing beyond half a tenth is seen.
- The rotation plan counts unfinished archives among the newest it keeps.

### Fairness

`Fairness` of `ManagedLifecycle` is weak fairness of each job's web service and of its
agent handler: Node runs what is runnable, and every docker call ends by its 5 s
kill, every agent call by its timer. Nothing is assumed of the owner, of faults or of
crashes. `AlwaysReconciled` alone adds `PersistentOwner`: an owner who keeps
submitting what the page keeps offering. That is an assumption about a person, so the
property says what the program makes possible, not what it does by itself: there
is no background reconciliation in the code. `Provisioning` is fair in the same way to
services and handlers. `QueryClient` is fair to its two timers and to the write after
the session, and to nothing of the server or the network: that is what makes
`RefreshEnds` a statement about the timers.

## Proofs

The theorems hold for every value of the constants that satisfies the assumption of
the module (`LifecycleAssumption` and so on): any number of servers, requests, runs,
backups, faults, any durations, hosts and policies. Where a theorem needs more, it
says so in an `ASSUME`, and the same restriction is in the run that checks it.

### ManagedLifecycle_proofs

| theorem | states | argument |
|---|---|---|
| `TypeCorrect` | `Spec => []TypeOK` | `TypeInv` = `TypeOK` and `Stages`: which program counter goes with which operation, form and reply. `TypeOK` alone is not inductive: `FinishRestart`, `SaveReply` and the handler tables are only type correct because a handler never reaches an entry its table lacks |
| `LicenseSafety` | `Spec => []OnlyLicensedServersRun` | `ConsentInv`: a start service past its guard, and a start handler, exist only for a server whose license was accepted. `consented` never shrinks |
| `DataLossSafety` | `Spec => DataLossIsConfirmed` | the same for a volume removal and `lossConfirmed`; docker's in-use check gives the second half |
| `CredentialSafety` | `Spec => []CredentialComesFirst` | `CredentialInv`: also every create handler under way and every prepare about to write its status has a credential behind it, or an archive removed it |
| `ReplySafety` | without `list` and `foreign` faults: `Spec => SuccessRepliesAreTrue` | `ReplyInv`: a handler that reports success does so in the step that saw or made the state. The assumption is necessary (`FalseSuccess`) |
| `RemovedDataSafety` | without `list` faults: `Spec => []RemovedDataIsGone` | `RemovedInv`: the answer of a removal is still true when it is written, since no step makes a volume of ours. Two listings that fail, that of managed volumes and that of all, answer `alreadyRemoved` for a volume that is there, so the assumption is necessary |
| `ForeignSafety` | `OneAtATime`: `Spec => []ForeignNeverTargeted` | `TargetInv`: what a handler found managed is still managed when it acts, since nobody else removes it |
| `ArchiveSafety` | `OneAtATime`: `Spec => RemoveDecisionDeletesCredential` | what archive read of the credential is still so in its transaction |
| `DivergenceSafety` | `WaitingOwner`: `Spec => []NoSilentDivergence` | `OwnerInv`, see below |
| `ArchivedIsAtRest` | `WaitingOwner`: `Spec =>` archived servers stay archived, prepared and without a container | from the contract alone: no step of `ServerLifecycle` concerns an archived server |
| `LifecycleImplementsContract` | `WaitingOwner`: `Spec => ImplementsContract` | one lemma per kind of step: it is a step of `ServerLifecycle` under the mapping, or none |

The lemmas `WebMoves`, `AgentMoves`, `WebShape`, `AgentShape`, `RecShape`,
`HandlerTables` and `ProceedSplit` say once what a step can do to each part of
the state, so that the invariance proofs split into few cases.

`OneAtATime` is one job: the owner waits until service and handler of the last
request are at rest. `WaitingOwner` adds that pages are current and that neither a
listing lies nor the web process dies. Each part is needed: a lying listing makes a
success untrue, a web process that dies leaves a difference without an error key,
and a stale page or an overlapping request writes over a status it has not read.
`OwnerInv` says for each server what record and docker can be to each other
(`RecordInv`: the same, or the error key is set, or the request of the one job is
between them), and for the job what its service (`ServiceInv`) and its handler
(`HandlerInv`) know of both. A lost acknowledgement is covered because the service
that gets no answer sets the error key, and a handler that goes on afterwards is part
of the same job.

### BackupStore_proofs

| theorem | states |
|---|---|
| `TypeCorrect` | `Spec => []TypeOK` |
| `ChecksumCorrect` | `Spec => []ChecksumVouchesForArchive` |
| `MismatchCorrect` | `Spec => []MismatchMeansDamage` |
| `DownloadCorrect` | `Spec => []DownloadIsVerified` |
| `FingerprintCorrect` | `Spec => []FingerprintIsOfOneArchive` |
| `StoreImplementsArchive` | `Spec => ImplementsContract` |
| `DeleteCorrect` | `OneAtATime`: `Spec => []DeletedLeavesNothing` |
| `ChecksumStays` | `OneAtATime`: `Spec => []ChecksumIsNeverReplaced` |

`NameInv` is the invariant of the names: one the clock has not given yet has no file
and no helper, one that was given has none either until its run, and two backups about
to run have different names unless the name is shared. On top of it `StoreInv` says
what names used once keep. `FileInv`: metadata exists only beside a finished archive,
and vouches for it. `JobInv`: what each handler still knows of its file after others
have run: a checksum it holds is `Vouched` for (equal to the archive unless that was
damaged or deleted), and what an inspection saw can only have moved up in the order
`Before`. A shared name keeps only what needs no knowledge of the file
(`SumsAgree`), which is why the properties except it. None of
the properties is inductive alone: that "mismatch" means damage needs what
verification knew of the metadata, which needs what the writer of the metadata
knew of the archive. The argument has two halves: `Steady` says that every step
moves files only forward, so that `KeptJob` keeps the knowledge of all handlers
that did not move; and one lemma per handler shows that the one that moved
learned something true. The refinement needs `NameInv` alone. `DeleteCorrect` adds
`Gone`: what one handler unlinked stays away until it answers. `ChecksumStays` adds
`SerialInv`: with one handler, what it read of the metadata is what is still there
when it writes them.

### The other modules

| module | theorems | inductive invariant |
|---|---|---|
| `SecretRotation_proofs` | `TypeCorrect`, `SecretsCorrect`, `AllOrNothingCorrect`, `SettledCorrect`, `DeletedCorrect`, `ReadableCorrect`, `RotationImplementsVault` | `Inv`: ids are fresh, so that a row a run holds is either the credential that is stored or one that will never be stored again; and per run what its stage implies. For `SettledIsReadable`, a run that began after the switch is *converging*: each credential is under the web key, or was read and is about to be written under it |
| `QueryClient_proofs` | `TypeCorrect`, `AnswersCorrect`, `SocketSafety`, `RemovedSafety`, `ClientImplementsRefresh` | `SessionInv`: unless a line was torn, received and unreceived pieces together are the banner, or what is left of the one answer that is due, and nothing else |
| `Provisioning_proofs` | `TypeCorrect`, `VolumeSafety`, `RemovalReplySafety`, `NetworkSafety`, `ProvisioningImplementsResources` | `WebOK` and `AgentOK` for each job: what a handler has seen of network and volume is still so, or its server is `misled`, or the history `since` says what happened. `OnceInv`: a server is prepared by one request at most, and that request finds the record as it left it |
| `Access_proofs` | `TypeCorrect`, `AttemptsSafety`, `OwnerSafety`, `CleanupSafety` | `BoundInv`: the hits in the window and the requests about to record, counted together, stay under the bound. The bound on hits alone is not inductive. For `OwnerSafety`, `EntryInv`: how far each kind of request gets while there is no owner |
| `SystemCheck_proofs` | `VerdictSafety`, `MonotoneSafety`, `NeverGreenOverall` | `SurveyInv` and `PageInv`: each reading was true of some host of `past`; `RoundedAtLeast` says what a rounded size tells of the bytes, for any `GB`. Monotonicity is a lemma per grader, then per category |
| `RotationPlan_proofs` | `TypeCorrect`, `NewestSafety`, `AgeSafety` | `DatesInv` (names, archives and metadata are dated in the same order), `ListInv` (a listing has at most what was there when it began), `PlanInv`: a candidate stays one, because newer backups are only deleted as candidates with enough newer ones themselves. |

### The refinements

Each of the five specifications that implement a contract does so by a theorem of the
same shape: `Init` implies the contract's `Init` under the mapping, every step is a
step of the contract or changes nothing it sees (one lemma per kind of step, under the
inductive invariant), and PTL puts the two together. The mapping is a state function
given at `Contract`; the histories it reads (`consented`, `misled`, `gone`, `torn`, ...)
are variables no guard of the models reads. What each refinement needs beyond the
type invariant says what the code relies on:

| theorem | relies on |
|---|---|
| `LifecycleImplementsContract` | `OwnerInv`: record and docker differ only between the steps of the one request |
| `StoreImplementsArchive` | `NameInv`: a name the clock gives is new, unless another backup was given it in the same millisecond and has not finished |
| `ProvisioningImplementsResources` | `OnceInv`: a fresh instanceId per form, so that no second request writes the outcome |
| `RotationImplementsVault` | fresh row ids: an update by id cannot meet a credential stored later |
| `ClientImplementsRefresh` | `SessionInv`: what is in the buffer belongs to the command that is asked |

Only model-checked: `RequestsEnd`, `AlwaysReconciled`, `RefreshEnds` and `DraftIsLeft`.
They are liveness properties, which the prover cannot reach. Every other property of
a run is a theorem.

## Plan

All components whose order of steps matters are modelled. What could follow:

1. Composition of `Provisioning` and `ManagedLifecycle` in one module, for the create
   handler on a network that is being removed; `Provisioning` has it with four free
   container steps.
2. An abstract specification of `Access`: limits as counters per window, without the
   gap between check and record; the code does not implement it exactly, so the
   mapping has to carry the requests under way that `BoundInv` counts.
3. A parser of ServerQuery answers that waits for the end of the error line, with the
   contract `StatusRefresh` without its phase `torn`.

## Not modelled, and why

- Validation of inputs and hosts, authentication of the agent, parsing of request
  bodies: one request against regular expressions, allow lists and configuration,
  refused before anything happens.
- `validateDeprovisioningRequest`, `buildDeprovisioningPlan`,
  `canRemoveManagedContainer`, `canDeleteManagedBackup`, `buildBackupDeletePlan`:
  nothing in the program calls them.
- Export and audit: a selection of fields, and rows no control flow reads.
- Pages, branding and translations, except which actions the server page offers.
- Password hashing and the cipher: external functions, used as such.
