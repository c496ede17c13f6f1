---------------------------- MODULE SystemCheck ----------------------------
(***************************************************************************)
(* The system check page: the agent's read-only survey of the host         *)
(* (apps/agent/src/system-info.ts, environment.ts, network.ts and          *)
(* docker-inventory.ts), the page that asks for it, and the evaluation of  *)
(* packages/shared/src/preflight, which is pure.                           *)
(*                                                                         *)
(* Every probe is a step of its own and may fail, the host changes between *)
(* the probes, and the page gives up on an agent that is slow or down.     *)
(* The page itself always asks for the profile "small"; the others are     *)
(* parameters of the evaluation.                                           *)
(*                                                                         *)
(* An optional number or Boolean is a set of at most one element, the      *)
(* empty set being `undefined`.  The host's sizes are bytes; the agent's   *)
(* and the page's are tenths of a GB, as toGb rounds them.  Texts and      *)
(* versions are left out.                                                  *)
(*                                                                         *)
(* A definition whose name begins with Bug_ is not part of the model: it   *)
(* is the next definition with a plausible mistake.                        *)
(***************************************************************************)
EXTENDS Naturals

CONSTANTS
  GB,          \* the bytes of a gigabyte, 1024^3 in the code
  Hosts,       \* the states the host can be in
  Profiles,    \* the installation profiles asked for
  MaxChanges,  \* bound on the number of changes of the host
  Faults,      \* the kinds of fault that can happen
  MaxFaults    \* bound on the number of faults of a behaviour

Services == {"teamspeak3", "teamspeak6", "mumble", "matrix", "jitsi"}
Kinds    == {"bare-metal", "vm", "container"}

\* What systemd-detect-virt says: nothing, a machine, a container of the list
\* CONTAINER_HINTS, or one that is not in it (container-other, pouch, proot).
Virts    == {"none", "machine", "container", "otherContainer"}

Resource == [type : {"container", "volume", "network"}, managed : BOOLEAN, id : {1, 2}]

\* `docker` is the daemon's state as far as the host has the program at all;
\* `linux` is FALSE on a system the environment is not detected on.
Host ==
  [cores : Nat, ram : Nat, storage : Nat, docker : {"absent", "installed", "running"},
   compose : BOOLEAN, ipv4 : BOOLEAN, ipv6 : BOOLEAN, dns : BOOLEAN,
   virt : Virts, linux : BOOLEAN, resources : SUBSET Resource]

FaultKinds ==
  {"version",  \* a version call fails or takes longer than 1.5 s
   "statfs",   \* the free space cannot be read
   "virt",     \* systemd-detect-virt is missing or too slow
   "cgroup",   \* /proc/1/cgroup is unreadable or says nothing
   "listing",  \* a docker listing fails or takes longer than 2.5 s
   "silence"}  \* the page gets no answer in time, or an error

ASSUME SystemCheckAssumption ==
  /\ GB \in Nat \ {0}
  /\ Hosts \subseteq Host /\ Hosts # {}
  /\ Profiles \subseteq {"small", "medium", "large", "expert"} /\ Profiles # {}
  /\ MaxChanges \in Nat
  /\ Faults \subseteq FaultKinds
  /\ MaxFaults \in Nat

VARIABLES
  host,      \* the host as it is
  past,      \* history: what the host was since the page was asked for
  phase,     \* how far the page is
  profile,   \* the profile it evaluates
  open,      \* the probes that have not ended yet
  info,      \* the agent's answer as far as it is collected
  listing,   \* the docker inventory as far as it is collected
  shown,     \* the input of the page's evaluation, and its badge
  changes,   \* changes of the host so far
  faults     \* faults so far

vars == <<host, past, phase, profile, open, info, listing, shown, changes, faults>>

-----------------------------------------------------------------------------
(* The evaluation (profiles.ts and evaluate.ts).                           *)

Rank == [green |-> 0, yellow |-> 1, red |-> 2]
Worse(s, t) == Rank[s] > Rank[t]

worstSeverity(severities) ==
  CHOOSE s \in severities \cup {"green"} :
    \A t \in severities \cup {"green"} : ~Worse(t, s)

PROFILE_REQUIREMENTS ==
  [small  |-> [cores |-> 2, ram |-> 4,  storage |-> 20],
   medium |-> [cores |-> 4, ram |-> 8,  storage |-> 80],
   large  |-> [cores |-> 6, ram |-> 16, storage |-> 200],
   expert |-> [cores |-> 8, ram |-> 32, storage |-> 400]]

MINIMUM_FLOOR == PROFILE_REQUIREMENTS["small"]

SERVICE_REQUIREMENTS ==
  [s \in Services |->
     IF s \in {"matrix", "jitsi"} THEN [ramGreen |-> 16, coresGreen |-> 4, ramYellow |-> 8]
                                  ELSE [ramGreen |-> 4, coresGreen |-> 2, ramYellow |-> 2]]

\* A threshold in the unit of the snapshot: sizes are tenths of a GB.
Threshold(field, n) == IF field = "cores" THEN n ELSE 10 * n

gradeAtLeast(value, greenMin, yellowMin) ==
  IF value = {} THEN "yellow"
  ELSE IF \A v \in value : v >= greenMin  THEN "green"
  ELSE IF \A v \in value : v >= yellowMin THEN "yellow" ELSE "red"

evaluateNetwork(snapshot)       == gradeAtLeast(snapshot.upload, 10, 5)
evaluateBackupStorage(snapshot) == gradeAtLeast(snapshot.backupStorage, 10 * 20, 10 * 5)

\* cpu, ram and storage against a profile
evaluateResource(snapshot, p, field) ==
  gradeAtLeast(snapshot[field], Threshold(field, PROFILE_REQUIREMENTS[p][field]),
               Threshold(field, MINIMUM_FLOOR[field]))

evaluateCapability(status, criticalIfAbsent) ==
  IF status = "present" THEN "green"
  ELSE IF status = "absent" /\ criticalIfAbsent THEN "red" ELSE "yellow"

Bug_AnyIpv6IsYellow(snapshot) ==
  IF snapshot.ipv4 = {} /\ snapshot.ipv6 = {} THEN "yellow"
  ELSE IF snapshot.ipv6 = {TRUE} THEN "yellow"
  ELSE IF snapshot.ipv4 = {TRUE} THEN "green" ELSE "red"

evaluateIpStack(snapshot) ==
  IF snapshot.ipv4 = {} /\ snapshot.ipv6 = {} THEN "yellow"
  ELSE IF snapshot.ipv4 = {TRUE} THEN "green"
  ELSE IF snapshot.ipv6 = {TRUE} THEN "yellow" ELSE "red"

evaluateEnvironment(environment) ==
  IF environment \in {"proxmox-vm", "bare-metal", "vps"} THEN "green" ELSE "yellow"

gradeService(snapshot, s) ==
  LET req == SERVICE_REQUIREMENTS[s]
  IN  IF snapshot.ram = {} \/ snapshot.cores = {} THEN "yellow"
      ELSE IF /\ \A r \in snapshot.ram : r >= 10 * req.ramGreen
              /\ \A c \in snapshot.cores : c >= req.coresGreen THEN "green"
      ELSE IF \A r \in snapshot.ram : r >= 10 * req.ramYellow THEN "yellow" ELSE "red"

findings(input, p) ==
  LET s == input.snapshot
  IN  [environment   |-> evaluateEnvironment(input.environment),
       cpu           |-> evaluateResource(s, p, "cores"),
       ram           |-> evaluateResource(s, p, "ram"),
       storage       |-> evaluateResource(s, p, "storage"),
       network       |-> evaluateNetwork(s),
       docker        |-> evaluateCapability(s.docker, TRUE),
       dockerCompose |-> evaluateCapability(s.compose, TRUE),
       firewall      |-> evaluateCapability(s.firewall, FALSE),
       dns           |-> evaluateCapability(s.dns, FALSE),
       ipStack       |-> evaluateIpStack(s),
       backupStorage |-> evaluateBackupStorage(s)]

buildUpgrades(input, p) ==
  LET f == findings(input, p)
  IN  {c \in {"cpu", "ram", "storage", "network", "backupStorage"} : f[c] # "green"}
        \cup (IF input.snapshot.docker = "absent" THEN {"enableDocker"} ELSE {})
        \cup (IF input.snapshot.compose = "absent" THEN {"enableCompose"} ELSE {})
        \cup (IF input.environment = "proxmox-lxc" THEN {"useVm"} ELSE {})

runPreflight(input, p) ==
  LET f == findings(input, p)
  IN  [overall  |-> worstSeverity({f[c] : c \in DOMAIN f}),
       findings |-> f,
       services |-> [s \in Services |-> gradeService(input.snapshot, s)],
       upgrades |-> buildUpgrades(input, p)]

-----------------------------------------------------------------------------
(* What the agent reports and what the page makes of it.                   *)

\* Math.round(bytes / GB * 10), a half rounding up.
toGb(bytes) == (20 * bytes + GB) \div (2 * GB)

\* Whatever the list of containers does not have is a machine.
classifyVirtualization(virt) ==
  CASE virt = "none"      -> "bare-metal"
    [] virt = "container" -> "container"
    [] OTHER              -> "vm"

NoInfo ==
  [cores |-> 0, ram |-> 0, storage |-> {}, docker |-> "unknown", compose |-> "unknown",
   ipv4 |-> FALSE, ipv6 |-> FALSE, dns |-> "unknown", kind |-> "unknown"]

mapDetectedEnvironment(kind) ==
  CASE kind = "vm"         -> "proxmox-vm"
    [] kind = "container"  -> "proxmox-lxc"
    [] kind = "bare-metal" -> "bare-metal"
    [] OTHER               -> "unknown"

\* Upload, firewall and backup storage are not surveyed.
mapSystemInfoToResourceSnapshot(i) ==
  [cores |-> {i.cores}, ram |-> {i.ram}, storage |-> i.storage, upload |-> {},
   docker |-> i.docker, compose |-> i.compose, firewall |-> "unknown", dns |-> i.dns,
   ipv4 |-> {i.ipv4}, ipv6 |-> {i.ipv6}, backupStorage |-> {}]

isSnapshotComplete(snapshot) ==
  snapshot.cores # {} /\ snapshot.ram # {} /\ snapshot.storage # {}

\* What the page evaluates when the agent does not answer.
DEMO_INPUT ==
  [environment |-> "proxmox-lxc",
   snapshot |->
     [cores |-> {2}, ram |-> {10 * 4}, storage |-> {10 * 40}, upload |-> {},
      docker |-> "present", compose |-> "present", firewall |-> "present", dns |-> "present",
      ipv4 |-> {TRUE}, ipv6 |-> {}, backupStorage |-> {10 * 20}]]

NoListing == [status |-> "none", resources |-> {}]
NoPage == [badge |-> "none", profile |-> "small", input |-> DEMO_INPUT]

-----------------------------------------------------------------------------
(* The page is asked for, and the host may change.                         *)

Init ==
  /\ host \in Hosts /\ past = {}
  /\ phase = "idle" /\ profile \in Profiles
  /\ open = {} /\ info = NoInfo
  /\ listing = NoListing /\ shown = NoPage
  /\ changes = 0 /\ faults = 0

Inject(kind) ==
  /\ kind \in Faults
  /\ faults < MaxFaults
  /\ faults' = faults + 1

End(probe) == probe \in open /\ open' = open \ {probe}

-----------------------------------------------------------------------------
(* gatherSystemInfo: memory is read at once, then the probes run side by   *)
(* side, and network and processors are read when all have ended.          *)

Ask(p) ==
  /\ phase \in {"idle", "shown"}
  /\ phase' = "survey" /\ profile' = p
  /\ past' = {host}
  /\ open' = {"docker", "compose", "storage", "virt"}
  /\ info' = [NoInfo EXCEPT !.ram = toGb(host.ram)]
  /\ listing' = NoListing
  /\ UNCHANGED <<host, shown, changes, faults>>

Bug_FailureIsAbsence(probe, works) ==
  /\ phase = "survey" /\ End(probe)
  /\ \/ works /\ info' = [info EXCEPT ![probe] = "present"] /\ UNCHANGED faults
     \/ ~works /\ info' = [info EXCEPT ![probe] = "absent"] /\ UNCHANGED faults
     \/ works /\ Inject("version") /\ info' = [info EXCEPT ![probe] = "absent"]
  /\ UNCHANGED <<host, past, phase, profile, listing, shown, changes>>

\* `docker --version` and `docker compose version` need no daemon.
runVersion(probe, works) ==
  /\ phase = "survey" /\ End(probe)
  /\ \/ works /\ info' = [info EXCEPT ![probe] = "present"] /\ UNCHANGED faults
     \/ ~works /\ UNCHANGED <<info, faults>>
     \/ works /\ Inject("version") /\ UNCHANGED info
  /\ UNCHANGED <<host, past, phase, profile, listing, shown, changes>>

probeDocker        == runVersion("docker", host.docker # "absent")
probeDockerCompose == runVersion("compose", host.docker # "absent" /\ host.compose)

probeDataPathStorageGb ==
  /\ phase = "survey" /\ End("storage")
  /\ \/ info' = [info EXCEPT !.storage = {toGb(host.storage)}] /\ UNCHANGED faults
     \/ Inject("statfs") /\ UNCHANGED info
  /\ UNCHANGED <<host, past, phase, profile, listing, shown, changes>>

runDetectVirt ==
  /\ phase = "survey" /\ "virt" \in open
  /\ \/ /\ open' = open \ {"virt"} /\ UNCHANGED faults
        /\ info' = [info EXCEPT !.kind = IF host.linux THEN classifyVirtualization(host.virt)
                                                 ELSE "unknown"]
     \/ /\ host.linux /\ Inject("virt")
        /\ open' = (open \ {"virt"}) \cup {"cgroup"} /\ UNCHANGED info
  /\ UNCHANGED <<host, past, phase, profile, listing, shown, changes>>

\* /proc/1/cgroup names lxc or docker, or shows nothing of a container.
readCgroup ==
  /\ phase = "survey" /\ End("cgroup")
  /\ \/ /\ host.virt \in {"container", "otherContainer"} /\ UNCHANGED faults
        /\ info' = [info EXCEPT !.kind = "container"]
     \/ host.virt # "container" /\ UNCHANGED <<info, faults>>
     \/ host.virt = "container" /\ Inject("cgroup") /\ UNCHANGED info
  /\ UNCHANGED <<host, past, phase, profile, listing, shown, changes>>

badgeOf(snapshot) == IF isSnapshotComplete(snapshot) THEN "connected" ELSE "incomplete"

\* gatherNetwork, the end of gatherSystemInfo, and the page's reading of it.
Collect ==
  /\ phase = "survey" /\ open = {}
  /\ LET i == [info EXCEPT !.cores = host.cores, !.ipv4 = host.ipv4, !.ipv6 = host.ipv6,
                           !.dns = IF host.dns THEN "present" ELSE "unknown"]
         snapshot == mapSystemInfoToResourceSnapshot(i)
     IN  /\ info' = i
         /\ shown' = [badge |-> badgeOf(snapshot), profile |-> profile,
                      input |-> [environment |-> mapDetectedEnvironment(i.kind),
                                 snapshot |-> snapshot]]
  /\ phase' = "containers"
  /\ UNCHANGED <<host, past, profile, open, listing, changes, faults>>

\* fetchAgentSnapshot: no agent, an error or 2 s without an answer.
NoAnswer ==
  /\ phase = "survey"
  /\ Inject("silence")
  /\ open' = {} /\ info' = NoInfo
  /\ shown' = [badge |-> "unreachable", profile |-> profile, input |-> DEMO_INPUT]
  /\ phase' = "containers"
  /\ UNCHANGED <<host, past, profile, listing, changes>>

-----------------------------------------------------------------------------
(* gatherDockerInventory, which the page asks for next.                    *)

\* Docker filters by label, and toManagedLabelSet drops what is not managed.
Listed(type) == {r \in host.resources : r.type = type /\ r.managed}

listContainers ==
  /\ phase = "containers"
  /\ \/ /\ host.docker = "running" /\ UNCHANGED faults
        /\ listing' = [status |-> "available", resources |-> Listed("container")]
        /\ open' = {"volume", "network"} /\ phase' = "rest"
     \/ /\ host.docker # "running" /\ UNCHANGED faults
        /\ listing' = [NoListing EXCEPT !.status = "unavailable"]
        /\ UNCHANGED open /\ phase' = "shown"
     \/ /\ host.docker = "running" /\ Inject("listing")
        /\ listing' = [NoListing EXCEPT !.status = "unavailable"]
        /\ UNCHANGED open /\ phase' = "shown"
  /\ UNCHANGED <<host, past, profile, info, shown, changes>>

\* A failed listing of volumes or networks reads as an empty one.
listRest(type) ==
  /\ phase = "rest" /\ End(type)
  /\ \/ /\ host.docker = "running" /\ UNCHANGED faults
        /\ listing' = [listing EXCEPT !.resources = @ \cup Listed(type)]
     \/ host.docker # "running" /\ UNCHANGED <<listing, faults>>
     \/ host.docker = "running" /\ Inject("listing") /\ UNCHANGED listing
  /\ phase' = IF open' = {} THEN "shown" ELSE "rest"
  /\ UNCHANGED <<host, past, profile, info, shown, changes>>

\* fetchDockerInventory gives up: the page shows no inventory.
NoInventory ==
  /\ phase \in {"containers", "rest"}
  /\ Inject("silence")
  /\ listing' = NoListing /\ open' = {} /\ phase' = "shown"
  /\ UNCHANGED <<host, past, profile, info, shown, changes>>

-----------------------------------------------------------------------------
(* The specification.                                                      *)

\* The host is resized, filled, cleaned up, installed on or cut off.
HostChanges ==
  /\ changes < MaxChanges /\ changes' = changes + 1
  /\ host' \in Hosts \ {host}
  /\ past' = IF phase \in {"idle", "shown"} THEN past ELSE past \cup {host'}
  /\ UNCHANGED <<phase, profile, open, info, listing, shown, faults>>

Next ==
  \/ \E p \in Profiles : Ask(p)
  \/ probeDocker \/ probeDockerCompose \/ probeDataPathStorageGb
  \/ runDetectVirt \/ readCgroup \/ Collect \/ NoAnswer
  \/ listContainers \/ \E type \in {"volume", "network"} : listRest(type)
  \/ NoInventory \/ HostChanges

Spec == Init /\ [][Next]_vars

-----------------------------------------------------------------------------
(* Properties.                                                             *)

\* `bytes` are `gb` gigabytes, or short of them by no more than half a tenth.
AtLeast(bytes, gb) == 20 * bytes >= (20 * gb - 1) * GB

\* What a green finding says of the host, for the categories that are surveyed:
\* sizes up to the rounding of toGb, and a container only if the list of
\* classifyVirtualization knows it.
Good(h, c) ==
  CASE c = "environment"   -> h.linux /\ h.virt # "container"
    [] c = "cpu"           -> h.cores >= PROFILE_REQUIREMENTS[shown.profile].cores
    [] c = "ram"           -> AtLeast(h.ram, PROFILE_REQUIREMENTS[shown.profile].ram)
    [] c = "storage"       -> AtLeast(h.storage, PROFILE_REQUIREMENTS[shown.profile].storage)
    [] c = "docker"        -> h.docker # "absent"
    [] c = "dockerCompose" -> h.docker # "absent" /\ h.compose
    [] c = "dns"           -> h.dns
    [] c = "ipStack"       -> h.ipv4
    [] OTHER               -> FALSE

\* What a red finding says of it.
Bad(h, c) ==
  CASE c = "cpu"           -> h.cores < MINIMUM_FLOOR.cores
    [] c = "ram"           -> ~AtLeast(h.ram, MINIMUM_FLOOR.ram)
    [] c = "storage"       -> ~AtLeast(h.storage, MINIMUM_FLOOR.storage)
    [] c = "docker"        -> h.docker = "absent"
    [] c = "dockerCompose" -> h.docker = "absent" \/ ~h.compose
    [] c = "ipStack"       -> ~h.ipv4 /\ ~h.ipv6
    [] OTHER               -> FALSE

\* Whatever fails or changes during the survey, a green finding was true of the
\* host at some moment since the page was asked for, and so was a red one
\* (evaluate.ts:5 "unknown never leads to green", system-info.ts:18 "never
\* wrongly absent"), sizes within half a tenth of a GB and apart from containers
\* the code takes for machines (Good); a page without an answer is never green;
\* and the inventory shows only managed resources that existed meanwhile.
VerdictsAreMeasured ==
  phase = "shown" =>
    /\ IF shown.badge = "unreachable"
       THEN runPreflight(shown.input, shown.profile).overall # "green"
       ELSE LET f == findings(shown.input, shown.profile)
            IN  \A c \in DOMAIN f :
                  /\ f[c] = "green" => \E h \in past : Good(h, c)
                  /\ f[c] = "red"   => \E h \in past : Bad(h, c)
    /\ \A r \in listing.resources : r.managed /\ \E h \in past : r \in h.resources

Known(new, old, field) ==
  IF old[field] = {} \/ new[field] = {} THEN old[field] = new[field]
  ELSE \A v \in old[field], w \in new[field] : w >= v

\* `new` describes a host that is in no respect worse than the one of `old`.
AtLeastAsGood(new, old) ==
  /\ new.environment = old.environment
  /\ \A field \in {"cores", "ram", "storage", "upload", "backupStorage"} :
       Known(new.snapshot, old.snapshot, field)
  /\ \A field \in {"docker", "compose", "firewall", "dns"} :
       new.snapshot[field] \in {old.snapshot[field], "present"}
  /\ \A field \in {"ipv4", "ipv6"} : new.snapshot[field] \in {old.snapshot[field], {TRUE}}

NotWorse(new, old) ==
  /\ ~Worse(new.overall, old.overall)
  /\ \A c \in DOMAIN new.findings : ~Worse(new.findings[c], old.findings[c])
  /\ \A s \in Services : ~Worse(new.services[s], old.services[s])
  /\ new.upgrades \subseteq old.upgrades

\* A host that gained resources or capabilities since the last page and lost
\* none gets no worse verdict in any category, for any service or overall, and
\* no new upgrade is recommended (evaluate.ts, all thresholds together).
MoreIsNeverWorse ==
  [][ /\ shown' # shown /\ shown.badge # "none"
      /\ shown'.profile = shown.profile
      /\ AtLeastAsGood(shown'.input, shown.input)
      => NotWorse(runPreflight(shown.input, shown.profile)',
                  runPreflight(shown.input, shown.profile)) ]_vars

=============================================================================
