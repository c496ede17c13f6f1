------------------------ MODULE SystemCheck_proofs ------------------------
(***************************************************************************)
(* Theorems about SystemCheck, for all hosts, profiles, changes and        *)
(* faults: what the runs show for a few hosts around the thresholds of one *)
(* profile holds for every number of processors, every size of memory and  *)
(* disk and every combination of capabilities.                             *)
(*                                                                         *)
(* The first half is about the evaluation alone, and goes category by      *)
(* category.  The second is the inductive invariant of the survey: each    *)
(* reading was true of the host at some moment since the page was asked    *)
(* for, and that history only grows until the next page.                   *)
(***************************************************************************)
EXTENDS SystemCheck, TLAPS

Severities == {"green", "yellow", "red"}

AllProfiles == {"small", "medium", "large", "expert"}

Statuses == {"present", "absent", "unknown"}

Snapshot ==
  [cores : SUBSET Nat, ram : SUBSET Nat, storage : SUBSET Nat, upload : SUBSET Nat,
   docker : Statuses, compose : Statuses, firewall : Statuses, dns : Statuses,
   ipv4 : SUBSET BOOLEAN, ipv6 : SUBSET BOOLEAN, backupStorage : SUBSET Nat]

Environments == {"proxmox-vm", "proxmox-lxc", "bare-metal", "unknown"}

Input == [environment : Environments, snapshot : Snapshot]

Categories ==
  {"environment", "cpu", "ram", "storage", "network", "docker", "dockerCompose", "firewall",
   "dns", "ipStack", "backupStorage"}

USE SystemCheckAssumption

-----------------------------------------------------------------------------
(* The evaluation.                                                         *)

LEMMA Ranks ==
  /\ \A s, t \in Severities : Worse(s, t) <=> \/ s = "yellow" /\ t = "green"
                                              \/ s = "red" /\ t # "red"
BY DEF Worse, Rank, Severities

\* The worst of a set is one of it, or green, and none of it is worse.
LEMMA WorstIsWorst ==
  ASSUME NEW S \in SUBSET Severities
  PROVE  /\ worstSeverity(S) \in S \cup {"green"}
         /\ \A t \in S : ~Worse(t, worstSeverity(S))
<1>1. \E s \in S \cup {"green"} : \A t \in S \cup {"green"} : ~Worse(t, s)
  <2>1. CASE "red" \in S
    BY <2>1, Ranks DEF Severities
  <2>2. CASE "red" \notin S /\ "yellow" \in S
    BY <2>2, Ranks DEF Severities
  <2>3. CASE "red" \notin S /\ "yellow" \notin S
    BY <2>3, Ranks DEF Severities
  <2> QED BY <2>1, <2>2, <2>3
<1>2. /\ worstSeverity(S) \in S \cup {"green"}
      /\ \A t \in S \cup {"green"} : ~Worse(t, worstSeverity(S))
  BY <1>1 DEF worstSeverity
<1> QED BY <1>2

\* An optional number that is known in both hosts or in neither, and not smaller.
Grown(new, old) ==
  IF old = {} \/ new = {} THEN old = new ELSE \A v \in old, w \in new : w >= v

LEMMA GradeMonotone ==
  ASSUME NEW old \in SUBSET Nat, NEW new \in SUBSET Nat, Grown(new, old),
         NEW greenMin \in Nat, NEW yellowMin \in Nat
  PROVE  /\ gradeAtLeast(old, greenMin, yellowMin) \in Severities
         /\ gradeAtLeast(new, greenMin, yellowMin) \in Severities
         /\ ~Worse(gradeAtLeast(new, greenMin, yellowMin), gradeAtLeast(old, greenMin, yellowMin))
<1>1. /\ gradeAtLeast(old, greenMin, yellowMin) \in Severities
      /\ gradeAtLeast(new, greenMin, yellowMin) \in Severities
  BY DEF gradeAtLeast, Severities
<1>2. CASE old = {} \/ new = {}
  BY <1>1, <1>2, Ranks DEF Grown
<1>3. CASE old # {} /\ new # {}
  <2>1. PICK v \in old : TRUE
    BY <1>3
  <2>2. \A w \in new : w >= v /\ w \in Nat /\ v \in Nat
    BY <1>3, <2>1 DEF Grown
  <2>3. ASSUME NEW bound \in Nat, \A u \in old : u >= bound PROVE \A w \in new : w >= bound
    BY <2>1, <2>2, <2>3
  <2> QED BY <1>1, <1>3, <2>3, Ranks DEF gradeAtLeast
<1> QED BY <1>2, <1>3

LEMMA Requirements ==
  ASSUME NEW p \in AllProfiles, NEW field \in {"cores", "ram", "storage"}
  PROVE  PROFILE_REQUIREMENTS[p][field] \in Nat /\ MINIMUM_FLOOR[field] \in Nat
BY DEF PROFILE_REQUIREMENTS, MINIMUM_FLOOR, AllProfiles

LEMMA Thresholds ==
  ASSUME NEW p \in AllProfiles, NEW field \in {"cores", "ram", "storage"}
  PROVE  /\ Threshold(field, PROFILE_REQUIREMENTS[p][field]) \in Nat
         /\ Threshold(field, MINIMUM_FLOOR[field]) \in Nat
BY Requirements DEF Threshold

LEMMA CapabilityMonotone ==
  ASSUME NEW old \in Statuses, NEW new \in {old, "present"}, NEW critical \in BOOLEAN
  PROVE  /\ evaluateCapability(old, critical) \in Severities
         /\ evaluateCapability(new, critical) \in Severities
         /\ ~Worse(evaluateCapability(new, critical), evaluateCapability(old, critical))
<1>1. /\ evaluateCapability(old, critical) \in Severities
      /\ evaluateCapability(new, critical) \in Severities
  BY DEF evaluateCapability, Severities
<1> QED BY <1>1, Ranks DEF evaluateCapability

LEMMA IpStackMonotone ==
  ASSUME NEW old \in Snapshot, NEW new \in Snapshot,
         new.ipv4 \in {old.ipv4, {TRUE}}, new.ipv6 \in {old.ipv6, {TRUE}}
  PROVE  /\ evaluateIpStack(old) \in Severities
         /\ evaluateIpStack(new) \in Severities
         /\ ~Worse(evaluateIpStack(new), evaluateIpStack(old))
<1>1. evaluateIpStack(old) \in Severities /\ evaluateIpStack(new) \in Severities
  BY DEF evaluateIpStack, Severities
<1>2. {TRUE} # {}
  OBVIOUS
<1>3. CASE new.ipv4 = {TRUE}
  <2>1. evaluateIpStack(new) = "green"
    BY <1>2, <1>3 DEF evaluateIpStack
  <2> QED BY <1>1, <2>1, Ranks
<1>4. CASE new.ipv4 # {TRUE} /\ new.ipv6 = {TRUE}
  <2>1. evaluateIpStack(new) = "yellow" /\ old.ipv4 # {TRUE}
    BY <1>2, <1>4 DEF evaluateIpStack
  <2>2. evaluateIpStack(old) # "green"
    BY <2>1 DEF evaluateIpStack
  <2> QED BY <1>1, <2>1, <2>2, Ranks DEF Severities
<1>5. CASE new.ipv4 # {TRUE} /\ new.ipv6 # {TRUE}
  <2>1. new.ipv4 = old.ipv4 /\ new.ipv6 = old.ipv6
    BY <1>5
  <2>2. evaluateIpStack(new) = evaluateIpStack(old)
    BY <2>1 DEF evaluateIpStack
  <2> QED BY <1>1, <2>2, Ranks
<1> QED BY <1>3, <1>4, <1>5

LEMMA ServiceMonotone ==
  ASSUME NEW old \in Snapshot, NEW new \in Snapshot,
         Grown(new.ram, old.ram), Grown(new.cores, old.cores), NEW s \in Services
  PROVE  ~Worse(gradeService(new, s), gradeService(old, s))
<1> DEFINE req == SERVICE_REQUIREMENTS[s]
<1>1. req.ramGreen \in Nat /\ req.coresGreen \in Nat /\ req.ramYellow \in Nat
  BY DEF SERVICE_REQUIREMENTS
<1> HIDE DEF req
<1>2. /\ gradeService(old, s) \in Severities
      /\ gradeService(new, s) \in Severities
  BY DEF gradeService, Severities
<1>3. CASE old.ram = {} \/ new.ram = {} \/ old.cores = {} \/ new.cores = {}
  <2>1. gradeService(old, s) = "yellow" /\ gradeService(new, s) = "yellow"
    BY <1>3 DEF Grown, gradeService
  <2> QED BY <1>2, <2>1, Ranks
<1>4. CASE old.ram # {} /\ new.ram # {} /\ old.cores # {} /\ new.cores # {}
  <2>1. PICK r \in old.ram, c \in old.cores : TRUE
    BY <1>4
  <2>2. /\ \A w \in new.ram : w >= r /\ w \in Nat /\ r \in Nat
        /\ \A w \in new.cores : w >= c /\ w \in Nat /\ c \in Nat
    BY <1>4, <2>1 DEF Grown, Snapshot
  <2>3. ASSUME NEW bound \in Nat
        PROVE  /\ (\A u \in old.ram : u >= 10 * bound) => (\A w \in new.ram : w >= 10 * bound)
               /\ (\A u \in old.cores : u >= bound) => (\A w \in new.cores : w >= bound)
    BY <2>1, <2>2, <2>3
  <2>4. gradeService(old, s) = "green" => gradeService(new, s) = "green"
    BY <1>1, <1>4, <2>3 DEF gradeService, req
  <2>5. gradeService(old, s) = "yellow" => gradeService(new, s) \in {"green", "yellow"}
    BY <1>1, <1>4, <2>3 DEF gradeService, req
  <2> QED BY <1>2, <2>4, <2>5, Ranks DEF Severities
<1> QED BY <1>3, <1>4

\* All categories together.
LEMMA FindingsMonotone ==
  ASSUME NEW old \in Input, NEW new \in Input, NEW p \in AllProfiles, AtLeastAsGood(new, old)
  PROVE  /\ DOMAIN findings(new, p) = Categories
         /\ \A c \in Categories : /\ findings(old, p)[c] \in Severities
                                  /\ findings(new, p)[c] \in Severities
                                  /\ ~Worse(findings(new, p)[c], findings(old, p)[c])
<1> DEFINE a == old.snapshot
           b == new.snapshot
<1>1. a \in Snapshot /\ b \in Snapshot
  BY DEF Input
<1>2. \A field \in {"cores", "ram", "storage", "upload", "backupStorage"} :
        a[field] \in SUBSET Nat /\ b[field] \in SUBSET Nat /\ Grown(b[field], a[field])
  BY <1>1 DEF AtLeastAsGood, Known, Grown, Snapshot
<1>3. \A field \in {"docker", "compose", "firewall", "dns"} :
        a[field] \in Statuses /\ b[field] \in {a[field], "present"}
  BY <1>1 DEF AtLeastAsGood, Snapshot
<1>4. b.ipv4 \in {a.ipv4, {TRUE}} /\ b.ipv6 \in {a.ipv6, {TRUE}} /\ new.environment = old.environment
  BY DEF AtLeastAsGood
<1> HIDE DEF a, b
<1>5. ASSUME NEW field \in {"cores", "ram", "storage"}
      PROVE  /\ evaluateResource(a, p, field) \in Severities
             /\ evaluateResource(b, p, field) \in Severities
             /\ ~Worse(evaluateResource(b, p, field), evaluateResource(a, p, field))
  BY <1>2, Thresholds, GradeMonotone DEF evaluateResource
<1>6. /\ evaluateNetwork(a) \in Severities /\ evaluateNetwork(b) \in Severities
      /\ ~Worse(evaluateNetwork(b), evaluateNetwork(a))
  BY <1>2, GradeMonotone DEF evaluateNetwork
<1>7. /\ evaluateBackupStorage(a) \in Severities /\ evaluateBackupStorage(b) \in Severities
      /\ ~Worse(evaluateBackupStorage(b), evaluateBackupStorage(a))
  <2> DEFINE greens == 10 * 20
             yellows == 10 * 5
  <2>1. /\ greens \in Nat /\ yellows \in Nat
        /\ evaluateBackupStorage(a) = gradeAtLeast(a.backupStorage, greens, yellows)
        /\ evaluateBackupStorage(b) = gradeAtLeast(b.backupStorage, greens, yellows)
    BY DEF evaluateBackupStorage
  <2> HIDE DEF greens, yellows
  <2> QED BY <1>2, <2>1, GradeMonotone
<1>8. ASSUME NEW field \in {"docker", "compose", "firewall", "dns"}, NEW critical \in BOOLEAN
      PROVE  /\ evaluateCapability(a[field], critical) \in Severities
             /\ evaluateCapability(b[field], critical) \in Severities
             /\ ~Worse(evaluateCapability(b[field], critical), evaluateCapability(a[field], critical))
  BY <1>3, CapabilityMonotone
<1>9. /\ evaluateIpStack(a) \in Severities /\ evaluateIpStack(b) \in Severities
      /\ ~Worse(evaluateIpStack(b), evaluateIpStack(a))
  BY <1>1, <1>4, IpStackMonotone
<1>10. /\ evaluateEnvironment(old.environment) \in Severities
       /\ evaluateEnvironment(new.environment) \in Severities
       /\ ~Worse(evaluateEnvironment(new.environment), evaluateEnvironment(old.environment))
  BY <1>4, Ranks DEF evaluateEnvironment, Severities
<1>11. DOMAIN findings(new, p) = Categories
  BY DEF findings, Categories
<1>12. ASSUME NEW c \in Categories
       PROVE  /\ findings(old, p)[c] \in Severities
              /\ findings(new, p)[c] \in Severities
              /\ ~Worse(findings(new, p)[c], findings(old, p)[c])
  <2>1. CASE c \in {"environment", "network", "ipStack", "backupStorage"}
    BY <1>6, <1>7, <1>9, <1>10, <2>1 DEF findings, a, b
  <2>2. CASE c \in {"cpu", "ram", "storage"}
    BY <1>5, <2>2 DEF findings, a, b
  <2>3. CASE c \in {"docker", "dockerCompose", "firewall", "dns"}
    <3>1. CASE c = "docker"
      BY <1>8, <3>1 DEF findings, a, b
    <3>2. CASE c = "dockerCompose"
      BY <1>8, <3>2 DEF findings, a, b
    <3>3. CASE c = "firewall"
      BY <1>8, <3>3 DEF findings, a, b
    <3>4. CASE c = "dns"
      BY <1>8, <3>4 DEF findings, a, b
    <3> QED BY <2>3, <3>1, <3>2, <3>3, <3>4
  <2> QED BY <2>1, <2>2, <2>3 DEF Categories
<1> QED BY <1>11, <1>12

LEMMA PreflightMonotone ==
  ASSUME NEW old \in Input, NEW new \in Input, NEW p \in AllProfiles, AtLeastAsGood(new, old)
  PROVE  NotWorse(runPreflight(new, p), runPreflight(old, p))
<1> DEFINE f == findings(old, p)
           g == findings(new, p)
<1>1. /\ DOMAIN g = Categories
      /\ \A c \in Categories : /\ f[c] \in Severities /\ g[c] \in Severities
                               /\ ~Worse(g[c], f[c])
  BY FindingsMonotone
<1>2. DOMAIN f = Categories
  BY DEF findings, Categories
<1>3. \A s \in Services : ~Worse(gradeService(new.snapshot, s), gradeService(old.snapshot, s))
  <2>1. /\ old.snapshot \in Snapshot /\ new.snapshot \in Snapshot
        /\ Grown(new.snapshot.ram, old.snapshot.ram)
        /\ Grown(new.snapshot.cores, old.snapshot.cores)
    BY DEF Input, AtLeastAsGood, Known, Grown
  <2> QED BY <2>1, ServiceMonotone
<1>4. buildUpgrades(new, p) \subseteq buildUpgrades(old, p)
  <2>1. \A c \in {"cpu", "ram", "storage", "network", "backupStorage"} :
          g[c] # "green" => f[c] # "green"
    BY <1>1, Ranks DEF Categories, Severities
  <2>2. /\ new.snapshot.docker = "absent" => old.snapshot.docker = "absent"
        /\ new.snapshot.compose = "absent" => old.snapshot.compose = "absent"
        /\ new.environment = old.environment
    BY DEF AtLeastAsGood
  <2> QED BY <2>1, <2>2 DEF buildUpgrades
<1>5. ~Worse(worstSeverity({g[c] : c \in DOMAIN g}), worstSeverity({f[c] : c \in DOMAIN f}))
  <2> DEFINE S == {f[c] : c \in DOMAIN f}
             T == {g[c] : c \in DOMAIN g}
  <2>1. S \in SUBSET Severities /\ T \in SUBSET Severities
    BY <1>1, <1>2
  <2>2. \A t \in T : \E c \in Categories : t = g[c]
    BY <1>1
  <2>3. \A c \in Categories : f[c] \in S
    BY <1>2
  <2> HIDE DEF f, g, S, T
  <2>4. /\ worstSeverity(S) \in Severities /\ worstSeverity(T) \in Severities
        /\ worstSeverity(T) \in T \cup {"green"} /\ \A t \in S : ~Worse(t, worstSeverity(S))
    BY <2>1, WorstIsWorst DEF Severities
  <2>5. ASSUME worstSeverity(T) = "green" PROVE ~Worse(worstSeverity(T), worstSeverity(S))
    BY <2>4, <2>5, Ranks
  <2>6. ASSUME worstSeverity(T) \in T PROVE ~Worse(worstSeverity(T), worstSeverity(S))
    <3>1. PICK c \in Categories : worstSeverity(T) = g[c]
      BY <2>2, <2>6
    <3>2. f[c] \in Severities /\ g[c] \in Severities /\ ~Worse(g[c], f[c]) /\ ~Worse(f[c], worstSeverity(S))
      BY <1>1, <2>3, <2>4
    <3> QED BY <2>4, <3>1, <3>2, Ranks DEF Severities
  <2>7. ~Worse(worstSeverity(T), worstSeverity(S))
    BY <2>4, <2>5, <2>6
  <2> QED BY <2>7 DEF S, T
<1> HIDE DEF f, g
<1>6. /\ runPreflight(new, p).overall = worstSeverity({g[c] : c \in DOMAIN g})
      /\ runPreflight(old, p).overall = worstSeverity({f[c] : c \in DOMAIN f})
      /\ runPreflight(new, p).findings = g /\ runPreflight(old, p).findings = f
      /\ runPreflight(new, p).upgrades = buildUpgrades(new, p)
      /\ runPreflight(old, p).upgrades = buildUpgrades(old, p)
      /\ \A s \in Services :
           /\ runPreflight(new, p).services[s] = gradeService(new.snapshot, s)
           /\ runPreflight(old, p).services[s] = gradeService(old.snapshot, s)
  BY DEF runPreflight, f, g
<1> QED BY <1>1, <1>3, <1>4, <1>5, <1>6 DEF NotWorse

-----------------------------------------------------------------------------
(* The survey.                                                             *)

\* The rounding of sizes: n tenths of a GB are n * GB \div 10 bytes, or up to
\* half a tenth less.
LEMMA Rounded ==
  ASSUME NEW bytes \in Nat
  PROVE  /\ toGb(bytes) \in Nat
         /\ \A n \in Nat : toGb(bytes) >= n <=> 20 * bytes + GB >= n * (2 * GB)
<1> DEFINE x == 20 * bytes + GB
           d == 2 * GB
           q == x \div d
<1>1. x \in Nat /\ d \in Nat /\ d > 0
  OBVIOUS
<1> HIDE DEF x, d
<1>2. q \in Nat /\ q * d <= x /\ x < (q + 1) * d
  BY <1>1, Z3
<1> HIDE DEF q
<1>3. ASSUME NEW n \in Nat PROVE q >= n <=> x >= n * d
  <2>1. CASE q >= n
    <3>1. q * d >= n * d
      BY <1>1, <1>2, <2>1, Z3
    <3>2. q * d \in Nat /\ n * d \in Nat
      BY <1>1, <1>2, Z3
    <3> QED BY <1>1, <1>2, <2>1, <3>1, <3>2
  <2>2. CASE n >= q + 1
    <3>1. n * d >= (q + 1) * d
      BY <1>1, <1>2, <2>2, Z3
    <3>2. (q + 1) * d \in Nat /\ n * d \in Nat
      BY <1>1, <1>2, Z3
    <3> QED BY <1>1, <1>2, <2>2, <3>1, <3>2
  <2> QED BY <1>2, <2>1, <2>2
<1> QED BY <1>2, <1>3 DEF toGb, q, x, d

LEMMA RoundedAtLeast ==
  ASSUME NEW bytes \in Nat, NEW gb \in Nat
  PROVE  toGb(bytes) >= 10 * gb <=> AtLeast(bytes, gb)
<1> DEFINE product == gb * GB
<1>1. /\ product \in Nat
      /\ (10 * gb) * (2 * GB) = 20 * product
      /\ (20 * gb - 1) * GB = 20 * product - GB
  BY Z3
<1>2. toGb(bytes) >= 10 * gb <=> 20 * bytes + GB >= (10 * gb) * (2 * GB)
  BY Rounded
<1> HIDE DEF product
<1> QED BY <1>1, <1>2 DEF AtLeast

Info ==
  [cores : Nat, ram : Nat, storage : SUBSET Nat, docker : {"present", "unknown"},
   compose : {"present", "unknown"}, ipv4 : BOOLEAN, ipv6 : BOOLEAN,
   dns : {"present", "unknown"}, kind : Kinds \cup {"unknown"}]

Page ==
  [badge : {"none", "connected", "incomplete", "unreachable"}, profile : AllProfiles, input : Input]

TypeInv ==
  /\ host \in Hosts /\ past \subseteq Hosts
  /\ phase \in {"idle", "survey", "containers", "rest", "shown"}
  /\ profile \in AllProfiles
  /\ info \in Info
  /\ shown \in Page
  /\ phase \in {"survey", "containers", "rest"} => host \in past

\* What was read so far was true of some host since the page was asked for.
SurveyInv ==
  phase = "survey" =>
    /\ listing = NoListing
    /\ \E h \in past : info.ram = toGb(h.ram)
    /\ info.docker = "present" => \E h \in past : h.docker # "absent"
    /\ info.compose = "present" => \E h \in past : h.docker # "absent" /\ h.compose
    /\ info.storage # {} => \E h \in past : info.storage = {toGb(h.storage)}
    /\ info.kind \in {"vm", "bare-metal"} => \E h \in past : h.linux /\ h.virt # "container"

PageMeasured ==
  IF shown.badge = "unreachable"
  THEN runPreflight(shown.input, shown.profile).overall # "green"
  ELSE LET f == findings(shown.input, shown.profile)
       IN  \A c \in DOMAIN f :
             /\ f[c] = "green" => \E h \in past : Good(h, c)
             /\ f[c] = "red"   => \E h \in past : Bad(h, c)

ListingMeasured == \A r \in listing.resources : r.managed /\ \E h \in past : r \in h.resources

PageInv == phase \in {"containers", "rest", "shown"} => PageMeasured /\ ListingMeasured

Inv == TypeInv /\ SurveyInv /\ PageInv

LEMMA InitInv == Init => Inv
<1> SUFFICES ASSUME Init PROVE Inv
  OBVIOUS
<1>1. DEMO_INPUT \in Input
  BY DEF DEMO_INPUT, Input, Environments, Snapshot, Statuses
<1>2. NoInfo \in Info /\ NoPage \in Page
  BY <1>1 DEF NoInfo, Info, NoPage, Page, AllProfiles
<1>3. TypeInv
  BY <1>2 DEF Init, TypeInv, AllProfiles
<1> QED BY <1>3 DEF Init, Inv, SurveyInv, PageInv

\* The history of a survey grows with the host.
LEMMA PastGrows ==
  ASSUME past \subseteq past', UNCHANGED <<shown, listing>>
  PROVE  /\ PageMeasured => PageMeasured'
         /\ ListingMeasured => ListingMeasured'
BY DEF PageMeasured, ListingMeasured, Good, Bad

LEMMA SurveyGrows ==
  ASSUME SurveyInv, past \subseteq past', UNCHANGED <<phase, info, listing>>
  PROVE  SurveyInv'
BY DEF SurveyInv

LEMMA HostFields ==
  ASSUME NEW h \in Hosts
  PROVE  /\ h.cores \in Nat /\ h.ram \in Nat /\ h.storage \in Nat /\ h.ipv4 \in BOOLEAN
         /\ h.ipv6 \in BOOLEAN /\ h.dns \in BOOLEAN /\ h.virt \in Virts /\ h.linux \in BOOLEAN
         /\ toGb(h.ram) \in Nat /\ toGb(h.storage) \in Nat
BY Rounded DEF Host

LEMMA AskInv == ASSUME NEW p \in Profiles PROVE Inv /\ Ask(p) => Inv'
<1> SUFFICES ASSUME Inv, Ask(p) PROVE Inv'
  OBVIOUS
<1>1. /\ info' = [NoInfo EXCEPT !.ram = toGb(host.ram)] /\ past' = {host} /\ host' = host
      /\ phase' = "survey" /\ profile' = p /\ shown' = shown /\ host \in Hosts
      /\ listing' = NoListing
  BY DEF Ask, Inv, TypeInv
<1>2. NoInfo \in Info /\ toGb(host.ram) \in Nat
  BY <1>1, HostFields DEF NoInfo, Info
<1>3. info' \in Info /\ info'.ram = toGb(host.ram) /\ info'.docker = "unknown" /\ info'.compose = "unknown"
      /\ info'.storage = {} /\ info'.kind = "unknown"
  BY <1>1, <1>2 DEF NoInfo, Info
<1>4. TypeInv'
  BY <1>1, <1>3 DEF Inv, TypeInv, AllProfiles
<1>5. SurveyInv' /\ PageInv'
  BY <1>1, <1>3 DEF SurveyInv, PageInv
<1> QED BY <1>4, <1>5 DEF Inv

\* One probe ends, with one field of the agent's answer.
LEMMA ProbesInv ==
  ASSUME Inv, probeDocker \/ probeDockerCompose \/ probeDataPathStorageGb
                \/ runDetectVirt \/ readCgroup
  PROVE  Inv'
<1>1. /\ phase = "survey" /\ UNCHANGED <<host, past, phase, profile, listing, shown>>
      /\ host \in Hosts /\ host \in past /\ info \in Info
  BY DEF probeDocker, probeDockerCompose, runVersion, probeDataPathStorageGb, runDetectVirt,
         readCgroup, Inv, TypeInv
<1>2. \/ info' = info
      \/ info' = [info EXCEPT !.docker = "present"] /\ host.docker # "absent"
      \/ info' = [info EXCEPT !.compose = "present"] /\ host.docker # "absent" /\ host.compose
      \/ info' = [info EXCEPT !.storage = {toGb(host.storage)}]
      \/ info' = [info EXCEPT !.kind = IF host.linux THEN classifyVirtualization(host.virt)
                                                     ELSE "unknown"]
      \/ info' = [info EXCEPT !.kind = "container"]
  <2>1. CASE probeDocker
    BY <2>1 DEF probeDocker, runVersion
  <2>2. CASE probeDockerCompose
    BY <2>2 DEF probeDockerCompose, runVersion
  <2>3. CASE probeDataPathStorageGb
    BY <2>3 DEF probeDataPathStorageGb
  <2>4. CASE runDetectVirt
    BY <2>4 DEF runDetectVirt
  <2>5. CASE readCgroup
    BY <2>5 DEF readCgroup
  <2> QED BY <2>1, <2>2, <2>3, <2>4, <2>5
<1>3. /\ toGb(host.storage) \in Nat /\ host.virt \in Virts /\ host.linux \in BOOLEAN
      /\ classifyVirtualization(host.virt) \in Kinds
      /\ host.virt = "container" => classifyVirtualization(host.virt) = "container"
  BY <1>1, HostFields DEF classifyVirtualization, Kinds
<1>4. info' \in Info
  BY <1>1, <1>2, <1>3 DEF Info, Kinds
<1>5. TypeInv'
  BY <1>1, <1>4 DEF Inv, TypeInv
<1>6. SurveyInv'
  <2>1. CASE info' = info
    BY <1>1, <2>1, SurveyGrows DEF Inv
  <2>2. CASE info' = [info EXCEPT !.docker = "present"] /\ host.docker # "absent"
    BY <1>1, <2>2 DEF Inv, SurveyInv, Info
  <2>3. CASE info' = [info EXCEPT !.compose = "present"] /\ host.docker # "absent" /\ host.compose
    BY <1>1, <2>3 DEF Inv, SurveyInv, Info
  <2>4. CASE info' = [info EXCEPT !.storage = {toGb(host.storage)}]
    BY <1>1, <2>4 DEF Inv, SurveyInv, Info
  <2>5. CASE info' = [info EXCEPT !.kind = IF host.linux THEN classifyVirtualization(host.virt)
                                                         ELSE "unknown"]
    BY <1>1, <1>3, <2>5 DEF Inv, SurveyInv, Info
  <2>6. CASE info' = [info EXCEPT !.kind = "container"]
    BY <1>1, <2>6 DEF Inv, SurveyInv, Info
  <2> QED BY <1>2, <2>1, <2>2, <2>3, <2>4, <2>5, <2>6
<1>7. PageInv'
  BY <1>1 DEF PageInv
<1> QED BY <1>5, <1>6, <1>7 DEF Inv

LEMMA SingleGrade ==
  ASSUME NEW v \in Nat, NEW greenMin \in Nat, NEW yellowMin \in Nat
  PROVE  /\ gradeAtLeast({v}, greenMin, yellowMin) = "green" => v >= greenMin
         /\ gradeAtLeast({v}, greenMin, yellowMin) = "red" => v < yellowMin
BY DEF gradeAtLeast

\* A size is graded by its tenths of a GB.
LEMMA ScaledGrade ==
  ASSUME NEW bytes \in Nat, NEW greenMin \in Nat, NEW yellowMin \in Nat
  PROVE  LET g == gradeAtLeast({toGb(bytes)}, 10 * greenMin, 10 * yellowMin)
         IN  /\ g = "green" => AtLeast(bytes, greenMin)
             /\ g = "red" => ~AtLeast(bytes, yellowMin)
<1>1. toGb(bytes) \in Nat
  BY Rounded
<1>2. /\ toGb(bytes) >= 10 * greenMin <=> AtLeast(bytes, greenMin)
      /\ toGb(bytes) >= 10 * yellowMin <=> AtLeast(bytes, yellowMin)
  BY RoundedAtLeast
<1> DEFINE v == toGb(bytes)
           greens == 10 * greenMin
           yellows == 10 * yellowMin
<1>3. v \in Nat /\ greens \in Nat /\ yellows \in Nat
  BY <1>1
<1> HIDE DEF v, greens, yellows
<1>4. /\ gradeAtLeast({v}, greens, yellows) = "green" => v >= greens
      /\ gradeAtLeast({v}, greens, yellows) = "red" => v < yellows
  BY <1>3, SingleGrade
<1>5. v < yellows => ~(v >= yellows)
  BY <1>3
<1> QED BY <1>2, <1>4, <1>5 DEF v, greens, yellows

\* The input the page makes of an answer.
LEMMA CollectedInput ==
  ASSUME NEW i \in Info
  PROVE  [environment |-> mapDetectedEnvironment(i.kind),
          snapshot |-> mapSystemInfoToResourceSnapshot(i)] \in Input
<1>1. mapDetectedEnvironment(i.kind) \in Environments
  BY DEF mapDetectedEnvironment, Environments
<1>2. mapSystemInfoToResourceSnapshot(i) \in Snapshot
  BY DEF mapSystemInfoToResourceSnapshot, Snapshot, Info, Statuses
<1> QED BY <1>1, <1>2 DEF Input

LEMMA CollectInv == ASSUME Inv, Collect PROVE Inv'
<1> DEFINE i == [info EXCEPT !.cores = host.cores, !.ipv4 = host.ipv4, !.ipv6 = host.ipv6,
                             !.dns = IF host.dns THEN "present" ELSE "unknown"]
           s == mapSystemInfoToResourceSnapshot(i)
           e == mapDetectedEnvironment(i.kind)
           f == findings([environment |-> e, snapshot |-> s], profile)
<1>1. /\ phase = "survey" /\ UNCHANGED <<host, past, profile, listing>> /\ info' = i
      /\ phase' = "containers"
      /\ shown' = [badge |-> badgeOf(s), profile |-> profile,
                   input |-> [environment |-> e, snapshot |-> s]]
  BY DEF Collect
<1>2. /\ host \in Hosts /\ host \in past /\ past \subseteq Hosts /\ info \in Info
      /\ profile \in AllProfiles
  BY <1>1 DEF Inv, TypeInv
<1>3. /\ host.cores \in Nat /\ host.ipv4 \in BOOLEAN /\ host.ipv6 \in BOOLEAN /\ host.dns \in BOOLEAN
  BY <1>2, HostFields
<1>4. /\ i \in Info /\ i.cores = host.cores /\ i.ipv4 = host.ipv4 /\ i.ipv6 = host.ipv6
      /\ i.dns = (IF host.dns THEN "present" ELSE "unknown")
      /\ i.ram = info.ram /\ i.storage = info.storage /\ i.docker = info.docker
      /\ i.compose = info.compose /\ i.kind = info.kind
  BY <1>2, <1>3 DEF Info
<1> HIDE DEF i
<1>5. [environment |-> e, snapshot |-> s] \in Input
  BY <1>4, CollectedInput
<1>6. badgeOf(s) \in {"connected", "incomplete"}
  BY DEF badgeOf
<1>7. /\ s.cores = {host.cores} /\ s.ram = {info.ram} /\ s.storage = info.storage
      /\ s.upload = {} /\ s.backupStorage = {} /\ s.firewall = "unknown"
      /\ s.docker = info.docker /\ s.compose = info.compose
      /\ s.dns = (IF host.dns THEN "present" ELSE "unknown")
      /\ s.ipv4 = {host.ipv4} /\ s.ipv6 = {host.ipv6}
  BY <1>4 DEF mapSystemInfoToResourceSnapshot
<1>8. e = mapDetectedEnvironment(info.kind)
  BY <1>4
<1> HIDE DEF s, e
<1>9. shown' \in Page
  BY <1>1, <1>2, <1>5, <1>6 DEF Page
<1>10. TypeInv'
  BY <1>1, <1>2, <1>4, <1>9 DEF TypeInv
<1>11. DOMAIN f = Categories
  BY DEF findings, Categories
<1>12. ASSUME NEW c \in Categories
       PROVE  /\ f[c] = "green" => \E h \in past : Good(h, c)'
              /\ f[c] = "red"   => \E h \in past : Bad(h, c)'
  <2>1. shown'.profile = profile
    BY <1>1
  <2>2. CASE c = "environment"
    <3>1. f[c] = evaluateEnvironment(e)
      BY <2>2 DEF findings
    <3>2. f[c] # "red" /\ (f[c] = "green" => info.kind \in {"vm", "bare-metal"})
      BY <1>2, <1>8, <3>1 DEF evaluateEnvironment, mapDetectedEnvironment
    <3>3. f[c] = "green" => \E h \in past : h.linux /\ h.virt # "container"
      BY <1>1, <3>2 DEF Inv, SurveyInv
    <3> QED BY <2>2, <3>2, <3>3 DEF Good
  <2>3. CASE c = "cpu"
    <3>1. f[c] = gradeAtLeast({host.cores}, PROFILE_REQUIREMENTS[profile].cores, MINIMUM_FLOOR.cores)
      BY <1>7, <2>3 DEF findings, evaluateResource, Threshold
    <3>2. /\ PROFILE_REQUIREMENTS[profile].cores \in Nat /\ MINIMUM_FLOOR.cores \in Nat
      BY <1>2, Requirements
    <3>3. /\ f[c] = "green" => host.cores >= PROFILE_REQUIREMENTS[profile].cores
          /\ f[c] = "red" => host.cores < MINIMUM_FLOOR.cores
      BY <1>3, <3>1, <3>2, SingleGrade
    <3> QED BY <1>2, <2>1, <2>3, <3>3 DEF Good, Bad
  <2>4. CASE c = "ram"
    <3>1. PICK h \in past : info.ram = toGb(h.ram)
      BY <1>1 DEF Inv, SurveyInv
    <3>2. f[c] = gradeAtLeast({toGb(h.ram)}, 10 * PROFILE_REQUIREMENTS[profile].ram,
                                10 * MINIMUM_FLOOR.ram)
      BY <1>7, <2>4, <3>1 DEF findings, evaluateResource, Threshold
    <3>3. /\ PROFILE_REQUIREMENTS[profile].ram \in Nat /\ MINIMUM_FLOOR.ram \in Nat
          /\ h.ram \in Nat /\ toGb(h.ram) \in Nat
      BY <1>2, Requirements, HostFields
    <3>4. /\ f[c] = "green" => AtLeast(h.ram, PROFILE_REQUIREMENTS[profile].ram)
          /\ f[c] = "red" => ~AtLeast(h.ram, MINIMUM_FLOOR.ram)
      BY <3>2, <3>3, ScaledGrade
    <3> QED BY <2>1, <2>4, <3>4 DEF Good, Bad
  <2>5. CASE c = "storage"
    <3>1. f[c] = gradeAtLeast(info.storage, 10 * PROFILE_REQUIREMENTS[profile].storage,
                                10 * MINIMUM_FLOOR.storage)
      BY <1>7, <2>5 DEF findings, evaluateResource, Threshold
    <3>2. CASE info.storage = {}
      BY <3>1, <3>2 DEF gradeAtLeast
    <3>3. CASE info.storage # {}
      <4>1. PICK h \in past : info.storage = {toGb(h.storage)}
        BY <1>1, <3>3 DEF Inv, SurveyInv
      <4>2. /\ PROFILE_REQUIREMENTS[profile].storage \in Nat /\ MINIMUM_FLOOR.storage \in Nat
            /\ h.storage \in Nat /\ toGb(h.storage) \in Nat
        BY <1>2, Requirements, HostFields
      <4>3. /\ f[c] = "green" => AtLeast(h.storage, PROFILE_REQUIREMENTS[profile].storage)
            /\ f[c] = "red" => ~AtLeast(h.storage, MINIMUM_FLOOR.storage)
        BY <3>1, <4>1, <4>2, ScaledGrade
      <4> QED BY <2>1, <2>5, <4>3 DEF Good, Bad
    <3> QED BY <3>2, <3>3
  <2>6. CASE c \in {"network", "firewall", "backupStorage"}
    <3>1. f[c] = "yellow"
      BY <1>7, <2>6 DEF findings, evaluateNetwork, evaluateBackupStorage, gradeAtLeast, evaluateCapability
    <3> QED BY <3>1
  <2>7. CASE c = "docker"
    <3>1. f[c] = evaluateCapability(info.docker, TRUE)
      BY <1>7, <2>7 DEF findings
    <3>2. f[c] # "red" /\ (f[c] = "green" => \E h \in past : h.docker # "absent")
      BY <1>1, <1>2, <3>1 DEF evaluateCapability, Inv, SurveyInv, Info
    <3> QED BY <2>7, <3>2 DEF Good
  <2>8. CASE c = "dockerCompose"
    <3>1. f[c] = evaluateCapability(info.compose, TRUE)
      BY <1>7, <2>8 DEF findings
    <3>2. f[c] # "red" /\ (f[c] = "green" => \E h \in past : h.docker # "absent" /\ h.compose)
      BY <1>1, <1>2, <3>1 DEF evaluateCapability, Inv, SurveyInv, Info
    <3> QED BY <2>8, <3>2 DEF Good
  <2>9. CASE c = "dns"
    <3>1. f[c] = evaluateCapability(IF host.dns THEN "present" ELSE "unknown", FALSE)
      BY <1>7, <2>9 DEF findings
    <3>2. f[c] # "red" /\ (f[c] = "green" => host.dns)
      BY <3>1 DEF evaluateCapability
    <3> QED BY <1>2, <2>9, <3>2 DEF Good
  <2>10. CASE c = "ipStack"
    <3>1. f[c] = evaluateIpStack(s)
      BY <2>10 DEF findings
    <3>2. /\ f[c] = "green" => host.ipv4
          /\ f[c] = "red" => ~host.ipv4 /\ ~host.ipv6
      BY <1>3, <1>7, <3>1 DEF evaluateIpStack
    <3> QED BY <1>2, <2>10, <3>2 DEF Good, Bad
  <2> QED BY <2>2, <2>3, <2>4, <2>5, <2>6, <2>7, <2>8, <2>9, <2>10 DEF Categories
<1>13. PageMeasured'
  <2>1. shown'.badge # "unreachable" /\ findings(shown.input, shown.profile)' = f /\ past' = past
    BY <1>1, <1>6 DEF findings
  <2>2. \A c \in DOMAIN f : /\ f[c] = "green" => \E h \in past' : Good(h, c)'
                            /\ f[c] = "red"   => \E h \in past' : Bad(h, c)'
    BY <1>11, <1>12, <2>1
  <2> HIDE DEF f
  <2> QED BY <2>1, <2>2 DEF PageMeasured
<1>14. ListingMeasured'
  BY <1>1 DEF Inv, SurveyInv, NoListing, ListingMeasured
<1>15. SurveyInv' /\ PageInv'
  BY <1>1, <1>13, <1>14 DEF SurveyInv, PageInv
<1> QED BY <1>10, <1>15 DEF Inv

\* Without an answer the page evaluates an example, whose network is not known.
LEMMA NoAnswerInv == ASSUME Inv, NoAnswer PROVE Inv'
<1> DEFINE f == findings(DEMO_INPUT, profile)
<1>1. /\ phase = "survey" /\ UNCHANGED <<host, past, profile, listing>> /\ info' = NoInfo
      /\ phase' = "containers" /\ host \in Hosts /\ host \in past /\ past \subseteq Hosts
      /\ shown' = [badge |-> "unreachable", profile |-> profile, input |-> DEMO_INPUT]
      /\ profile \in AllProfiles
  BY DEF NoAnswer, Inv, TypeInv
<1>2. DEMO_INPUT \in Input
  BY DEF DEMO_INPUT, Input, Environments, Snapshot, Statuses
<1>3. NoInfo \in Info
  BY DEF NoInfo, Info
<1>4. TypeInv'
  BY <1>1, <1>2, <1>3 DEF TypeInv, Page
<1>5. /\ DOMAIN f = Categories
      /\ \A c \in Categories : f[c] \in Severities
  <2>1. AtLeastAsGood(DEMO_INPUT, DEMO_INPUT)
    BY DEF AtLeastAsGood, Known, DEMO_INPUT
  <2> QED BY <1>1, <1>2, <2>1, FindingsMonotone
<1>6. f["network"] = "yellow" /\ "network" \in Categories
  BY DEF findings, evaluateNetwork, gradeAtLeast, DEMO_INPUT, Categories
<1> HIDE DEF f
<1>7. worstSeverity({f[c] : c \in DOMAIN f}) # "green"
  <2> DEFINE S == {f[c] : c \in DOMAIN f}
  <2>1. S \in SUBSET Severities /\ "yellow" \in S
    BY <1>5, <1>6
  <2> HIDE DEF S
  <2>2. ~Worse("yellow", worstSeverity(S)) /\ worstSeverity(S) \in Severities
    BY <2>1, WorstIsWorst DEF Severities
  <2>3. worstSeverity(S) # "green"
    BY <2>2, Ranks DEF Severities
  <2> QED BY <2>3 DEF S
<1>8. runPreflight(DEMO_INPUT, profile).overall # "green"
  BY <1>7 DEF runPreflight, f
<1>9. PageMeasured'
  BY <1>1, <1>8 DEF PageMeasured
<1>10. ListingMeasured'
  BY <1>1 DEF Inv, SurveyInv, NoListing, ListingMeasured
<1> QED BY <1>1, <1>4, <1>9, <1>10 DEF Inv, SurveyInv, PageInv

\* The inventory is read from the host as it is, which is part of the history.
LEMMA InventoryInv ==
  ASSUME Inv, listContainers \/ NoInventory
              \/ \E type \in {"volume", "network"} : listRest(type)
  PROVE  Inv'
<1>1. /\ UNCHANGED <<host, past, profile, info, shown>>
      /\ phase \in {"containers", "rest"} /\ phase' \in {"rest", "shown"}
      /\ host \in Hosts /\ host \in past
      /\ PageMeasured /\ ListingMeasured
  BY DEF listContainers, listRest, NoInventory, Inv, TypeInv, PageInv
<1>2. TypeInv'
  BY <1>1 DEF Inv, TypeInv
<1>3. PageMeasured'
  BY <1>1 DEF PageMeasured, Good, Bad
<1>4. \A r \in listing'.resources :
        \/ r \in listing.resources
        \/ r \in host.resources /\ r.managed
  <2>1. CASE listContainers
    BY <2>1 DEF listContainers, Listed, NoListing
  <2>2. CASE NoInventory
    BY <2>2 DEF NoInventory, NoListing
  <2>3. CASE \E type \in {"volume", "network"} : listRest(type)
    <3>1. PICK type \in {"volume", "network"} : listRest(type)
      BY <2>3
    <3>2. CASE listing' = listing
      BY <3>2
    <3>3. CASE listing' = [listing EXCEPT !.resources = @ \cup Listed(type)]
      BY <3>3 DEF Listed
    <3> QED BY <3>1, <3>2, <3>3 DEF listRest
  <2> QED BY <2>1, <2>2, <2>3
<1>5. ListingMeasured'
  BY <1>1, <1>4 DEF ListingMeasured
<1> QED BY <1>1, <1>2, <1>3, <1>5 DEF Inv, SurveyInv, PageInv

LEMMA HostChangesInv == ASSUME Inv, HostChanges PROVE Inv'
<1>1. /\ UNCHANGED <<phase, profile, info, listing, shown>> /\ host' \in Hosts
      /\ past' \subseteq past \cup {host'} /\ past \subseteq past'
      /\ phase \in {"survey", "containers", "rest"} => host' \in past'
  BY DEF HostChanges
<1>2. TypeInv'
  BY <1>1 DEF Inv, TypeInv
<1>3. SurveyInv'
  BY <1>1, SurveyGrows DEF Inv
<1>4. PageInv'
  BY <1>1, PastGrows DEF Inv, PageInv
<1> QED BY <1>2, <1>3, <1>4 DEF Inv

LEMMA StepInv == Inv /\ [Next]_vars => Inv'
<1> SUFFICES ASSUME Inv, [Next]_vars PROVE Inv'
  OBVIOUS
<1>1. CASE \E p \in Profiles : Ask(p)
  BY <1>1, AskInv
<1>2. CASE probeDocker \/ probeDockerCompose \/ probeDataPathStorageGb \/ runDetectVirt \/ readCgroup
  BY <1>2, ProbesInv
<1>3. CASE Collect
  BY <1>3, CollectInv
<1>4. CASE NoAnswer
  BY <1>4, NoAnswerInv
<1>5. CASE listContainers \/ NoInventory \/ \E type \in {"volume", "network"} : listRest(type)
  BY <1>5, InventoryInv
<1>6. CASE HostChanges
  BY <1>6, HostChangesInv
<1>7. CASE UNCHANGED vars
  <2>1. UNCHANGED <<host, past, phase, profile, info, listing, shown>>
    BY <1>7 DEF vars
  <2>2. TypeInv'
    BY <2>1 DEF Inv, TypeInv
  <2> QED BY <2>1, <2>2, SurveyGrows, PastGrows DEF Inv, PageInv
<1> QED BY <1>1, <1>2, <1>3, <1>4, <1>5, <1>6, <1>7 DEF Next

LEMMA Invariance == Spec => []Inv
BY InitInv, StepInv, PTL DEF Spec

-----------------------------------------------------------------------------
(* The theorems.                                                           *)

\* Whatever the host is, and whatever probe fails or host changes meanwhile, a
\* green or red finding of the page was true of the host at some moment since
\* the page was asked for, the page without an answer is never green, and the
\* inventory shows managed resources only (gatherSystemInfo, runPreflight and
\* gatherDockerInventory).
THEOREM VerdictSafety == Spec => []VerdictsAreMeasured
<1>1. Inv => VerdictsAreMeasured
  BY DEF Inv, PageInv, PageMeasured, ListingMeasured, VerdictsAreMeasured
<1> QED BY <1>1, Invariance, PTL

\* For every pair of hosts and every profile, the thresholds of evaluate.ts and
\* profiles.ts are monotone: what is at least as good is graded no worse, by
\* category, by service and overall, and gets no new recommendation.
THEOREM MonotoneSafety == Spec => MoreIsNeverWorse
<1>1. Inv /\ Inv' => [ /\ shown' # shown /\ shown.badge # "none"
                      /\ shown'.profile = shown.profile
                      /\ AtLeastAsGood(shown'.input, shown.input)
                      => NotWorse(runPreflight(shown.input, shown.profile)',
                                  runPreflight(shown.input, shown.profile)) ]_vars
  <2> SUFFICES ASSUME Inv, Inv', shown'.profile = shown.profile,
                      AtLeastAsGood(shown'.input, shown.input)
               PROVE  NotWorse(runPreflight(shown.input, shown.profile)',
                               runPreflight(shown.input, shown.profile))
    OBVIOUS
  <2>1. /\ shown.input \in Input /\ shown'.input \in Input /\ shown.profile \in AllProfiles
    BY DEF Inv, TypeInv, Page
  <2>2. NotWorse(runPreflight(shown'.input, shown.profile), runPreflight(shown.input, shown.profile))
    BY <2>1, PreflightMonotone
  <2>3. runPreflight(shown.input, shown.profile)' = runPreflight(shown'.input, shown'.profile)
    BY DEF runPreflight
  <2> QED BY <2>2, <2>3
<1> QED BY <1>1, Invariance, PTL DEF Spec, MoreIsNeverWorse

\* Upload is not surveyed, and unknown is yellow.
LEMMA UnknownUploadIsYellow ==
  ASSUME NEW input, NEW p \in AllProfiles, input.snapshot.upload = {}
  PROVE  runPreflight(input, p).overall # "green"
<1> DEFINE f == findings(input, p)
           S == {f[c] : c \in DOMAIN f}
<1>1. DOMAIN f = Categories /\ f["network"] = "yellow"
  BY DEF findings, Categories, evaluateNetwork, gradeAtLeast
<1>2. \A c \in Categories : f[c] \in Severities
  <2> DEFINE s == input.snapshot
  <2>1. \A value, greenMin, yellowMin : gradeAtLeast(value, greenMin, yellowMin) \in Severities
    BY DEF gradeAtLeast, Severities
  <2>2. \A status : /\ evaluateCapability(status, TRUE) \in Severities
                    /\ evaluateCapability(status, FALSE) \in Severities
    BY DEF evaluateCapability, Severities
  <2>3. \A field : evaluateResource(s, p, field) \in Severities
    BY <2>1 DEF evaluateResource
  <2>4. /\ evaluateNetwork(s) \in Severities /\ evaluateBackupStorage(s) \in Severities
        /\ evaluateIpStack(s) \in Severities /\ evaluateEnvironment(input.environment) \in Severities
    BY <2>1 DEF evaluateNetwork, evaluateBackupStorage, evaluateIpStack, evaluateEnvironment, Severities
  <2>5. /\ f["environment"] = evaluateEnvironment(input.environment)
        /\ f["cpu"] = evaluateResource(s, p, "cores")
        /\ f["ram"] = evaluateResource(s, p, "ram")
        /\ f["storage"] = evaluateResource(s, p, "storage")
        /\ f["network"] = evaluateNetwork(s)
        /\ f["docker"] = evaluateCapability(s.docker, TRUE)
        /\ f["dockerCompose"] = evaluateCapability(s.compose, TRUE)
        /\ f["firewall"] = evaluateCapability(s.firewall, FALSE)
        /\ f["dns"] = evaluateCapability(s.dns, FALSE)
        /\ f["ipStack"] = evaluateIpStack(s)
        /\ f["backupStorage"] = evaluateBackupStorage(s)
    BY DEF findings
  <2> HIDE DEF f, s
  <2> QED BY <2>2, <2>3, <2>4, <2>5 DEF Categories
<1>3. S \in SUBSET Severities /\ "yellow" \in S
  BY <1>1, <1>2 DEF Categories
<1>4. runPreflight(input, p).overall = worstSeverity(S)
  BY DEF runPreflight
<1> HIDE DEF S, f
<1>5. ~Worse("yellow", worstSeverity(S)) /\ worstSeverity(S) \in Severities
  BY <1>3, WorstIsWorst DEF Severities
<1>6. Worse("yellow", "green")
  BY Ranks DEF Severities
<1> QED BY <1>4, <1>5, <1>6

\* No host is good enough: whatever it has and whatever the profile asks for, the
\* page is never green overall, since what the survey leaves out counts as yellow
\* (mapSystemInfoToResourceSnapshot, evaluateNetwork, worstSeverity).
THEOREM NeverGreenOverall ==
  Spec => [](runPreflight(shown.input, shown.profile).overall # "green")
<1> DEFINE NotSurveyed == shown.input.snapshot.upload = {}
<1>1. Init => NotSurveyed
  BY DEF Init, NoPage, DEMO_INPUT
<1>2. NotSurveyed /\ [Next]_vars => NotSurveyed'
  <2> SUFFICES ASSUME NotSurveyed, [Next]_vars PROVE NotSurveyed'
    OBVIOUS
  <2>1. CASE Collect
    BY <2>1 DEF Collect, mapSystemInfoToResourceSnapshot
  <2>2. CASE NoAnswer
    BY <2>2 DEF NoAnswer, DEMO_INPUT
  <2>3. CASE UNCHANGED shown
    BY <2>3
  <2> QED BY <2>1, <2>2, <2>3
          DEF Next, vars, Ask, probeDocker, probeDockerCompose, runVersion, probeDataPathStorageGb,
              runDetectVirt, readCgroup, listContainers, listRest, NoInventory, HostChanges
<1>3. Inv /\ NotSurveyed => runPreflight(shown.input, shown.profile).overall # "green"
  BY UnknownUploadIsYellow DEF Inv, TypeInv, Page
<1> QED BY <1>1, <1>2, <1>3, Invariance, PTL DEF Spec

=============================================================================
