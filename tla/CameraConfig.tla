---------------------------- MODULE CameraConfig ----------------------------
(***************************************************************************)
(* The configuration of one camera and the media proxies that serve it:    *)
(* manual cameras (cameras/service.py), import and reconfiguration of ONVIF*)
(* devices (cameras/onvif_onboarding.py), capability refresh               *)
(* (cameras/onvif_capability_refresh.py), stream verification              *)
(* (cameras/api.py) and the task that makes ZLMediaKit's proxies follow    *)
(* (worker/tasks.py, cameras/media_runtime.py).                            *)
(*                                                                         *)
(* Requests release the database while they talk to the device and to      *)
(* ZLMediaKit, so what they read may be old when they write.  A stream     *)
(* source is the address of its URI; whichever device has the address      *)
(* plays.  A proxy plays a source with the credentials it was given.       *)
(***************************************************************************)
EXTENDS Naturals, Sequences, FiniteSets

CONSTANTS High, Low,         \* the two stream profiles of the device
          MaxAddress,        \* addresses of a profile
          MaxDeviceChanges,  \* bound: changes of the device
          MaxRequests,       \* bound: configuration requests
          MaxSlips           \* bound: failures of the queue or of a task

ASSUME ProfilesAssumption == High # Low /\ "none" \notin {High, Low}
ASSUME AddressAssumption == MaxAddress \in Nat \ {0}

VARIABLES
  dev,       \* the device: hardware (0: not reported), password, address of each profile (0: not offered)
  row,       \* device and camera rows
  prof,      \* stream profile rows: source, status, drift flag
  bind,      \* stream bindings: the RECORD profile and the live profile
  request,   \* requests in progress, by slot
  tasks,     \* queued reconcile tasks
  running,   \* the task each worker runs, with what it read
  proxy,     \* what the proxy of each profile plays
  viewing,   \* what the request of a viewer of the profile will have its proxy play
  changes, requests, slips,
  lost,      \* history: a restart that was not queued or gave up
  overtaken, \* history: two reconcile tasks of the camera overlapped
  late,      \* history: profiles a refresh added while an import was verifying
  loose      \* history: profiles whose source changed, or whose restart was pending, while unbound,
             \* and those a viewer started as they were before their restart

Profile == {High, Low}
NoProfile == "none"
NoSource == 0
NoPlay == [src |-> NoSource, cred |-> 0]
Slot == {1, 2}
Worker == {1, 2}
NoRequest == [kind |-> "none", pc |-> "none"]
Idle == [pc |-> "idle"]

dbVars == <<row, prof, bind>>
runtimeVars == <<tasks, running, proxy, viewing>>
historyVars == <<lost, overtaken, late, loose>>
budgetVars == <<changes, requests, slips>>
configVars == <<dev, dbVars, request, runtimeVars, historyVars, budgetVars>>

Rows == {p \in Profile : prof[p].src # NoSource}
Bound(b) == {b.record, b.live} \ {NoProfile}
Usable(d) == {p \in Profile : d.at[p] # 0}
SourceOn(d, p) == d.at[p]

NoRow == [src |-> NoSource, status |-> "none", drift |-> FALSE]

\* The best profile records and the least one is shown live.
DefaultBindings(ps) ==
  [record |-> IF High \in ps THEN High ELSE Low, live |-> IF Low \in ps THEN Low ELSE High]

Unconfigured ==
  /\ row = [kind |-> "none", hw |-> 0, cred |-> 0, enabled |-> FALSE, retired |-> FALSE, revision |-> 1]
  /\ prof = [p \in Profile |-> NoRow]
  /\ bind = [record |-> NoProfile, live |-> NoProfile]

\* The device was imported before with its high profile, or with both.
Imported(ps) ==
  /\ row = [kind |-> "onvif", hw |-> dev.hw, cred |-> 1, enabled |-> TRUE, retired |-> FALSE, revision |-> 1]
  /\ prof = [p \in Profile |-> IF p \in ps THEN [src |-> SourceOn(dev, p), status |-> "available", drift |-> FALSE]
                               ELSE NoRow]
  /\ bind = DefaultBindings(ps)

ConfigInit ==
  /\ \E ps \in {Profile, {High}}, h \in {0, 1} :
       /\ dev = [hw |-> h, cred |-> 1, at |-> [p \in Profile |-> IF p \in ps THEN 1 ELSE 0]]
       /\ (ps = Profile /\ Unconfigured) \/ Imported(ps)
  /\ request = [s \in Slot |-> NoRequest]
  /\ tasks = << >> /\ running = [w \in Worker |-> Idle]
  /\ proxy = [p \in Profile |-> NoPlay] /\ viewing = proxy
  /\ changes = 0 /\ requests = 0 /\ slips = 0
  /\ lost = FALSE /\ overtaken = FALSE /\ late = {} /\ loose = {}

-----------------------------------------------------------------------------
(* The device: external.  Its addresses and its password are changed, or   *)
(* another device takes its place, which may report no hardware identity   *)
(* (and then no serial number either).                                     *)

DeviceChanges(d) ==
  /\ changes < MaxDeviceChanges /\ changes' = changes + 1
  /\ d # dev /\ dev' = d
  /\ UNCHANGED <<dbVars, request, runtimeVars, historyVars, requests, slips>>

AddressChanges(p, a) == DeviceChanges([dev EXCEPT !.at[p] = a])
PasswordChanges == dev.cred = 1 /\ DeviceChanges([dev EXCEPT !.cred = 2])
DeviceReplaced(h, a) ==
  DeviceChanges([dev EXCEPT !.hw = h, !.at = [p \in Profile |-> IF dev.at[p] = 0 THEN 0 ELSE a]])

\* A probe plays the source from the device that has the address now.
Plays(src, p, cred) == src = SourceOn(dev, p) /\ src # NoSource /\ (row.kind = "manual" \/ cred = dev.cred)

-----------------------------------------------------------------------------
(* Requests.                                                               *)

\* Slots are interchangeable: the first free one is taken.
OpenSlot(s) ==
  /\ requests < MaxRequests
  /\ request[s] = NoRequest /\ \A t \in Slot : t < s => request[t] # NoRequest

Begin(s, r) ==
  /\ OpenSlot(s)
  /\ requests' = requests + 1 /\ request' = [request EXCEPT ![s] = r]
  /\ UNCHANGED <<changes, slips>>

Goto(s, r) == request' = [request EXCEPT ![s] = r] /\ UNCHANGED budgetVars
End(s) == Goto(s, NoRequest)

Task(targets, previous) == [targets |-> targets, previous |-> previous]

\* The commit is done; the reconcile task is still to be queued.
Queueing(t) == [kind |-> "queue", pc |-> "queue", task |-> t]

\* A request whose commit needs no reconcile task ends with it.
Committed(s, t, needed) == Goto(s, IF needed THEN Queueing(t) ELSE NoRequest)

QueueTask(s) ==
  /\ request[s].pc = "queue"
  /\ tasks' = Append(tasks, request[s].task) /\ End(s)
  /\ UNCHANGED <<dev, dbVars, running, proxy, viewing, historyVars>>

\* The queue does not take the task: the caller gets 503, the commit stands.
QueueUnavailable(s) ==
  /\ request[s].pc = "queue" /\ slips < MaxSlips
  /\ slips' = slips + 1 /\ lost' = TRUE
  /\ request' = [request EXCEPT ![s] = NoRequest]
  /\ UNCHANGED <<dev, dbVars, runtimeVars, overtaken, late, loose, changes, requests>>

BumpConfigRevision(r) == [r EXCEPT !.revision = @ + 1]

CreateStreamProfile(src) == [src |-> src, status |-> "configured", drift |-> FALSE]

\* A manual camera gets the addresses the caller types, not verified.
CreateManualRtspCamera(ps) ==
  /\ row.kind = "none" /\ High \in ps /\ requests < MaxRequests
  /\ \A s \in Slot : request[s] = NoRequest
  /\ requests' = requests + 1
  /\ row' = [row EXCEPT !.kind = "manual", !.hw = 1, !.enabled = TRUE]
  /\ prof' = [p \in Profile |-> IF p \in ps THEN CreateStreamProfile(1) ELSE NoRow]
  /\ bind' = DefaultBindings(ps)
  /\ UNCHANGED <<dev, request, runtimeVars, historyVars, changes, slips>>

-----------------------------------------------------------------------------
(* Import: inspect, resolve the identity, verify, commit.                  *)

InspectForImport(s, confirm) ==
  /\ row.kind # "manual"
  /\ Begin(s, [kind |-> "import", pc |-> "inspected", seen |-> dev, cred |-> dev.cred,
               need |-> {}, confirm |-> confirm])
  /\ UNCHANGED <<dev, dbVars, runtimeVars, historyVars>>

StableIdentityMatches(seen) == row.kind = "onvif" /\ seen.hw # 0 /\ row.hw = seen.hw

\* The known device at this address: the same hardware, or confirmed by the caller.
IdentityAssessment(seen) ==
  IF row.kind # "onvif" THEN "new_device"
  ELSE IF StableIdentityMatches(seen) THEN "same_device" ELSE "probable_match_requires_confirmation"

ResolveIdentity(seen, confirm) ==
  CASE IdentityAssessment(seen) = "new_device" -> ~confirm
    [] IdentityAssessment(seen) = "same_device" -> TRUE
    [] OTHER -> confirm

\* A new device is verified where it is usable, a known one wherever it has rows.
ImportVerificationProfiles(seen) == IF row.kind # "onvif" THEN Usable(seen) ELSE Rows

ResolveImport(s) ==
  LET r == request[s]
      need == ImportVerificationProfiles(r.seen)
      ok == ResolveIdentity(r.seen, r.confirm) /\ need # {} /\ need \subseteq Usable(r.seen)
  IN  /\ r.kind = "import" /\ r.pc = "inspected"
      /\ IF ok THEN Goto(s, [r EXCEPT !.pc = "listed", !.need = need, !.confirm = row.kind = "onvif"])
               ELSE End(s)
      /\ UNCHANGED <<dev, dbVars, runtimeVars, historyVars>>

\* Every listed source is played with the caller's credentials; one that
\* does not play ends the request.
ProbeListed(s) ==
  LET r == request[s] IN
  /\ r.kind \in {"import", "refresh"} /\ r.pc = "listed"
  /\ IF \A p \in r.need : Plays(SourceOn(r.seen, p), p, r.cred)
     THEN Goto(s, [r EXCEPT !.pc = "probed"])
     ELSE End(s)
  /\ UNCHANGED <<dev, dbVars, runtimeVars, historyVars>>

\* A task under way can still start the proxy of p, as it was when the task read it.
MayStart(p) == \E w \in Worker : running[w].pc = "read" /\ p \in DOMAIN running[w].desired

NoteLoose(changed) ==
  loose' = loose \cup {p \in changed \ Bound(bind) : proxy[p] # NoPlay \/ MayStart(p)}

\* First import: device, credential, camera, usable profiles, bindings.
CreateDevice(r) ==
  /\ row' = [row EXCEPT !.kind = "onvif", !.hw = r.seen.hw, !.cred = r.cred, !.enabled = TRUE]
  /\ prof' = [p \in Profile |-> IF p \in Usable(r.seen)
                                THEN [src |-> SourceOn(r.seen, p), status |-> "available", drift |-> FALSE]
                                ELSE NoRow]
  /\ bind' = DefaultBindings(Usable(r.seen))
  /\ UNCHANGED loose

\* The bound profiles that must be played anew: the source changed, or the
\* credentials it is played with.
RestartProfiles(r, changed) ==
  (changed \cup (IF r.cred # row.cred THEN Rows ELSE {})) \cap Bound(bind)

ChangedBy(r) == {p \in Rows \cap Usable(r.seen) : prof[p].src # SourceOn(r.seen, p)}

\* A device that reports no hardware identity keeps the stored one.
KeptHardware(r) == IF r.seen.hw # 0 THEN r.seen.hw ELSE row.hw

ReconfigureExisting(r, restart) ==
  /\ row' = [row EXCEPT !.hw = KeptHardware(r), !.cred = r.cred,
                        !.revision = IF restart # {} THEN @ + 1 ELSE @]
  /\ prof' = [p \in Profile |-> IF p \in Rows
                                THEN [prof[p] EXCEPT !.src = SourceOn(r.seen, p), !.status = "available"]
                                ELSE prof[p]]
  /\ bind' = bind /\ NoteLoose(ChangedBy(r) \cup (IF r.cred # row.cred THEN Rows ELSE {}))

\* The device is looked up again by its hardware unless it was resolved
\* before; the address may meanwhile belong to another device.
ImportDevice(s) ==
  LET r == request[s]
      known == row.kind = "onvif" /\ (r.confirm \/ StableIdentityMatches(r.seen))
      restart == RestartProfiles(r, ChangedBy(r))
  IN  /\ r.kind = "import" /\ r.pc = "probed"
      /\ \/ /\ row.kind = "none" /\ CreateDevice(r)
            /\ End(s)
         \/ /\ known /\ Rows \subseteq Usable(r.seen) /\ ReconfigureExisting(r, restart)
            /\ Committed(s, Task(restart, NoProfile), restart # {})
         \/ /\ row.kind = "manual" \/ (row.kind = "onvif" /\ ~(known /\ Rows \subseteq Usable(r.seen)))
            /\ End(s) /\ UNCHANGED <<dbVars, loose>>
      /\ UNCHANGED <<dev, runtimeVars, lost, overtaken, late>>

-----------------------------------------------------------------------------
(* Capability refresh: inspect with the stored credentials, verify what is *)
(* new, recovered or changed, commit.                                      *)

InspectForRefresh(s) ==
  /\ row.kind = "onvif" /\ row.cred = dev.cred
  /\ Begin(s, [kind |-> "refresh", pc |-> "inspected", seen |-> dev, cred |-> row.cred,
               need |-> {}, confirm |-> FALSE])
  /\ UNCHANGED <<dev, dbVars, runtimeVars, historyVars>>

Unproven(seen) ==
  {p \in Usable(seen) : p \notin Rows \/ prof[p].drift \/ prof[p].src # SourceOn(seen, p)}

ListForRefresh(s) ==
  LET r == request[s] IN
  /\ r.kind = "refresh" /\ r.pc = "inspected"
  /\ Goto(s, [r EXCEPT !.pc = "listed", !.need = Unproven(r.seen)])
  /\ UNCHANGED <<dev, dbVars, runtimeVars, historyVars>>

SameHardware(r) == row.hw = 0 \/ r.seen.hw = 0 \/ row.hw = r.seen.hw
NotVerified(r) == Unproven(r.seen) \ r.need

\* A profile the device no longer offers keeps its source and is flagged.
DriftMetadata(q) == [q EXCEPT !.status = "unavailable", !.drift = TRUE]

ReplaceStreamUri(q, src) == [q EXCEPT !.src = src]

RefreshProfile(r, p) ==
  LET q == prof[p] IN
  IF p \in Rows /\ p \notin Usable(r.seen) THEN DriftMetadata(q)
  ELSE IF p \notin Usable(r.seen) THEN q
  ELSE [ReplaceStreamUri(q, SourceOn(r.seen, p)) EXCEPT
           !.drift = FALSE, !.status = IF p \in r.need THEN "available" ELSE @]

NoteLate(added) ==
  late' = IF \E t \in Slot : request[t].kind = "import" /\ request[t].pc \in {"listed", "probed"}
          THEN late \cup added ELSE late

\* Nothing is stored unless the hardware is the same, or not reported, and
\* every source that is stored anew was verified.
ApplyRefresh(s) ==
  LET r == request[s]
      restart == ChangedBy(r) \cap Bound(bind)
  IN  /\ r.kind = "refresh" /\ r.pc = "probed"
      /\ IF SameHardware(r) /\ NotVerified(r) = {}
         THEN /\ prof' = [p \in Profile |-> RefreshProfile(r, p)]
              /\ row' = [row EXCEPT !.hw = KeptHardware(r), !.revision = IF restart # {} THEN @ + 1 ELSE @]
              /\ NoteLoose(ChangedBy(r)) /\ NoteLate(Usable(r.seen) \ Rows)
              /\ Committed(s, Task(restart, NoProfile), restart # {})
         ELSE End(s) /\ UNCHANGED <<row, prof, late, loose>>
      /\ UNCHANGED <<dev, bind, runtimeVars, lost, overtaken>>

-----------------------------------------------------------------------------
(* Verification of one stream, and the probe of all of them.               *)

\* The source is played with the credentials of the device row.
ResolveStreamUri(p) == [src |-> prof[p].src, cred |-> row.cred]

BeginVerify(s, p) ==
  /\ p \in Rows
  /\ Begin(s, [kind |-> "verify", pc |-> "read", p |-> p, play |-> ResolveStreamUri(p),
               revision |-> row.revision])
  /\ UNCHANGED <<dev, dbVars, runtimeVars, historyVars>>

\* The probe of a whole camera looks at one profile after the other; it
\* does not remember the configuration it started from.
BeginProbe(s, p) ==
  /\ p \in Rows /\ row.enabled
  /\ Begin(s, [kind |-> "probe", pc |-> "read", p |-> p, play |-> ResolveStreamUri(p),
               revision |-> row.revision])
  /\ UNCHANGED <<dev, dbVars, runtimeVars, historyVars>>

ProbeStream(s) ==
  LET r == request[s] IN
  /\ r.kind \in {"verify", "probe"} /\ r.pc = "read"
  /\ LET ok == Plays(r.play.src, r.p, r.play.cred) IN
     Goto(s, [r EXCEPT !.pc = IF ok THEN "ok" ELSE "bad"])
  /\ UNCHANGED <<dev, dbVars, runtimeVars, historyVars>>

\* Fault: the fence is left out.
NoFence(r) == TRUE

FenceConfigRevision(r) == row.revision = r.revision

WriteVerdict(s) ==
  LET r == request[s] IN
  /\ r.pc \in {"ok", "bad"}
  /\ IF r.kind = "probe" \/ FenceConfigRevision(r)
     THEN prof' = [prof EXCEPT ![r.p].status = IF r.pc = "ok" THEN "available" ELSE "unavailable"]
     ELSE UNCHANGED prof
  /\ End(s)
  /\ UNCHANGED <<dev, row, bind, runtimeVars, lost, overtaken, late, loose>>

-----------------------------------------------------------------------------
(* Bindings, enabling and retiring.                                        *)

CommitAndQueue(s, t, needed) ==
  /\ requests' = requests + 1 /\ UNCHANGED <<changes, slips>>
  /\ request' = [request EXCEPT ![s] = IF needed THEN Queueing(t) ELSE NoRequest]

\* Somebody has committed a change of p's source or credentials, and p is not played anew yet.
RestartQueued(p) ==
  \/ \E s \in Slot : request[s].pc = "queue" /\ p \in request[s].task.targets
  \/ \E i \in DOMAIN tasks : p \in tasks[i].targets
Restarting(p) == \E w \in Worker : running[w].pc = "read" /\ p \in running[w].task.targets

ReplaceBindings(s, r, l) ==
  /\ OpenSlot(s) /\ {r, l} \subseteq Rows /\ bind # [record |-> r, live |-> l]
  /\ bind' = [record |-> r, live |-> l] /\ row' = BumpConfigRevision(row)
  /\ loose' = loose \cup {p \in Bound(bind) \ {r, l} : RestartQueued(p) \/ Restarting(p)}
  /\ CommitAndQueue(s, Task({}, bind.record), r # bind.record)
  /\ UNCHANGED <<dev, prof, runtimeVars, lost, overtaken, late>>

SetEnabled(s, on) ==
  /\ OpenSlot(s) /\ row.kind # "none" /\ row.enabled # on /\ (on => ~row.retired)
  /\ row' = BumpConfigRevision([row EXCEPT !.enabled = on])
  /\ CommitAndQueue(s, Task({}, NoProfile), TRUE)
  /\ UNCHANGED <<dev, prof, bind, runtimeVars, historyVars>>

\* A retired camera is disabled; restoring it leaves it disabled.
SetRetired(s, on) ==
  /\ OpenSlot(s) /\ row.kind # "none" /\ row.retired # on
  /\ row' = BumpConfigRevision([row EXCEPT !.retired = on, !.enabled = FALSE])
  /\ CommitAndQueue(s, Task({}, NoProfile), on)
  /\ UNCHANGED <<dev, prof, bind, runtimeVars, historyVars>>

-----------------------------------------------------------------------------
(* The reconcile task.  The policy wants recording while the camera is     *)
(* enabled; live proxies start on demand.                                  *)

DesiredStreams == IF row.enabled THEN [p \in Bound(bind) |-> ResolveStreamUri(p)] ELSE << >>

ReadForReconcile(w) ==
  /\ tasks # << >>
  /\ running[w].pc = "idle" /\ \A v \in Worker : v < w => running[v].pc # "idle"
  /\ tasks' = Tail(tasks)
  /\ running' = [running EXCEPT ![w] =
        [pc |-> "read", task |-> Head(tasks), enabled |-> row.enabled, bind |-> bind,
         desired |-> DesiredStreams]]
  /\ overtaken' = (overtaken \/ \E v \in Worker : running[v].pc # "idle")
  /\ UNCHANGED <<dev, dbVars, request, proxy, viewing, budgetVars, lost, late, loose>>

\* The proxy is added only when the stream is offline.
EnsureStreams(px, j, ps) == [p \in Profile |-> IF p \in ps /\ px[p] = NoPlay THEN j.desired[p] ELSE px[p]]
\* The proxy is deleted and added again.
ReplaceStreams(px, j, ps) == [p \in Profile |-> IF p \in ps THEN j.desired[p] ELSE px[p]]
\* The same for streams that are online.
ReplaceOnlineStreams(px, j, ps) == ReplaceStreams(px, j, {p \in ps : px[p] # NoPlay})
StopStreams(px, ps) == [p \in Profile |-> IF p \in ps THEN NoPlay ELSE px[p]]

\* Fault: the proxies of changed streams are only ensured, as those of all others.
OnlyEnsured(px, j) == EnsureStreams(px, j, {j.bind.record})

StartStreams(px, j) ==
  LET targeted == j.task.targets \cap DOMAIN j.desired
      record == {j.bind.record}
  IN  IF targeted \cap record # {}
      THEN ReplaceOnlineStreams(ReplaceStreams(px, j, record), j, targeted \ record)
      ELSE EnsureStreams(ReplaceOnlineStreams(px, j, targeted), j, record)

\* The stream recorded before the switch is closed when nothing is bound to it.
Abandoned(j) ==
  IF j.task.previous \notin {NoProfile, j.bind.record} /\ j.task.previous \notin DOMAIN j.desired
  THEN {j.task.previous} ELSE {}

ReconcileCameraRuntime(w) ==
  LET j == running[w]
      started == IF j.enabled THEN StartStreams(proxy, j) ELSE StopStreams(proxy, Bound(j.bind))
  IN  /\ j.pc = "read"
      /\ proxy' = StopStreams(started, Abandoned(j))
      /\ running' = [running EXCEPT ![w] = Idle]
      /\ UNCHANGED <<dev, dbVars, request, tasks, viewing, historyVars, budgetVars>>

\* ZLMediaKit does not answer.  Huey runs the task again, from the start.
ReconcileFails(w) ==
  /\ running[w].pc = "read" /\ slips < MaxSlips /\ slips' = slips + 1
  /\ running' = [running EXCEPT ![w] = Idle]
  /\ tasks' = Append(tasks, running[w].task)
  /\ UNCHANGED <<dev, dbVars, request, proxy, viewing, historyVars, changes, requests>>

\* A viewer asks for a bound profile, or for another one that is not
\* unavailable: its source is read now, the proxy is started later.  Bound:
\* one such request at a time.
ViewLive(p) ==
  /\ row.enabled /\ p \in Rows /\ (p \in Bound(bind) \/ prof[p].status # "unavailable")
  /\ (\A q \in Profile : viewing[q] = NoPlay) /\ viewing' = [viewing EXCEPT ![p] = ResolveStreamUri(p)]
  /\ UNCHANGED <<dev, dbVars, request, tasks, running, proxy, historyVars, budgetVars>>

\* The proxy is added only when the stream is offline.
AddViewed(p) ==
  /\ viewing[p] # NoPlay /\ viewing' = [viewing EXCEPT ![p] = NoPlay]
  /\ IF proxy[p] = NoPlay
     THEN /\ proxy' = [proxy EXCEPT ![p] = viewing[p]]
          /\ loose' = IF viewing[p] = ResolveStreamUri(p) \/ RestartQueued(p) \/ Restarting(p)
                      THEN loose ELSE loose \cup {p}
     ELSE UNCHANGED <<proxy, loose>>
  /\ UNCHANGED <<dev, dbVars, request, tasks, running, lost, overtaken, late, budgetVars>>

\* ZLMediaKit closes a proxy nobody plays; the recorded one is kept.
AutoClose(p) ==
  /\ proxy[p] # NoPlay /\ p # bind.record
  /\ proxy' = [proxy EXCEPT ![p] = NoPlay]
  /\ UNCHANGED <<dev, dbVars, request, tasks, running, viewing, historyVars, budgetVars>>

-----------------------------------------------------------------------------
RequestStep(s) ==
  \/ ResolveImport(s) \/ ProbeListed(s) \/ ImportDevice(s) \/ ListForRefresh(s)
  \/ ApplyRefresh(s) \/ ProbeStream(s) \/ WriteVerdict(s) \/ QueueTask(s)

WorkerStep(w) == ReadForReconcile(w) \/ ReconcileCameraRuntime(w)

ConfigNext ==
  \/ \E p \in Profile, a \in 0..MaxAddress : AddressChanges(p, a)
  \/ PasswordChanges \/ \E h \in {0, 2}, a \in 1..MaxAddress : DeviceReplaced(h, a)
  \/ CreateManualRtspCamera({High}) \/ CreateManualRtspCamera(Profile)
  \/ \E s \in Slot :
       \/ RequestStep(s) \/ QueueUnavailable(s)
       \/ \E c \in BOOLEAN : InspectForImport(s, c) \/ SetEnabled(s, c) \/ SetRetired(s, c)
       \/ InspectForRefresh(s)
       \/ \E p \in Profile : BeginVerify(s, p) \/ BeginProbe(s, p)
       \/ \E r, l \in Profile : ReplaceBindings(s, r, l)
  \/ \E w \in Worker : WorkerStep(w) \/ ReconcileFails(w)
  \/ \E p \in Profile : ViewLive(p) \/ AddViewed(p) \/ AutoClose(p)

ConfigSpec == ConfigInit /\ [][ConfigNext]_configVars

-----------------------------------------------------------------------------
(* Properties.                                                             *)

(* A source of an imported camera changes only to one that the request which *)
(* stores it has played itself, whatever other requests committed since it   *)
(* looked at the device, and the device that request saw is the one the      *)
(* device row names, or reported no hardware (apply's verified tokens and    *)
(* hardware check).  The one exception is a profile that a refresh adds      *)
(* while an import is verifying the profiles it knew.                        *)
StoredBy(s, p, src) ==
  /\ request[s].pc = "probed" /\ request[s].seen.hw \in {0, row'.hw}
  /\ src = SourceOn(request[s].seen, p) /\ p \in request[s].need \cup late
StoredSourcesVerified ==
  [][row'.kind = "onvif" =>
       \A p \in Profile :
         prof'[p].src # prof[p].src => \E s \in Slot : StoredBy(s, p, prof'[p].src)]_configVars

(* A verification that changes the status of a bound profile was made with   *)
(* the source and the credentials the rows hold when it is written, though   *)
(* it lets go of the database while it probes (fence_config_revision).       *)
VerdictsAreCurrent ==
  [][\A s \in Slot :
       LET r == request[s] IN
       (r.kind = "verify" /\ r.pc \in {"ok", "bad"} /\ request'[s] = NoRequest /\ prof' # prof
          /\ r.p \in Bound(bind)) => r.play = ResolveStreamUri(r.p)]_configVars

(* Nothing old keeps playing: when no reconcile task is queued, running or   *)
(* about to be queued, the proxies of the bound profiles of an enabled       *)
(* camera play the stored source with the stored credentials, or are closed, *)
(* unless a task was lost, two tasks of the camera overlapped, the source    *)
(* changed while the profile was unbound and its proxy played or was being   *)
(* started, the profile was unbound while its restart was pending, or a      *)
(* viewer read the source before the change and had the proxy started after  *)
(* the restart (restart_profile_ids, replace_streams, ensure_streams): a     *)
(* task restarts bound profiles, once.                                       *)
Settled ==
  tasks = << >> /\ (\A w \in Worker : running[w].pc = "idle") /\ \A s \in Slot : request[s].pc # "queue"
ProxyFollowsConfig ==
  (Settled /\ ~lost /\ ~overtaken /\ row.enabled) =>
    \A p \in Bound(bind) \ loose : proxy[p] \in {NoPlay, ResolveStreamUri(p)}

(* What a probe allowed to be stored is what it probed: sources and verdicts *)
(* of slow requests survive the commits of others.                           *)
ProbesStayTrue == StoredSourcesVerified /\ VerdictsAreCurrent
=============================================================================
