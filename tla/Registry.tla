------------------------------ MODULE Registry ------------------------------
(***************************************************************************)
(* The registry of VIPs (vips.rs) under concurrent API requests (api.rs    *)
(* spawns a task per connection on a multi-threaded runtime), with its     *)
(* state_file, process exits at any point and restarts (main.rs).          *)
(*                                                                         *)
(* A spec is a record: the listener address, a tag standing for the        *)
(* backends, whether its health check needs the CA file, and the VRRP      *)
(* settings.  `put` runs under the registry's lock and is one step; `save` *)
(* is the steps it makes between locks and system calls.                   *)
(***************************************************************************)
EXTENDS Naturals, Sequences

CONSTANTS
    NameOrder,   \* the VIP names, in BTreeMap order
    Specs,       \* VIP specs
    Clients,     \* API requests that can be in progress together
    Requests,    \* the requests a client may make, per client
    ConfigAtBoot,\* the [vip] specs (or NoSpec) a start may find in the config file
    Inodes,      \* files on disk
    MaxRequests, MaxExits, MaxEnv

Names   == {NameOrder[i] : i \in DOMAIN NameOrder}
Default == "default"
NoSpec == [listen |-> "none", ver |-> 0, ca |-> FALSE, vrrp |-> 0]
NoVip  == [spec |-> NoSpec, cfg |-> FALSE, listen |-> "none", backs |-> 0,
           health |-> FALSE, vrrp |-> 0]

ASSUME RegistryAssumption ==
    /\ NameOrder \in Seq(Names) /\ Default \in Names
    /\ \A i, j \in DOMAIN NameOrder : NameOrder[i] = NameOrder[j] => i = j
    /\ Specs \subseteq [listen : STRING, ver : Nat, ca : BOOLEAN, vrrp : Nat]
    /\ NoSpec \notin Specs
    /\ Requests \in [Clients -> SUBSET ([op : {"put"}, name : Names, spec : Specs]
                                         \cup [op : {"delete"}, name : Names,
                                              spec : {NoSpec}])]
    /\ 0 \notin Inodes
    /\ ConfigAtBoot \subseteq Specs \cup {NoSpec}
    /\ MaxRequests \in Nat /\ MaxExits \in Nat /\ MaxEnv \in Nat

VARIABLES
    phase,      \* the process: "down", "loading" the saved VIPs, or "up" with its API
    at,         \* how many saved VIPs load_state is done with
    config,     \* the [vip] it was started with, or NoSpec
    vips,       \* Registry.vips
    pending,    \* Registry.pending
    closing,    \* listeners of aborted serve tasks not closed yet
    req,        \* per client: the request in progress
    disk,       \* contents of each inode
    fileIno, tmpIno,  \* what state_file and its .tmp name, 0 for nothing
    taken,      \* listeners some other process has
    caOk,       \* the CA file can be read
    requests, exits, env,
    want        \* ghost: per name, the specs the answers so far allow it to have

mem   == <<vips, pending, closing>>
files == <<disk, fileIno, tmpIno>>
world == <<taken, caOk, exits, env, phase, at, config>>
vars  == <<mem, req, files, world, requests, want>>

alive == phase = "up"

Empty == [kind |-> "torn", map |-> [n \in Names |-> NoSpec]]
Text(m) == [kind |-> "map", map |-> m]

Idle == [pc |-> "idle", op |-> "none", name |-> "none", spec |-> NoSpec, ino |-> 0,
         prev |-> {}, map |-> [n \in Names |-> NoSpec]]

-----------------------------------------------------------------------------
(* put *)

Entry(s, cfg) ==
    [spec |-> s, cfg |-> cfg, listen |-> s.listen, backs |-> s.ver, health |-> s.ca,
     vrrp |-> s.vrrp]

\* Another VIP has this listener.
Conflict(vs, n, s) == \E m \in Names \ {n} : vs[m] # NoVip /\ vs[m].listen = s.listen

\* balancer::bind: nobody listens there, no aborted task still does.
CanBind(vs, a) ==
    /\ a \notin taken \cup closing
    /\ \A m \in Names : vs[m] # NoVip => vs[m].listen # a

\* check: addresses, ports, paths, times and VRRP settings of the spec.
Check(s) == s.listen # "bad"

\* put gets past everything it checks before it changes anything.
Accepts(vs, n, s) ==
    /\ Check(s)
    /\ ~Conflict(vs, n, s)
    /\ s.ca => caOk
    /\ (vs[n] # NoVip /\ vs[n].listen = s.listen) \/ CanBind(vs, s.listen)

\* Mutant: a PUT of an existing VIP changes nothing.
AppliedNoop(vs, n, s, cfg) == IF vs[n] = NoVip THEN [vs EXCEPT ![n] = Entry(s, cfg)] ELSE vs

\* Mutant: the listener is compared with the one in the old spec.
AppliedBySpec(vs, n, s, cfg) ==
    [vs EXCEPT ![n] = IF vs[n] = NoVip THEN Entry(s, cfg)
                      ELSE [Entry(s, vs[n].cfg) EXCEPT
                               !.listen = IF s.listen # vs[n].spec.listen THEN s.listen
                                          ELSE vs[n].listen]]

\* An existing entry after put: the listener moves if it differs from the one it
\* has, the VRRP instance is replaced if the settings differ from the old spec's.
\* It keeps its from_config.
Updated(e, s) ==
    [e EXCEPT !.listen = IF s.listen # e.listen THEN s.listen ELSE @,
              !.backs  = s.ver,
              !.health = s.ca,
              !.vrrp   = IF s.vrrp # e.spec.vrrp THEN s.vrrp ELSE @,
              !.spec   = s]

\* The registry after put succeeded.
Applied(vs, n, s, cfg) ==
    [vs EXCEPT ![n] = IF vs[n] = NoVip THEN Entry(s, cfg) ELSE Updated(vs[n], s)]

\* The listener an applied change leaves to close.
Left(vs, n, s) ==
    IF vs[n] # NoVip /\ vs[n].listen # s.listen THEN {vs[n].listen} ELSE {}

-----------------------------------------------------------------------------
(* Requests: api.rs handle, vips.rs apply and remove. *)

Live(n) == IF vips[n] # NoVip /\ ~vips[n].cfg THEN vips[n].spec ELSE pending[n]

Begin(c, r) ==
    /\ alive /\ req[c].pc = "idle" /\ requests < MaxRequests
    /\ req' = [req EXCEPT ![c] = [Idle EXCEPT !.pc = r.op, !.op = r.op,
                                              !.name = r.name, !.spec = r.spec,
                                              !.prev = want[r.name]]]
    /\ requests' = requests + 1
    /\ want' = [want EXCEPT ![r.name] = @ \cup {r.spec}]
    /\ UNCHANGED <<mem, files, world>>

\* Nothing changed: the answer is an error and the name keeps what it had.
Refuse(c) ==
    /\ req' = [req EXCEPT ![c] = Idle]
    /\ want' = [want EXCEPT ![req[c].name] = req[c].prev]
    /\ UNCHANGED <<mem, files, world, requests>>

\* apply: the config file's VIP is read-only.
ReadOnly(c) ==
    /\ req[c].pc \in {"put", "delete"}
    /\ vips[req[c].name].cfg
    /\ Refuse(c)

\* Mutant: the config VIP is not looked for.
CheckedAny(c) ==
    /\ req[c].pc = "put"
    /\ req' = [req EXCEPT ![c].pc = "apply"]
    /\ UNCHANGED <<mem, files, world, requests, want>>

\* apply's first look at the registry found no config VIP of this name.
Checked(c) ==
    /\ req[c].pc = "put" /\ ~vips[req[c].name].cfg
    /\ req' = [req EXCEPT ![c].pc = "apply"]
    /\ UNCHANGED <<mem, files, world, requests, want>>

\* put refused it.
PutRefused(c) ==
    /\ req[c].pc = "apply"
    /\ ~Accepts(vips, req[c].name, req[c].spec)
    /\ Refuse(c)

Put(c) ==
    LET n == req[c].name
        s == req[c].spec
    IN  /\ req[c].pc = "apply"
        /\ Accepts(vips, n, s)
        /\ vips' = Applied(vips, n, s, FALSE)
        /\ closing' = closing \cup Left(vips, n, s)
        /\ req' = [req EXCEPT ![c].pc = "pend"]
        /\ UNCHANGED <<pending, files, world, requests, want>>

\* Mutant: the VRRP instance is replaced before set_spec can fail.
PutHalfVrrpToo(c) ==
    LET n == req[c].name
        s == req[c].spec
    IN  /\ req[c].pc = "apply" /\ s.ca /\ vips[n] # NoVip /\ env < MaxEnv
        /\ Accepts(vips, n, s)
        /\ caOk' = FALSE /\ env' = env + 1
        /\ vips' = [vips EXCEPT ![n] = [@ EXCEPT !.listen = s.listen, !.backs = s.ver,
                                                 !.vrrp = s.vrrp]]
        /\ closing' = closing \cup Left(vips, n, s)
        /\ req' = [req EXCEPT ![c] = Idle]
        /\ want' = [want EXCEPT ![n] = req[c].prev]
        /\ UNCHANGED <<pending, files, requests, taken, exits, phase, at, config>>

\* The CA file was readable for health_ok and is not for set_spec: put returns
\* Invalid with the listener moved and the backends replaced.
PutHalf(c) ==
    LET n == req[c].name
        s == req[c].spec
    IN  /\ env < MaxEnv
        /\ req[c].pc = "apply" /\ s.ca /\ vips[n] # NoVip
        /\ Accepts(vips, n, s)
        /\ caOk' = FALSE /\ env' = env + 1
        /\ vips' = [vips EXCEPT ![n] = [@ EXCEPT !.listen = s.listen, !.backs = s.ver]]
        /\ closing' = closing \cup Left(vips, n, s)
        /\ req' = [req EXCEPT ![c] = Idle]
        /\ want' = [want EXCEPT ![n] = req[c].prev]
        /\ UNCHANGED <<pending, files, requests, taken, exits, phase, at, config>>

\* apply: it no longer waits for a restart.
Unpend(c) ==
    /\ req[c].pc = "pend"
    /\ pending' = [pending EXCEPT ![req[c].name] = NoSpec]
    /\ req' = [req EXCEPT ![c].pc = "save"]
    /\ UNCHANGED <<vips, closing, files, world, requests, want>>

\* remove: a running VIP goes (Entry::drop aborts its tasks and stops its VRRP);
\* else a saved one that never started.
RemoveVip(c) ==
    LET n == req[c].name
    IN  /\ req[c].pc = "delete" /\ ~vips[n].cfg
        /\ Live(n) # NoSpec
        /\ vips' = [vips EXCEPT ![n] = NoVip]
        /\ pending' = IF vips[n] = NoVip THEN [pending EXCEPT ![n] = NoSpec] ELSE pending
        /\ closing' = closing \cup (IF vips[n] = NoVip THEN {} ELSE {vips[n].listen})
        /\ req' = [req EXCEPT ![c].pc = "save"]
        /\ UNCHANGED <<files, world, requests, want>>

RemoveUnknown(c) ==
    /\ req[c].pc = "delete" /\ Live(req[c].name) = NoSpec /\ ~vips[req[c].name].cfg
    /\ Refuse(c)

-----------------------------------------------------------------------------
(* save *)

\* Under pending's lock.
SavePending(c) ==
    /\ req[c].pc = "save"
    /\ req' = [req EXCEPT ![c] = [@ EXCEPT !.pc = "overlay", !.map = pending]]
    /\ UNCHANGED <<mem, files, world, requests, want>>

\* Mutant: VIPs that did not start are not written back.
OverlayRunningOnly(c) ==
    /\ req[c].pc = "overlay"
    /\ req' = [req EXCEPT ![c] = [@ EXCEPT !.pc = "open",
                          !.map = [n \in Names |->
                              IF vips[n] # NoVip /\ ~vips[n].cfg THEN vips[n].spec
                              ELSE NoSpec]]]
    /\ UNCHANGED <<mem, files, world, requests, want>>

\* Under the registry's lock: running API VIPs replace pending ones.
Overlay(c) ==
    /\ req[c].pc = "overlay"
    /\ req' = [req EXCEPT ![c] = [@ EXCEPT !.pc = "open",
                          !.map = [n \in Names |->
                              IF vips[n] # NoVip /\ ~vips[n].cfg THEN vips[n].spec
                              ELSE req[c].map[n]]]]
    /\ UNCHANGED <<mem, files, world, requests, want>>

InUse == {fileIno, tmpIno} \cup {req[c].ino : c \in Clients}

\* Mutant: state_file itself is rewritten in place.
OpenInPlace(c) ==
    \E ino \in IF fileIno # 0 THEN {fileIno} ELSE Inodes \ InUse :
        /\ req[c].pc = "open"
        /\ fileIno' = ino /\ tmpIno' = ino
        /\ disk' = [disk EXCEPT ![ino] = Empty]
        /\ req' = [req EXCEPT ![c] = [@ EXCEPT !.pc = "write", !.ino = ino]]
        /\ UNCHANGED <<mem, world, requests, want>>

\* write_atomic, std::fs::write: open .tmp, creating or truncating it ...
Open(c) ==
    \E ino \in IF tmpIno # 0 THEN {tmpIno} ELSE Inodes \ InUse :
        /\ req[c].pc = "open"
        /\ tmpIno' = ino
        /\ disk' = [disk EXCEPT ![ino] = Empty]
        /\ req' = [req EXCEPT ![c] = [@ EXCEPT !.pc = "write", !.ino = ino]]
        /\ UNCHANGED <<mem, fileIno, world, requests, want>>

\* ... and write the text from offset 0.  Over another writer's text the result
\* depends on the lengths: the new text, or a mixture.
Write(c) ==
    /\ req[c].pc = "write"
    /\ \E t \in {Text(req[c].map)} \cup (IF disk[req[c].ino] = Empty THEN {} ELSE {Empty}) :
           disk' = [disk EXCEPT ![req[c].ino] = t]
    /\ req' = [req EXCEPT ![c] = [@ EXCEPT !.pc = "rename", !.ino = 0]]
    /\ UNCHANGED <<mem, fileIno, tmpIno, world, requests, want>>

\* The answer is 200 or 201: the change is applied and saved.
Rename(c) ==
    /\ req[c].pc = "rename" /\ tmpIno # 0
    /\ fileIno' = tmpIno /\ tmpIno' = 0
    /\ req' = [req EXCEPT ![c] = Idle]
    /\ want' = [want EXCEPT ![req[c].name] = {req[c].spec}]
    /\ UNCHANGED <<mem, disk, world, requests>>

\* Another writer renamed .tmp away, or the file system fails the rename: 500,
\* applied but not saved.
RenameFails(c) ==
    /\ req[c].pc = "rename"
    /\ IF tmpIno = 0 THEN env' = env ELSE env < MaxEnv /\ env' = env + 1
    /\ req' = [req EXCEPT ![c] = Idle]
    /\ UNCHANGED <<mem, files, taken, caOk, exits, phase, at, config, requests, want>>

\* The file system fails the write: 500, applied but not saved.
WriteFails(c) ==
    /\ req[c].pc = "write" /\ env < MaxEnv
    /\ env' = env + 1
    /\ req' = [req EXCEPT ![c] = Idle]
    /\ UNCHANGED <<mem, files, taken, caOk, exits, phase, at, config, requests, want>>

-----------------------------------------------------------------------------
(* The runtime, the environment, exits and starts. *)

\* The runtime drops an aborted serve task: its listener closes.
Closed(a) ==
    /\ a \in closing
    /\ closing' = closing \ {a}
    /\ UNCHANGED <<vips, pending, req, files, world, requests, want>>

\* Another process takes or leaves a listener; the CA file goes or comes back.
TakenChange(a) ==
    /\ env < MaxEnv
    /\ a \notin closing /\ \A n \in Names : vips[n] # NoVip => vips[n].listen # a
    /\ taken' = IF a \in taken THEN taken \ {a} ELSE taken \cup {a}
    /\ env' = env + 1
    /\ UNCHANGED <<mem, req, files, caOk, exits, phase, at, config, requests, want>>

CaChange ==
    /\ env < MaxEnv
    /\ caOk' = ~caOk /\ env' = env + 1
    /\ UNCHANGED <<mem, req, files, taken, exits, phase, at, config, requests, want>>

\* The process ends, at any point of any request or of its start.
Exit ==
    /\ phase # "down" /\ exits < MaxExits
    /\ phase' = "down" /\ at' = 0 /\ exits' = exits + 1
    /\ vips' = [n \in Names |-> NoVip]
    /\ pending' = [n \in Names |-> NoSpec]
    /\ closing' = {}
    /\ req' = [c \in Clients |-> Idle]
    /\ UNCHANGED <<files, taken, caOk, env, config, requests, want>>

\* main: the [vip] of the config file first; a failure ends the process.
Boot(cfg) ==
    LET none == [n \in Names |-> NoVip]
    IN  /\ phase = "down"
        /\ cfg # NoSpec => Accepts(none, Default, cfg)
        /\ phase' = "loading" /\ config' = cfg
        /\ vips' = IF cfg = NoSpec THEN none ELSE Applied(none, Default, cfg, TRUE)
        /\ UNCHANGED <<pending, closing, req, files, taken, caOk, exits, env, at, requests,
                       want>>

\* load_state's map; a file that does not parse is only logged.
SavedMap == IF fileIno # 0 /\ disk[fileIno].kind = "map" THEN disk[fileIno].map
            ELSE [n \in Names |-> NoSpec]

\* load_state: one saved VIP after the other; what does not start is pending.
Load ==
    LET n == NameOrder[at + 1]
        s == SavedMap[n]
        starts == s # NoSpec /\ Accepts(vips, n, s)
    IN  /\ phase = "loading" /\ at < Len(NameOrder)
        /\ at' = at + 1
        /\ vips' = IF starts THEN Applied(vips, n, s, FALSE) ELSE vips
        /\ pending' = IF starts THEN pending ELSE [pending EXCEPT ![n] = s]
        /\ closing' = IF starts THEN closing \cup Left(vips, n, s) ELSE closing
        /\ UNCHANGED <<req, files, taken, caOk, exits, env, phase, config, requests, want>>

\* Then the API listens.
Listening ==
    /\ phase = "loading" /\ at = Len(NameOrder)
    /\ phase' = "up" /\ at' = 0
    /\ UNCHANGED <<mem, req, files, taken, caOk, exits, env, config, requests, want>>

Init ==
    /\ phase = "down" /\ at = 0 /\ config = NoSpec
    /\ vips = [n \in Names |-> NoVip]
    /\ pending = [n \in Names |-> NoSpec]
    /\ closing = {}
    /\ req = [c \in Clients |-> Idle]
    /\ disk = [i \in Inodes |-> Empty] /\ fileIno = 0 /\ tmpIno = 0
    /\ taken = {} /\ caOk = TRUE
    /\ requests = 0 /\ exits = 0 /\ env = 0
    /\ want = [n \in Names |-> {NoSpec}]

Step(c) ==
    \/ ReadOnly(c) \/ Checked(c) \/ PutRefused(c) \/ Put(c) \/ PutHalf(c) \/ Unpend(c)
    \/ RemoveVip(c) \/ RemoveUnknown(c)
    \/ SavePending(c) \/ Overlay(c) \/ Open(c) \/ Write(c)
    \/ Rename(c) \/ RenameFails(c) \/ WriteFails(c)

Listens == {s.listen : s \in {t \in Specs : Check(t)}}

Next ==
    \/ \E c \in Clients : Step(c) \/ \E r \in Requests[c] : Begin(c, r)
    \/ \E a \in Listens : Closed(a) \/ TakenChange(a)
    \/ CaChange \/ Exit \/ Load \/ Listening
    \/ \E cfg \in ConfigAtBoot : Boot(cfg)

Spec == Init /\ [][Next]_vars

-----------------------------------------------------------------------------
(* Properties. *)

\* README: "With state_file, every change is saved", and the file brings the VIPs
\* back after a restart.  While the process runs, each name has what its last
\* acknowledged change gave it, or what a change under way or answered 500 may.
AckedSurvives == alive => \A n \in Names : Live(n) \in want[n]

\* design.md: "a file and an API never fight over one VIP": the config VIP is what
\* the config file says.
ConfigStands ==
    phase # "down" /\ config # NoSpec => vips[Default] = Entry(config, TRUE)

\* vips.rs, put: "Everything that can fail first, so a refusal changes nothing".  So
\* what a VIP reports is what it does: listener, backends, health check and VRRP
\* instance are those of its spec.
ServesItsSpec == \A n \in Names : vips[n] # NoVip => vips[n] = Entry(vips[n].spec, vips[n].cfg)

\* A PUT that put accepts makes the VIP do what its spec says, all of it, whatever an
\* earlier PUT refused half-way left of the listener and the backends: put replaces
\* only what it finds to differ, and it must not compare with the wrong copy.
PutServes ==
    [][\A c \in Clients :
           LET n == req[c].name
           IN  req[c].pc = "apply" /\ req'[c].pc = "pend"
                   => vips'[n] = Entry(req[c].spec, vips[n].cfg)]_vars

-----------------------------------------------------------------------------
(* The registry implements RegistrySpec, one request at a time. *)

Saved == IF fileIno = 0 THEN [n \in Names |-> NoSpec] ELSE disk[fileIno].map

Durable == INSTANCE RegistrySpec WITH
    up <- alive, current <- [n \in Names |-> IF alive THEN Live(n) ELSE NoSpec],
    saved <- Saved,
    open <- \E c \in Clients : req[c].pc \in {"pend", "save", "overlay", "open", "write",
                                              "rename"}

\* README: "saved (JSON, written atomically on every change) and read back at
\* start": through refusals, failed writes and exits at any point, the running
\* VIPs and the file are the two copies of RegistrySpec.
ImplementsSpec == Durable!Spec
=============================================================================
