--------------------------- MODULE RegistryProofs ---------------------------
(***************************************************************************)
(* Proofs about Registry, for any names, specs, requests, listeners and    *)
(* bounds.  What an accepted PUT makes a VIP do, and the config file's VIP, *)
(* are settled for any number of clients.  That acknowledged changes survive, and that the     *)
(* registry implements RegistrySpec, is proved for one request at a time:  *)
(* the run registry_concurrent shows that it fails for two.                *)
(***************************************************************************)
EXTENDS Registry, SequenceTheorems, TLAPS

AnySpec == Specs \cup {NoSpec}
Maps    == [Names -> AnySpec]
Fields  == [spec : AnySpec, cfg : BOOLEAN, listen : {s.listen : s \in AnySpec},
            backs : Nat, health : BOOLEAN, vrrp : Nat]

\* An entry.  put replaces the VRRP instance and the spec together or neither, so
\* an entry's instance is its spec's, which put relies on when it compares specs.
Vip     == {e \in Fields : e.vrrp = e.spec.vrrp}

\* Where a request is: before its change, and from the change to the answer.
Before  == {"put", "delete", "apply"}
Changed == {"pend", "save", "overlay", "open", "write", "rename"}

Request == [pc : {"idle"} \cup Before \cup Changed, op : {"none", "put", "delete"},
            name : Names \cup {"none"}, spec : AnySpec, ino : Inodes \cup {0},
            prev : SUBSET AnySpec, map : Maps]

\* The types, and which requests there are.
TypeInv ==
    /\ vips \in [Names -> Vip]
    /\ pending \in Maps
    /\ req \in [Clients -> Request]
    /\ disk \in [Inodes -> [kind : {"torn", "map"}, map : Maps]]
    /\ fileIno \in Inodes \cup {0} /\ tmpIno \in Inodes \cup {0}
    /\ phase \in {"down", "loading", "up"}
    /\ at \in 0..Len(NameOrder)
    /\ config \in AnySpec
    /\ want \in [Names -> SUBSET AnySpec]

\* Requests are in progress while the API is up; each is of one of the names, and
\* what it asks for fits its kind.
RequestInv ==
    \A c \in Clients :
        /\ req[c].pc # "idle" => alive /\ req[c].name \in Names
        /\ req[c].pc \in {"put", "apply", "pend"} => req[c].spec \in Specs
        /\ req[c].pc = "delete" => req[c].spec = NoSpec
        /\ req[c].ino # 0 => req[c].pc = "write"

\* What the process is doing: nothing runs while it is down, and only the config
\* file's VIP is marked as that file's.
PhaseInv ==
    /\ phase # "loading" => at = 0
    /\ phase = "down" => \A n \in Names : vips[n] = NoVip /\ pending[n] = NoSpec
    /\ phase # "down" => config \in ConfigAtBoot
    /\ \A n \in Names :
           /\ vips[n].cfg <=> n = Default /\ config # NoSpec /\ phase # "down"
           /\ vips[n] # NoVip => vips[n].spec \in Specs

\* The config file names a VIP at every start or at none.
ConfigSteady == ConfigAtBoot = {NoSpec} \/ NoSpec \notin ConfigAtBoot

\* With a config file's VIP its name is in no copy of the saved VIPs, and no
\* request about it gets past apply's or remove's first look.
DefaultInv ==
    NoSpec \notin ConfigAtBoot =>
        /\ pending[Default] = NoSpec
        /\ \A i \in Inodes : disk[i].map[Default] = NoSpec
        /\ \A c \in Clients :
               /\ req[c].map[Default] = NoSpec
               /\ req[c].pc \in Changed \cup {"apply"} => req[c].name # Default

\* One request at a time.
OneAtATime == \A c, d \in Clients : c = d

\* A VIP that runs is not waiting for a restart, but for the moment between put
\* and apply's next line.
PendingInv ==
    \A n \in Names :
        vips[n] # NoVip /\ ~vips[n].cfg /\ pending[n] # NoSpec =>
            \E c \in Clients : req[c].pc = "pend" /\ req[c].name = n

\* load_state has brought back the names it is done with, and no other.
LoadInv ==
    phase = "loading" =>
        \A i \in DOMAIN NameOrder :
            LET n == NameOrder[i]
            IN  IF i <= at THEN Live(n) = SavedMap[n]
                ELSE (vips[n] = NoVip \/ vips[n].cfg) /\ pending[n] = NoSpec

\* The two files: state_file is whole, .tmp is another file, and it has what the
\* request that wrote it took for the registry's contents, which is what they are.
FileInv ==
    /\ fileIno # 0 => disk[fileIno].kind = "map" /\ fileIno # tmpIno
    /\ \A c \in Clients :
           /\ req[c].pc = "overlay" => req[c].map = pending
           /\ req[c].pc \in {"open", "write", "rename"} =>
                  \A n \in Names : req[c].map[n] = Live(n)
           /\ req[c].pc = "write" =>
                  tmpIno # 0 /\ req[c].ino = tmpIno /\ disk[tmpIno] = Empty
           /\ req[c].pc = "rename" => tmpIno # 0 /\ disk[tmpIno] = Text(req[c].map)

\* What the answers allow: the running VIPs and the file have it, and a request
\* that may still be refused leaves them within what was allowed before it.
WantInv ==
    /\ \A n \in Names : SavedMap[n] \in want[n]
    /\ alive => \A n \in Names : Live(n) \in want[n]
    /\ \A c \in Clients :
           LET n == req[c].name
           IN  /\ req[c].pc \in Before =>
                      /\ Live(n) \in req[c].prev /\ SavedMap[n] \in req[c].prev
                      /\ req[c].spec \in want[n]
               /\ req[c].pc \in Changed => Live(n) = req[c].spec
               /\ req[c].pc = "pend" => vips[n] # NoVip /\ ~vips[n].cfg

ConfigInv == TypeInv /\ RequestInv /\ PhaseInv /\ DefaultInv /\ ConfigStands
SavingInv == PendingInv /\ LoadInv /\ FileInv /\ WantInv
-----------------------------------------------------------------------------
(* The operators of put. *)

\* NoSpec and NoVip stand for a missing spec and a missing entry, and are of the
\* same shape.
LEMMA Nothing ==
    /\ NoSpec \in AnySpec
    /\ NoVip \in Vip /\ NoVip.spec = NoSpec /\ NoVip.cfg = FALSE
    /\ [n \in Names |-> NoSpec] \in Maps
    /\ Idle \in Request /\ Idle.pc = "idle" /\ Idle.ino = 0
    /\ Idle.map = [n \in Names |-> NoSpec]
<1>1. NoSpec \in AnySpec
  BY DEF AnySpec
<1>2. NoVip \in Vip /\ NoVip.spec = NoSpec
  <2>0. NoSpec.listen = "none"
    BY DEF NoSpec
  <2>1. \A b \in BOOLEAN :
            [spec |-> NoSpec, cfg |-> b, listen |-> "none", backs |-> 0, health |-> b,
             vrrp |-> 0] \in Fields
    BY <1>1, <2>0 DEF Fields
  <2>2. NoVip \in Fields
    BY <2>1, Zenon DEF NoVip
  <2>3. NoVip.vrrp = 0 /\ NoVip.spec.vrrp = 0
    BY DEF NoVip, NoSpec
  <2>4. NoVip.spec = NoSpec
    BY DEF NoVip
  <2> QED
    BY <2>2, <2>3, <2>4 DEF Vip
<1>3. NoVip.cfg = FALSE
  BY DEF NoVip
<1>4. [n \in Names |-> NoSpec] \in Maps
  BY <1>1 DEF Maps
<1>5. Idle.pc = "idle" /\ Idle.ino = 0 /\ Idle.map = [n \in Names |-> NoSpec]
  BY DEF Idle
<1>6. Idle \in Request
  <2> DEFINE none == [n \in Names |-> NoSpec]
  <2>1. none \in Maps
    BY <1>4
  <2> HIDE DEF none
  <2>2. [pc |-> "idle", op |-> "none", name |-> "none", spec |-> NoSpec, ino |-> 0,
         prev |-> {}, map |-> none] \in Request
    BY <1>1, <2>1 DEF Request
  <2> QED
    BY <2>2 DEF Idle, none
<1> QED
  BY <1>1, <1>2, <1>3, <1>4, <1>5, <1>6

\* An entry has its spec's settings; with a spec it is not a missing one.
LEMMA EntryFacts ==
    ASSUME NEW s \in Specs, NEW cfg \in BOOLEAN
    PROVE  /\ Entry(s, cfg) \in Vip
           /\ Entry(s, cfg).spec = s
           /\ Entry(s, cfg).cfg = cfg
           /\ Entry(s, cfg).listen = s.listen
           /\ Entry(s, cfg) # NoVip
<1>1. s \in [listen : STRING, ver : Nat, ca : BOOLEAN, vrrp : Nat] /\ s # NoSpec
  BY RegistryAssumption
<1>2. s.listen \in STRING /\ s.ver \in Nat /\ s.vrrp \in Nat
  BY <1>1
<1>3. s.ca \in BOOLEAN
  BY <1>1
<1>4. Entry(s, cfg) \in Vip
  <2>1. Entry(s, cfg) \in Fields
    BY <1>2, <1>3 DEF Entry, Fields, AnySpec
  <2>2. Entry(s, cfg).vrrp = Entry(s, cfg).spec.vrrp
    BY DEF Entry
  <2> QED
    BY <2>1, <2>2 DEF Vip
<1>5. Entry(s, cfg).cfg = cfg
  BY DEF Entry
<1>6. Entry(s, cfg).spec = s /\ Entry(s, cfg).listen = s.listen
  BY DEF Entry
<1>7. NoVip.spec = NoSpec
  BY DEF NoVip
<1> QED
  BY <1>1, <1>4, <1>5, <1>6, <1>7

\* What can be read back from an entry.
LEMMA EntryReads ==
    \A s \in Specs : \A b \in BOOLEAN :
        Entry(s, b).spec = s /\ Entry(s, b).cfg = b /\ Entry(s, b) # NoVip
<1> SUFFICES ASSUME NEW s \in Specs, NEW b \in BOOLEAN
             PROVE  Entry(s, b).spec = s /\ Entry(s, b).cfg = b /\ Entry(s, b) # NoVip
  OBVIOUS
<1> QED
  BY EntryFacts

\* Replacing what differs gives the whole of what the spec says: the listener is
\* compared with the one in use, and the VRRP settings with a spec whose instance
\* is running.
LEMMA UpdatedServes ==
    ASSUME NEW e \in Vip, NEW s \in Specs
    PROVE  Updated(e, s) = Entry(s, e.cfg)
<1>1. e \in Fields /\ e.vrrp = e.spec.vrrp
  BY DEF Vip
<1>2. (IF s.listen # e.listen THEN s.listen ELSE e.listen) = s.listen
  OBVIOUS
<1>3. (IF s.vrrp # e.spec.vrrp THEN s.vrrp ELSE e.vrrp) = s.vrrp
  BY <1>1
<1>4. Updated(e, s) = [e EXCEPT !.listen = s.listen, !.backs = s.ver, !.health = s.ca,
                                !.vrrp = s.vrrp, !.spec = s]
  BY <1>1, <1>2, <1>3 DEF Updated, Fields
<1> QED
  BY <1>1, <1>4 DEF Entry, Fields

\* What put leaves of the registry, and what load_state reads, is well typed.
LEMMA PutTypes ==
    ASSUME TypeInv, NEW n \in Names, NEW s \in Specs, NEW cfg \in BOOLEAN
    PROVE  /\ Applied(vips, n, s, cfg) \in [Names -> Vip]
           /\ \A m \in Names \ {n} : Applied(vips, n, s, cfg)[m] = vips[m]
           /\ \E b \in BOOLEAN :
                  /\ b = IF vips[n] = NoVip THEN cfg ELSE vips[n].cfg
                  /\ Applied(vips, n, s, cfg)[n] = Entry(s, b)
<1> DEFINE b == IF vips[n] = NoVip THEN cfg ELSE vips[n].cfg
<1>1. vips \in [Names -> Vip] /\ vips[n].cfg \in BOOLEAN
  BY DEF TypeInv, Vip, Fields
<1>2. b \in BOOLEAN
  BY <1>1
<1>3. Applied(vips, n, s, cfg) = [vips EXCEPT ![n] = Entry(s, b)]
  <2>1. CASE vips[n] = NoVip
    BY <2>1 DEF Applied
  <2>2. CASE vips[n] # NoVip
    <3>1. vips[n] \in Vip
      BY <1>1
    <3>2. Updated(vips[n], s) = Entry(s, vips[n].cfg)
      BY <3>1, UpdatedServes
    <3> QED
      BY <2>2, <3>2 DEF Applied
  <2> QED
    BY <2>1, <2>2
<1> HIDE DEF b
<1>4. Entry(s, b) \in Vip
  BY <1>2, EntryFacts
<1>5. /\ Applied(vips, n, s, cfg) \in [Names -> Vip]
      /\ \A m \in Names \ {n} : Applied(vips, n, s, cfg)[m] = vips[m]
      /\ Applied(vips, n, s, cfg)[n] = Entry(s, b)
  BY <1>1, <1>3, <1>4
<1> QED
  BY <1>2, <1>5 DEF b

\* load_state's map is a map of the names.
LEMMA SavedType == ASSUME TypeInv PROVE SavedMap \in Maps
<1>1. CASE fileIno # 0 /\ disk[fileIno].kind = "map"
  BY <1>1 DEF TypeInv, SavedMap
<1>2. CASE ~(fileIno # 0 /\ disk[fileIno].kind = "map")
  BY <1>2, Nothing DEF SavedMap
<1> QED
  BY <1>1, <1>2

\* A request r that is well formed may take the place of another.
LEMMA RequestStep ==
    ASSUME TypeInv, RequestInv, NEW c \in Clients, NEW r \in Request,
           req' = [req EXCEPT ![c] = r], phase' = phase,
           r.pc # "idle" => alive /\ r.name \in Names,
           r.pc \in {"put", "apply", "pend"} => r.spec \in Specs,
           r.pc = "delete" => r.spec = NoSpec,
           r.ino # 0 => r.pc = "write"
    PROVE  /\ req' \in [Clients -> Request] /\ RequestInv'
           /\ req'[c] = r /\ \A d \in Clients \ {c} : req'[d] = req[d]
<1>1. req' \in [Clients -> Request] /\ req'[c] = r
      /\ \A d \in Clients \ {c} : req'[d] = req[d]
  BY DEF TypeInv
<1>2. RequestInv'
  BY <1>1 DEF RequestInv, alive
<1> QED
  BY <1>1, <1>2

\* A request goes on to p, with nothing else of it changed.
LEMMA Moved ==
    ASSUME NEW r \in Request, NEW p \in {"idle"} \cup Before \cup Changed
    PROVE  LET q == [r EXCEPT !.pc = p]
           IN  /\ q \in Request /\ q.pc = p /\ q.op = r.op /\ q.name = r.name
               /\ q.spec = r.spec /\ q.ino = r.ino /\ q.prev = r.prev /\ q.map = r.map
BY DEF Request

\* What a step that only moves a request leaves of it and of the others.
LEMMA PcOnly ==
    ASSUME TypeInv, NEW c \in Clients, NEW p, req' = [req EXCEPT ![c].pc = p]
    PROVE  /\ req'[c].pc = p /\ req'[c].name = req[c].name /\ req'[c].spec = req[c].spec
           /\ req'[c].ino = req[c].ino /\ req'[c].prev = req[c].prev
           /\ req'[c].map = req[c].map
           /\ \A d \in Clients \ {c} : req'[d] = req[d]
BY DEF TypeInv, Request

\* The request is answered.
LEMMA Answered ==
    ASSUME TypeInv, NEW c \in Clients, req' = [req EXCEPT ![c] = Idle]
    PROVE  req'[c] = Idle /\ \A d \in Clients \ {c} : req'[d] = req[d]
BY DEF TypeInv

-----------------------------------------------------------------------------
(* Types and requests. *)

\* Every step keeps the types and the form of the requests.
LEMMA TypeStep == TypeInv /\ RequestInv /\ [Next]_vars => TypeInv' /\ RequestInv'
<1> SUFFICES ASSUME TypeInv, RequestInv, [Next]_vars PROVE TypeInv' /\ RequestInv'
  OBVIOUS
<1> USE Nothing
<1>1. ASSUME NEW c \in Clients, NEW r \in Requests[c], Begin(c, r)
      PROVE  TypeInv' /\ RequestInv'
  <2> DEFINE q == [Idle EXCEPT !.pc = r.op, !.op = r.op, !.name = r.name, !.spec = r.spec,
                               !.prev = want[r.name]]
  <2>1. /\ r.op \in {"put", "delete"} /\ r.name \in Names /\ r.spec \in AnySpec
        /\ r.op = "put" => r.spec \in Specs
        /\ r.op = "delete" => r.spec = NoSpec
    BY RegistryAssumption DEF AnySpec
  <2>2. want[r.name] \in SUBSET AnySpec
    BY <2>1 DEF TypeInv
  <2>3. /\ q \in Request /\ q.pc = r.op /\ q.name = r.name /\ q.spec = r.spec /\ q.ino = 0
    BY <2>1, <2>2 DEF Request, Before
  <2>4. req' = [req EXCEPT ![c] = q] /\ phase' = phase /\ alive
    BY <1>1 DEF Begin, world
  <2> HIDE DEF q
  <2>5. req' \in [Clients -> Request] /\ RequestInv'
    BY <2>1, <2>3, <2>4, RequestStep
  <2>6. want' = [want EXCEPT ![r.name] = @ \cup {r.spec}]
    BY <1>1 DEF Begin
  <2>7. want' \in [Names -> SUBSET AnySpec]
    BY <2>1, <2>6 DEF TypeInv
  <2> QED
    BY <1>1, <2>5, <2>7 DEF Begin, TypeInv, mem, files, world
<1>2. ASSUME NEW c \in Clients, req[c].pc \in Before, req' = [req EXCEPT ![c] = Idle],
             phase' = phase
      PROVE  req' \in [Clients -> Request] /\ RequestInv'
  BY <1>2, RequestStep
<1>3. ASSUME NEW c \in Clients, req[c].pc \in Before, Refuse(c)
      PROVE  TypeInv' /\ RequestInv'
  <2>1. req' \in [Clients -> Request] /\ RequestInv'
    BY <1>2, <1>3 DEF Refuse, world
  <2>2. req[c].prev \in SUBSET AnySpec
    BY DEF TypeInv, Request
  <2>3. want' \in [Names -> SUBSET AnySpec]
    BY <1>3, <2>2 DEF Refuse, TypeInv
  <2> QED
    BY <1>3, <2>1, <2>3 DEF Refuse, TypeInv, mem, files, world
<1>4. ASSUME NEW c \in Clients, NEW p \in Changed \cup {"apply"}, req[c].pc # "idle",
             req' = [req EXCEPT ![c].pc = p], phase' = phase,
             p \in {"apply", "pend"} => req[c].spec \in Specs,
             req[c].pc # "write"
      PROVE  req' \in [Clients -> Request] /\ RequestInv'
  <2> DEFINE q == [req[c] EXCEPT !.pc = p]
  <2>1. req[c] \in Request
    BY DEF TypeInv
  <2>2. /\ q \in Request /\ q.pc = p /\ q.name = req[c].name /\ q.spec = req[c].spec
        /\ q.ino = req[c].ino
    BY <2>1, Moved DEF Before
  <2>3. req' = [req EXCEPT ![c] = q]
    BY <1>4
  <2> HIDE DEF q
  <2>4. p # "put" /\ p # "delete" /\ p # "idle"
    BY DEF Changed
  <2>5. alive /\ req[c].name \in Names /\ req[c].ino = 0
    BY <1>4 DEF RequestInv
  <2>6. /\ q.pc # "idle" => alive /\ q.name \in Names
        /\ q.pc \in {"put", "apply", "pend"} => q.spec \in Specs
        /\ q.pc = "delete" => q.spec = NoSpec
        /\ q.ino # 0 => q.pc = "write"
    BY <1>4, <2>2, <2>4, <2>5
  <2> QED
    BY <1>4, <2>2, <2>3, <2>6, RequestStep
<1>5. ASSUME NEW c \in Clients, Checked(c) PROVE TypeInv' /\ RequestInv'
  <2>1. req[c].spec \in Specs
    BY <1>5 DEF Checked, RequestInv
  <2>2. req' \in [Clients -> Request] /\ RequestInv'
    BY <1>4, <1>5, <2>1 DEF Checked, world
  <2> QED
    BY <1>5, <2>2 DEF Checked, TypeInv, mem, files, world
<1>6. ASSUME NEW c \in Clients, Put(c) PROVE TypeInv' /\ RequestInv'
  <2>1. req[c].spec \in Specs /\ req[c].name \in Names
    BY <1>6 DEF Put, RequestInv
  <2>2. req' \in [Clients -> Request] /\ RequestInv'
    BY <1>4, <1>6, <2>1 DEF Put, world, Changed
  <2>3. vips' \in [Names -> Vip]
    <3>1. vips' = Applied(vips, req[c].name, req[c].spec, FALSE)
      BY <1>6 DEF Put
    <3>2. FALSE \in BOOLEAN
      OBVIOUS
    <3> QED
      BY <2>1, <3>1, <3>2, PutTypes
  <2> QED
    BY <1>6, <2>2, <2>3 DEF Put, TypeInv, files, world
<1>7. ASSUME NEW c \in Clients, PutHalf(c) PROVE TypeInv' /\ RequestInv'
  <2>1. req' \in [Clients -> Request] /\ RequestInv'
    BY <1>2, <1>7 DEF PutHalf, Before
  <2>2. req[c].spec \in Specs /\ req[c].name \in Names
    BY <1>7 DEF PutHalf, RequestInv
  <2>3. req[c].prev \in SUBSET AnySpec
    BY DEF TypeInv, Request
  <2>4. want' \in [Names -> SUBSET AnySpec]
    BY <1>7, <2>3 DEF PutHalf, TypeInv
  <2>5. vips' \in [Names -> Vip]
    <3> DEFINE n == req[c].name
               e == [vips[n] EXCEPT !.listen = req[c].spec.listen, !.backs = req[c].spec.ver]
    <3>1. vips[n] \in Vip
      BY <2>2 DEF TypeInv
    <3>2. req[c].spec.ver \in Nat /\ req[c].spec.listen \in {s.listen : s \in AnySpec}
      BY <2>2, RegistryAssumption DEF AnySpec
    <3>3. e \in Fields /\ e.vrrp = vips[n].vrrp /\ e.spec = vips[n].spec
      BY <3>1, <3>2 DEF Vip, Fields
    <3>4. e \in Vip
      BY <3>1, <3>3 DEF Vip
    <3>5. vips' = [vips EXCEPT ![n] = e]
      BY <1>7 DEF PutHalf
    <3> HIDE DEF e
    <3> QED
      BY <3>4, <3>5 DEF TypeInv
  <2> QED
    BY <1>7, <2>1, <2>4, <2>5 DEF PutHalf, TypeInv, files
<1>8. ASSUME NEW c \in Clients, Unpend(c) PROVE TypeInv' /\ RequestInv'
  <2>1. req' \in [Clients -> Request] /\ RequestInv'
    BY <1>4, <1>8 DEF Unpend, world, Changed
  <2>2. pending' \in Maps
    BY <1>8 DEF Unpend, TypeInv, Maps
  <2> QED
    BY <1>8, <2>1, <2>2 DEF Unpend, TypeInv, files, world
<1>9. ASSUME NEW c \in Clients, RemoveVip(c) PROVE TypeInv' /\ RequestInv'
  <2>1. req' \in [Clients -> Request] /\ RequestInv'
    BY <1>4, <1>9 DEF RemoveVip, world, Changed
  <2>2. pending' \in Maps
    BY <1>9 DEF RemoveVip, TypeInv, Maps
  <2>3. vips' \in [Names -> Vip]
    BY <1>9 DEF RemoveVip, TypeInv
  <2> QED
    BY <1>9, <2>1, <2>2, <2>3 DEF RemoveVip, TypeInv, files, world
<1>10. ASSUME NEW c \in Clients, NEW p \in {"overlay", "open"}, NEW m \in Maps,
              req[c].pc \in {"save", "overlay"},
              req' = [req EXCEPT ![c] = [req[c] EXCEPT !.pc = p, !.map = m]], phase' = phase
       PROVE  req' \in [Clients -> Request] /\ RequestInv'
  <2> DEFINE q == [req[c] EXCEPT !.pc = p, !.map = m]
  <2>1. req[c] \in Request /\ p \in Changed
    BY DEF TypeInv, Changed
  <2>2. /\ q \in Request /\ q.pc = p /\ q.name = req[c].name /\ q.spec = req[c].spec
        /\ q.ino = req[c].ino
    BY <2>1 DEF Request
  <2>3. req' = [req EXCEPT ![c] = q]
    BY <1>10, <2>1 DEF TypeInv
  <2> HIDE DEF q
  <2>4. alive /\ req[c].name \in Names /\ req[c].ino = 0
    BY <1>10 DEF RequestInv
  <2>5. /\ q.pc # "idle" => alive /\ q.name \in Names
        /\ q.pc \in {"put", "apply", "pend"} => q.spec \in Specs
        /\ q.pc = "delete" => q.spec = NoSpec
        /\ q.ino # 0 => q.pc = "write"
    BY <2>2, <2>4
  <2> QED
    BY <1>10, <2>2, <2>3, <2>5, RequestStep
<1>11. ASSUME NEW c \in Clients, SavePending(c) PROVE TypeInv' /\ RequestInv'
  <2>1. req' \in [Clients -> Request] /\ RequestInv'
    BY <1>10, <1>11 DEF SavePending, world, TypeInv
  <2> QED
    BY <1>11, <2>1 DEF SavePending, TypeInv, mem, files, world
<1>12. ASSUME NEW c \in Clients, Overlay(c) PROVE TypeInv' /\ RequestInv'
  <2> DEFINE m == [n \in Names |-> IF vips[n] # NoVip /\ ~vips[n].cfg THEN vips[n].spec
                                   ELSE req[c].map[n]]
  <2>1. \A n \in Names : vips[n].spec \in AnySpec /\ req[c].map[n] \in AnySpec
    BY DEF TypeInv, Vip, Fields, Request, Maps
  <2>2. m \in Maps
    BY <2>1 DEF Maps
  <2>3. req' = [req EXCEPT ![c] = [req[c] EXCEPT !.pc = "open", !.map = m]]
    BY <1>12 DEF Overlay
  <2> HIDE DEF m
  <2>4. req' \in [Clients -> Request] /\ RequestInv'
    BY <1>10, <1>12, <2>2, <2>3 DEF Overlay, world
  <2> QED
    BY <1>12, <2>4 DEF Overlay, TypeInv, mem, files, world
<1>13. ASSUME NEW c \in Clients, NEW p \in {"write", "rename"}, NEW i \in Inodes \cup {0},
              req[c].pc \in {"open", "write"}, p = "rename" => i = 0,
              req' = [req EXCEPT ![c] = [req[c] EXCEPT !.pc = p, !.ino = i]], phase' = phase
       PROVE  req' \in [Clients -> Request] /\ RequestInv'
  <2> DEFINE q == [req[c] EXCEPT !.pc = p, !.ino = i]
  <2>1. req[c] \in Request /\ p \in Changed
    BY DEF TypeInv, Changed
  <2>2. /\ q \in Request /\ q.pc = p /\ q.name = req[c].name /\ q.spec = req[c].spec
        /\ q.ino = i
    BY <2>1 DEF Request
  <2>3. req' = [req EXCEPT ![c] = q]
    BY <1>13, <2>1 DEF TypeInv
  <2> HIDE DEF q
  <2>4. alive /\ req[c].name \in Names
    BY <1>13 DEF RequestInv
  <2> QED
    BY <1>13, <2>2, <2>3, <2>4, RequestStep
<1>14. ASSUME NEW c \in Clients, Open(c) PROVE TypeInv' /\ RequestInv'
  <2>1. PICK ino \in IF tmpIno # 0 THEN {tmpIno} ELSE Inodes \ InUse :
            /\ req[c].pc = "open"
            /\ tmpIno' = ino
            /\ disk' = [disk EXCEPT ![ino] = Empty]
            /\ req' = [req EXCEPT ![c] = [req[c] EXCEPT !.pc = "write", !.ino = ino]]
            /\ UNCHANGED <<mem, fileIno, world, requests, want>>
    BY <1>14 DEF Open
  <2>2. ino \in Inodes
    BY <2>1 DEF TypeInv
  <2>3. req' \in [Clients -> Request] /\ RequestInv'
    BY <1>13, <2>1, <2>2 DEF world
  <2>4. disk' \in [Inodes -> [kind : {"torn", "map"}, map : Maps]]
    BY <2>1 DEF TypeInv, Empty
  <2> QED
    BY <2>1, <2>2, <2>3, <2>4 DEF TypeInv, mem, world
<1>15. ASSUME NEW c \in Clients, Write(c) PROVE TypeInv' /\ RequestInv'
  <2>1. req' \in [Clients -> Request] /\ RequestInv'
    BY <1>13, <1>15 DEF Write, world
  <2>2. req[c].map \in Maps
    BY DEF TypeInv, Request
  <2>3. disk' \in [Inodes -> [kind : {"torn", "map"}, map : Maps]]
    <3>1. Empty \in [kind : {"torn", "map"}, map : Maps]
      BY DEF Empty
    <3>2. Text(req[c].map) \in [kind : {"torn", "map"}, map : Maps]
      BY <2>2 DEF Text
    <3>3. PICK t \in {Text(req[c].map), Empty} : disk' = [disk EXCEPT ![req[c].ino] = t]
      BY <1>15 DEF Write
    <3> QED
      BY <3>1, <3>2, <3>3 DEF TypeInv
  <2> QED
    BY <1>15, <2>1, <2>3 DEF Write, TypeInv, mem, world
<1>16. ASSUME NEW c \in Clients, req' = [req EXCEPT ![c] = Idle], phase' = phase
       PROVE  req' \in [Clients -> Request] /\ RequestInv'
  BY <1>16, RequestStep
<1>17. ASSUME NEW c \in Clients, Rename(c) PROVE TypeInv' /\ RequestInv'
  <2>1. req' \in [Clients -> Request] /\ RequestInv'
    BY <1>16, <1>17 DEF Rename, world
  <2>2. req[c].spec \in AnySpec
    BY DEF TypeInv, Request
  <2>3. want' \in [Names -> SUBSET AnySpec]
    BY <1>17, <2>2 DEF Rename, TypeInv
  <2> QED
    BY <1>17, <2>1, <2>3 DEF Rename, TypeInv, mem, world
<1>18. ASSUME NEW c \in Clients, RenameFails(c) \/ WriteFails(c) PROVE TypeInv' /\ RequestInv'
  <2>1. req' \in [Clients -> Request] /\ RequestInv'
    BY <1>16, <1>18 DEF RenameFails, WriteFails, world
  <2> QED
    BY <1>18, <2>1 DEF RenameFails, WriteFails, TypeInv, mem, files, world
<1>19. ASSUME UNCHANGED <<vips, pending, req, disk, fileIno, tmpIno, phase, at, config, want>>
       PROVE  TypeInv' /\ RequestInv'
  BY <1>19 DEF TypeInv, RequestInv, alive
<1>20. ASSUME NEW a, Closed(a) \/ TakenChange(a) \/ CaChange PROVE TypeInv' /\ RequestInv'
  BY <1>19, <1>20 DEF Closed, TakenChange, CaChange, mem, files, world
<1>21. CASE Exit
  <2>1. req' = [c \in Clients |-> Idle]
    BY <1>21 DEF Exit
  <2>2. RequestInv' /\ req' \in [Clients -> Request]
    BY <2>1 DEF RequestInv
  <2>3. vips' \in [Names -> Vip] /\ pending' \in Maps
    BY <1>21 DEF Exit
  <2>4. Len(NameOrder) \in Nat
    BY RegistryAssumption
  <2> QED
    BY <1>21, <2>2, <2>3, <2>4 DEF Exit, TypeInv, files
<1>22. ASSUME NEW cfg \in ConfigAtBoot, Boot(cfg) PROVE TypeInv' /\ RequestInv'
  <2> DEFINE none == [n \in Names |-> NoVip]
  <2>1. none \in [Names -> Vip]
    OBVIOUS
  <2>2. cfg \in AnySpec
    BY RegistryAssumption DEF AnySpec
  <2>3. CASE cfg = NoSpec
    <3>1. vips' \in [Names -> Vip]
      BY <1>22, <2>1, <2>3 DEF Boot
    <3>2. RequestInv'
      BY <1>22 DEF Boot, RequestInv, alive
    <3> QED
      BY <1>22, <2>2, <3>1, <3>2 DEF Boot, TypeInv, files
  <2>4. CASE cfg # NoSpec
    <3>1. vips' = Applied(none, Default, cfg, TRUE) /\ cfg \in Specs /\ Default \in Names
      BY <1>22, <2>2, <2>4, RegistryAssumption DEF Boot, AnySpec
    <3>2. none[Default] = NoVip
      BY <3>1
    <3>3. vips' = [none EXCEPT ![Default] = Entry(cfg, TRUE)]
      BY <3>1, <3>2 DEF Applied
    <3>4. Entry(cfg, TRUE) \in Vip
      BY <3>1, EntryFacts
    <3>5. vips' \in [Names -> Vip]
      BY <2>1, <3>3, <3>4
    <3>6. RequestInv'
      BY <1>22 DEF Boot, RequestInv, alive
    <3> QED
      BY <1>22, <2>2, <3>5, <3>6 DEF Boot, TypeInv, files
  <2> QED
    BY <2>3, <2>4
<1>23. CASE Load
  <2> DEFINE n == NameOrder[at + 1]
             s == SavedMap[n]
  <2>1. at \in Nat /\ at + 1 \in DOMAIN NameOrder /\ at + 1 \in 0..Len(NameOrder)
    BY <1>23, RegistryAssumption DEF Load, TypeInv
  <2>2. n \in Names
    BY <2>1 DEF Names
  <2>3. s \in AnySpec
    BY <2>2, SavedType DEF Maps
  <2>4. vips' \in [Names -> Vip]
    <3>1. CASE s # NoSpec /\ Accepts(vips, n, s)
      <4>1. s \in Specs /\ vips' = Applied(vips, n, s, FALSE)
        BY <1>23, <2>3, <3>1 DEF Load, AnySpec
      <4>2. FALSE \in BOOLEAN
        OBVIOUS
      <4> QED
        BY <2>2, <4>1, <4>2, PutTypes
    <3>2. CASE ~(s # NoSpec /\ Accepts(vips, n, s))
      BY <1>23, <3>2 DEF Load, TypeInv
    <3> QED
      BY <3>1, <3>2
  <2>5. pending' = pending \/ pending' = [pending EXCEPT ![n] = s]
    BY <1>23 DEF Load
  <2>6. pending' \in Maps
    BY <2>2, <2>3, <2>5 DEF TypeInv, Maps
  <2>7. at' = at + 1 /\ UNCHANGED <<req, files, phase, config, want>>
    BY <1>23 DEF Load
  <2>8. RequestInv'
    BY <2>7 DEF RequestInv, alive
  <2> HIDE DEF n, s
  <2> QED
    BY <2>1, <2>4, <2>6, <2>7, <2>8 DEF TypeInv, files
<1>24. CASE Listening
  <2>1. UNCHANGED <<vips, pending, req, disk, fileIno, tmpIno, config, want>>
        /\ phase' = "up" /\ at' = 0 /\ Len(NameOrder) \in Nat
    BY <1>24, RegistryAssumption DEF Listening, mem, files
  <2>2. RequestInv'
    BY <2>1 DEF RequestInv, alive
  <2> QED
    BY <2>1, <2>2 DEF TypeInv
<1>25. CASE UNCHANGED vars
  BY <1>19, <1>25 DEF vars, mem, files, world
<1>26. ASSUME NEW c \in Clients, Step(c) PROVE TypeInv' /\ RequestInv'
  BY <1>26, <1>3, <1>5, <1>6, <1>7, <1>8, <1>9, <1>11, <1>12, <1>14, <1>15, <1>17, <1>18
     DEF Step, ReadOnly, PutRefused, RemoveUnknown, Before
<1> QED
  BY <1>1, <1>20, <1>21, <1>22, <1>23, <1>24, <1>25, <1>26 DEF Next

\* Registry starts well typed and with no request.
LEMMA TypeInit == Init => TypeInv /\ RequestInv
<1> SUFFICES ASSUME Init PROVE TypeInv /\ RequestInv
  OBVIOUS
<1> USE Nothing
<1>1. req \in [Clients -> Request] /\ RequestInv
  BY DEF Init, RequestInv
<1>2. Len(NameOrder) \in Nat
  BY RegistryAssumption
<1>3. disk \in [Inodes -> [kind : {"torn", "map"}, map : Maps]]
  BY DEF Init, Empty
<1>4. want \in [Names -> SUBSET AnySpec]
  BY DEF Init
<1> QED
  BY <1>1, <1>2, <1>3, <1>4 DEF Init, TypeInv

-----------------------------------------------------------------------------
(* The steps that change the running VIPs. *)

\* put on a request's name.
LEMMA PutFacts ==
    ASSUME TypeInv, RequestInv, NEW c \in Clients, Put(c)
    PROVE  /\ req[c].name \in Names /\ req[c].spec \in Specs
           /\ \A m \in Names \ {req[c].name} : vips'[m] = vips[m]
           /\ \E b \in BOOLEAN :
                  /\ b = IF vips[req[c].name] = NoVip THEN FALSE ELSE vips[req[c].name].cfg
                  /\ vips'[req[c].name] = Entry(req[c].spec, b)
<1>1. req[c].spec \in Specs /\ req[c].name \in Names
  BY DEF Put, RequestInv
<1>2. vips' = Applied(vips, req[c].name, req[c].spec, FALSE)
  BY DEF Put
<1>3. FALSE \in BOOLEAN
  OBVIOUS
<1> QED
  BY <1>1, <1>2, <1>3, PutTypes

\* A put that fails half-way changes what the VIP does, not what it says.
LEMMA PutHalfFacts ==
    ASSUME TypeInv, RequestInv, PhaseInv, NEW c \in Clients, PutHalf(c)
    PROVE  /\ req[c].name \in Names
           /\ \A m \in Names \ {req[c].name} : vips'[m] = vips[m]
           /\ vips[req[c].name] # NoVip /\ vips'[req[c].name] # NoVip
           /\ vips'[req[c].name].spec = vips[req[c].name].spec
           /\ vips'[req[c].name].cfg = vips[req[c].name].cfg
<1> DEFINE n == req[c].name
           e == [vips[n] EXCEPT !.listen = req[c].spec.listen, !.backs = req[c].spec.ver]
<1>1. n \in Names /\ vips[n] # NoVip
  BY DEF PutHalf, RequestInv
<1>2. vips' = [vips EXCEPT ![n] = e]
  BY DEF PutHalf
<1>3. vips[n] \in Vip
  BY <1>1 DEF TypeInv
<1>4. e.spec = vips[n].spec
  BY <1>3 DEF Vip, Fields
<1>5. e.cfg = vips[n].cfg
  BY <1>3 DEF Vip, Fields
<1>6. vips[n].spec \in Specs
  BY <1>1 DEF PhaseInv
<1>7. e # NoVip
  BY <1>4, <1>6, Nothing, RegistryAssumption
<1> HIDE DEF e
<1>8. vips'[n] = e /\ \A m \in Names \ {n} : vips'[m] = vips[m]
  BY <1>1, <1>2 DEF TypeInv
<1> QED
  BY <1>1, <1>4, <1>5, <1>7, <1>8

\* remove: the VIP is gone, from the running ones or from those that wait.
LEMMA RemoveFacts ==
    ASSUME TypeInv, RequestInv, NEW c \in Clients, RemoveVip(c)
    PROVE  /\ req[c].name \in Names /\ vips[req[c].name].cfg = FALSE
           /\ vips'[req[c].name] = NoVip
           /\ \A m \in Names \ {req[c].name} : vips'[m] = vips[m] /\ pending'[m] = pending[m]
           /\ pending'[req[c].name] = IF vips[req[c].name] = NoVip THEN NoSpec
                                      ELSE pending[req[c].name]
<1>1. req[c].name \in Names
  BY DEF RemoveVip, RequestInv
<1>2. vips[req[c].name].cfg = FALSE
  <2>1. vips[req[c].name].cfg \in BOOLEAN /\ ~vips[req[c].name].cfg
    BY <1>1 DEF RemoveVip, TypeInv, Vip, Fields
  <2> QED
    BY <2>1
<1>3. vips' = [vips EXCEPT ![req[c].name] = NoVip]
  BY DEF RemoveVip
<1>4. pending' = IF vips[req[c].name] = NoVip THEN [pending EXCEPT ![req[c].name] = NoSpec]
                 ELSE pending
  BY DEF RemoveVip
<1> QED
  BY <1>1, <1>2, <1>3, <1>4 DEF TypeInv, Maps

\* A start has the config file's VIP, if there is one, and no other.
LEMMA BootFacts ==
    ASSUME NEW cfg \in ConfigAtBoot, Boot(cfg)
    PROVE  /\ Default \in Names
           /\ \A m \in Names \ {Default} : vips'[m] = NoVip
           /\ cfg = NoSpec => vips'[Default] = NoVip
           /\ cfg # NoSpec => cfg \in Specs /\ vips'[Default] = Entry(cfg, TRUE)
<1> DEFINE none == [n \in Names |-> NoVip]
<1>1. Default \in Names /\ none[Default] = NoVip
  BY RegistryAssumption
<1>2. CASE cfg = NoSpec
  BY <1>1, <1>2 DEF Boot
<1>3. CASE cfg # NoSpec
  <2>1. cfg \in Specs
    BY <1>3, RegistryAssumption
  <2>2. vips' = Applied(none, Default, cfg, TRUE)
    BY <1>3 DEF Boot
  <2>3. vips' = [none EXCEPT ![Default] = Entry(cfg, TRUE)]
    BY <1>1, <2>2 DEF Applied
  <2> QED
    BY <1>1, <1>3, <2>1, <2>3
<1> QED
  BY <1>2, <1>3

\* A step of load_state starts the VIP or leaves it to wait.
LEMMA LoadFacts ==
    ASSUME TypeInv, Load
    PROVE  LET n == NameOrder[at + 1]
               s == SavedMap[n]
           IN  /\ at + 1 \in DOMAIN NameOrder /\ n \in Names /\ s \in AnySpec
               /\ \A m \in Names \ {n} : vips'[m] = vips[m] /\ pending'[m] = pending[m]
               /\ \/ /\ s \in Specs
                     /\ pending' = pending
                     /\ \E b \in BOOLEAN :
                            /\ b = IF vips[n] = NoVip THEN FALSE ELSE vips[n].cfg
                            /\ vips'[n] = Entry(s, b)
                  \/ vips' = vips /\ pending'[n] = s
<1> DEFINE n == NameOrder[at + 1]
           s == SavedMap[n]
<1>1. at \in Nat /\ at + 1 \in DOMAIN NameOrder
  BY RegistryAssumption DEF Load, TypeInv
<1>2. n \in Names
  BY <1>1 DEF Names
<1>3. s \in AnySpec
  BY <1>2, SavedType DEF Maps
<1>4. CASE s # NoSpec /\ Accepts(vips, n, s)
  <2>1. s \in Specs /\ vips' = Applied(vips, n, s, FALSE) /\ pending' = pending
    BY <1>3, <1>4 DEF Load, AnySpec
  <2>2. FALSE \in BOOLEAN
    OBVIOUS
  <2> HIDE DEF n, s
  <2>3. /\ \A m \in Names \ {n} : vips'[m] = vips[m]
        /\ \E b \in BOOLEAN :
               /\ b = IF vips[n] = NoVip THEN FALSE ELSE vips[n].cfg
               /\ vips'[n] = Entry(s, b)
    BY <1>2, <2>1, <2>2, PutTypes
  <2> USE DEF n, s
  <2> QED
    BY <1>1, <1>2, <1>3, <2>1, <2>3
<1>5. CASE ~(s # NoSpec /\ Accepts(vips, n, s))
  <2>1. vips' = vips /\ pending' = [pending EXCEPT ![n] = s]
    BY <1>5 DEF Load
  <2>2. pending'[n] = s /\ \A m \in Names \ {n} : pending'[m] = pending[m]
    BY <1>2, <2>1 DEF TypeInv, Maps
  <2> QED
    BY <1>1, <1>2, <1>3, <2>1, <2>2
<1> QED
  BY <1>4, <1>5

-----------------------------------------------------------------------------
(* A VIP does what it says. *)

\* The other steps leave the running VIPs alone.
LEMMA VipsStay ==
    ASSUME [Next]_vars
    PROVE  \/ vips' = vips
           \/ \E c \in Clients : Put(c) \/ PutHalf(c) \/ RemoveVip(c)
           \/ Exit \/ Load
           \/ \E cfg \in ConfigAtBoot : Boot(cfg)
<1>1. ASSUME NEW c \in Clients, Step(c)
      PROVE  vips' = vips \/ Put(c) \/ PutHalf(c) \/ RemoveVip(c)
  BY <1>1 DEF Step, ReadOnly, Checked, PutRefused, Unpend, RemoveUnknown, SavePending,
     Overlay, Open, Write, Rename, RenameFails, WriteFails, Refuse, mem
<1>2. ASSUME NEW c \in Clients, NEW r \in Requests[c], Begin(c, r)
      PROVE  vips' = vips
  BY <1>2 DEF Begin, mem
<1>3. ASSUME NEW a, Closed(a) \/ TakenChange(a) \/ CaChange \/ Listening \/ UNCHANGED vars
      PROVE  vips' = vips
  BY <1>3 DEF Closed, TakenChange, CaChange, Listening, vars, mem
<1> QED
  BY <1>1, <1>2, <1>3 DEF Next

\* Only put takes a request from "apply" to "pend".
LEMMA OnlyPut ==
    ASSUME TypeInv, RequestInv, [Next]_vars, NEW c \in Clients,
           req[c].pc = "apply", req'[c].pc = "pend"
    PROVE  Put(c)
<1>1. ASSUME NEW d \in Clients, Step(d) PROVE Put(c)
  <2>1. \E r : req' = [req EXCEPT ![d] = r]
    BY <1>1 DEF Step, ReadOnly, Checked, PutRefused, Put, PutHalf, Unpend, RemoveVip,
       RemoveUnknown, SavePending, Overlay, Open, Write, Rename, RenameFails, WriteFails,
       Refuse
  <2>2. d = c
    BY <2>1 DEF TypeInv
  <2>3. req \in [Clients -> Request] /\ Idle.pc = "idle"
    BY Nothing DEF TypeInv
  <2>4. CASE ReadOnly(c) \/ PutRefused(c) \/ RemoveUnknown(c) \/ PutHalf(c)
    BY <2>3, <2>4 DEF ReadOnly, PutRefused, RemoveUnknown, PutHalf, Refuse
  <2> QED
    BY <1>1, <2>2, <2>4 DEF Step, Checked, Unpend, RemoveVip, SavePending, Overlay, Open,
       Write, Rename, RenameFails, WriteFails
<1>2. ASSUME NEW d \in Clients, NEW r \in Requests[d], Begin(d, r) PROVE FALSE
  BY <1>2 DEF Begin, TypeInv
<1>3. ASSUME NEW a, Closed(a) \/ TakenChange(a) \/ CaChange \/ Load \/ Listening
                    \/ UNCHANGED vars
      PROVE  FALSE
  BY <1>3 DEF Closed, TakenChange, CaChange, Load, Listening, vars
<1>4. CASE Exit
  BY <1>4, Nothing DEF Exit
<1>5. ASSUME NEW cfg \in ConfigAtBoot, Boot(cfg) PROVE FALSE
  BY <1>5 DEF Boot
<1> QED
  BY <1>1, <1>2, <1>3, <1>4, <1>5 DEF Next

\* Every behaviour of the registry is well typed, whatever the clients do.
THEOREM TypeCorrect == Spec => [](TypeInv /\ RequestInv)
BY TypeInit, TypeStep, PTL DEF Spec

\* Whatever other requests do, and whatever a PUT that was refused half-way left of
\* a VIP's listener and backends, a PUT that put accepts leaves the VIP with the
\* listener, backends, health check and VRRP instance of its spec.
THEOREM AcceptedPutServes == Spec => PutServes
<1>1. TypeInv /\ RequestInv /\ [Next]_vars
      => [\A c \in Clients :
              LET n == req[c].name
              IN  req[c].pc = "apply" /\ req'[c].pc = "pend"
                      => vips'[n] = Entry(req[c].spec, vips[n].cfg)]_vars
  <2> SUFFICES ASSUME TypeInv, RequestInv, [Next]_vars, NEW c \in Clients,
                      req[c].pc = "apply", req'[c].pc = "pend"
               PROVE  vips'[req[c].name] = Entry(req[c].spec, vips[req[c].name].cfg)
    OBVIOUS
  <2>1. Put(c)
    BY OnlyPut
  <2>2. PICK b \in BOOLEAN :
            /\ b = IF vips[req[c].name] = NoVip THEN FALSE ELSE vips[req[c].name].cfg
            /\ vips'[req[c].name] = Entry(req[c].spec, b)
    BY <2>1, PutFacts
  <2>3. b = vips[req[c].name].cfg
    BY <2>2, Nothing
  <2> QED
    BY <2>2, <2>3
<1> QED
  BY <1>1, TypeCorrect, PTL DEF Spec, PutServes

-----------------------------------------------------------------------------
(* The config file's VIP. *)

\* Every step keeps what each phase of the process has.
LEMMA PhaseStep ==
    TypeInv /\ RequestInv /\ PhaseInv /\ [Next]_vars => PhaseInv'
<1> SUFFICES ASSUME TypeInv, RequestInv, PhaseInv, [Next]_vars PROVE PhaseInv'
  OBVIOUS
<1> USE Nothing
<1>1. ASSUME UNCHANGED <<phase, at, config>>, phase = "up",
             \A n \in Names : /\ vips'[n].cfg <=> vips[n].cfg
                              /\ vips'[n] # NoVip => vips'[n].spec \in Specs
      PROVE  PhaseInv'
  BY <1>1 DEF PhaseInv
<1>2. ASSUME UNCHANGED <<vips, pending, phase, at, config>> PROVE PhaseInv'
  BY <1>2 DEF PhaseInv
<1>3. ASSUME NEW c \in Clients, Put(c) PROVE PhaseInv'
  <2> DEFINE n == req[c].name
             s == req[c].spec
  <2>1. n \in Names /\ s \in Specs /\ \A m \in Names \ {n} : vips'[m] = vips[m]
    BY <1>3, PutFacts
  <2>2. PICK b \in BOOLEAN : /\ b = IF vips[n] = NoVip THEN FALSE ELSE vips[n].cfg
                             /\ vips'[n] = Entry(s, b)
    BY <1>3, PutFacts
  <2>3. vips'[n].spec \in Specs /\ vips'[n].cfg = b
    <3> HIDE DEF n, s
    <3>1. Entry(s, b).spec = s /\ Entry(s, b).cfg = b
      BY <2>1, EntryReads
    <3> QED
      BY <2>1, <2>2, <3>1, Zenon
  <2>4. b <=> vips[n].cfg
    <3>1. CASE vips[n] = NoVip
      BY <2>2, <3>1
    <3>2. CASE vips[n] # NoVip
      BY <2>2, <3>2
    <3> QED
      BY <3>1, <3>2
  <2>5. vips'[n].cfg <=> vips[n].cfg
    BY <2>3, <2>4
  <2>6. phase = "up" /\ UNCHANGED <<phase, at, config>>
    BY <1>3 DEF Put, RequestInv, alive, world
  <2> HIDE DEF n, s
  <2> QED
    BY <1>1, <2>1, <2>3, <2>5, <2>6 DEF PhaseInv
<1>4. ASSUME NEW c \in Clients, PutHalf(c) PROVE PhaseInv'
  <2>1. phase = "up" /\ UNCHANGED <<phase, at, config>>
    BY <1>4 DEF PutHalf, RequestInv, alive
  <2>2. \A n \in Names : vips'[n].cfg <=> vips[n].cfg
    BY <1>4, PutHalfFacts
  <2>3. \A n \in Names : vips'[n] # NoVip => vips'[n].spec \in Specs
    BY <1>4, PutHalfFacts DEF PhaseInv
  <2> QED
    BY <1>1, <2>1, <2>2, <2>3
<1>5. ASSUME NEW c \in Clients, RemoveVip(c) PROVE PhaseInv'
  <2>1. phase = "up" /\ UNCHANGED <<phase, at, config>>
    BY <1>5 DEF RemoveVip, RequestInv, alive, world
  <2>2. \A n \in Names : vips'[n].cfg <=> vips[n].cfg
    BY <1>5, RemoveFacts
  <2>3. \A n \in Names : vips'[n] # NoVip => vips'[n].spec \in Specs
    BY <1>5, RemoveFacts DEF PhaseInv
  <2> QED
    BY <1>1, <2>1, <2>2, <2>3
<1>6. CASE Exit
  <2>1. /\ phase' = "down" /\ at' = 0
        /\ \A n \in Names : vips'[n] = NoVip /\ pending'[n] = NoSpec
    BY <1>6 DEF Exit
  <2>2. \A n \in Names : vips'[n].cfg = FALSE
    BY <2>1
  <2> QED
    BY <2>1, <2>2 DEF PhaseInv
<1>7. ASSUME NEW cfg \in ConfigAtBoot, Boot(cfg) PROVE PhaseInv'
  <2>1. phase' = "loading" /\ config' = cfg
    BY <1>7 DEF Boot
  <2>2. ASSUME NEW n \in Names
        PROVE  /\ vips'[n].cfg <=> n = Default /\ cfg # NoSpec
               /\ vips'[n] # NoVip => vips'[n].spec \in Specs
    <3>1. CASE n = Default /\ cfg # NoSpec
      <4>1. cfg \in Specs /\ vips'[n] = Entry(cfg, TRUE)
        BY <1>7, <3>1, BootFacts
      <4>2. TRUE \in BOOLEAN
        OBVIOUS
      <4>3. vips'[n].cfg = TRUE /\ vips'[n].spec = cfg
        BY <4>1, <4>2, EntryFacts
      <4> QED
        BY <3>1, <4>1, <4>3
    <3>2. CASE ~(n = Default /\ cfg # NoSpec)
      <4>1. vips'[n] = NoVip
        BY <1>7, <3>2, BootFacts
      <4> QED
        BY <3>2, <4>1
    <3> QED
      BY <3>1, <3>2
  <2> QED
    BY <2>1, <2>2 DEF PhaseInv
<1>8. CASE Load
  <2> DEFINE n == NameOrder[at + 1]
             s == SavedMap[n]
  <2>1. phase = "loading" /\ UNCHANGED <<phase, config>>
    BY <1>8 DEF Load
  <2>2. n \in Names /\ \A m \in Names \ {n} : vips'[m] = vips[m]
    BY <1>8, LoadFacts
  <2>3. (vips'[n].cfg <=> vips[n].cfg) /\ (vips'[n] # NoVip => vips'[n].spec \in Specs)
    <3>1. ASSUME NEW b \in BOOLEAN, s \in Specs, vips'[n] = Entry(s, b),
                 b = IF vips[n] = NoVip THEN FALSE ELSE vips[n].cfg
          PROVE  (vips'[n].cfg <=> vips[n].cfg) /\ vips'[n].spec \in Specs
      <4>1. vips'[n].spec \in Specs /\ vips'[n].cfg = b
        <5> HIDE DEF n, s
        <5>1. Entry(s, b).spec = s /\ Entry(s, b).cfg = b
          BY <3>1, EntryReads
        <5> QED
          BY <3>1, <5>1, Zenon
      <4>2. b <=> vips[n].cfg
        <5>1. CASE vips[n] = NoVip
          BY <3>1, <5>1
        <5>2. CASE vips[n] # NoVip
          BY <3>1, <5>2
        <5> QED
          BY <5>1, <5>2
      <4> QED
        BY <4>1, <4>2
    <3>2. CASE vips' = vips
      BY <2>2, <3>2 DEF PhaseInv
    <3> QED
      BY <1>8, <3>1, <3>2, LoadFacts
  <2> HIDE DEF n, s
  <2> QED
    BY <2>1, <2>2, <2>3 DEF PhaseInv
<1>9. CASE Listening
  BY <1>9 DEF Listening, PhaseInv, mem
<1>10. ASSUME NEW c \in Clients, Unpend(c) PROVE PhaseInv'
  <2>1. phase = "up" /\ UNCHANGED <<vips, phase, at, config>>
    BY <1>10 DEF Unpend, RequestInv, alive, world
  <2> QED
    BY <1>1, <2>1 DEF PhaseInv
<1>11. ASSUME NEW c \in Clients, Step(c) PROVE PhaseInv'
  BY <1>2, <1>3, <1>4, <1>5, <1>10, <1>11 DEF Step, ReadOnly, Checked, PutRefused,
     RemoveUnknown, SavePending, Overlay, Open, Write, Rename, RenameFails, WriteFails, Refuse,
     mem, world
<1>12. ASSUME NEW c \in Clients, NEW r \in Requests[c], Begin(c, r) PROVE PhaseInv'
  BY <1>2, <1>12 DEF Begin, mem, world
<1>13. ASSUME NEW a, Closed(a) \/ TakenChange(a) \/ CaChange \/ UNCHANGED vars
       PROVE  PhaseInv'
  BY <1>2, <1>13 DEF Closed, TakenChange, CaChange, vars, mem, world
<1> QED
  BY <1>6, <1>7, <1>8, <1>9, <1>11, <1>12, <1>13 DEF Next

\* With a [vip] in the config file, every step keeps its name out of the saved VIPs
\* and its entry as the file says.
LEMMA DefaultStep ==
    /\ ConfigSteady /\ TypeInv /\ RequestInv /\ PhaseInv /\ DefaultInv /\ ConfigStands
    /\ [Next]_vars
    => DefaultInv' /\ ConfigStands'
<1> SUFFICES ASSUME TypeInv, RequestInv, PhaseInv, DefaultInv, ConfigStands, [Next]_vars,
                    NoSpec \notin ConfigAtBoot
             PROVE  DefaultInv' /\ ConfigStands'
  <2>1. CASE NoSpec \in ConfigAtBoot
    <3>1. ASSUME ConfigSteady, TypeInv, RequestInv, PhaseInv, [Next]_vars
          PROVE  DefaultInv' /\ ConfigStands'
      <4>1. PhaseInv' /\ ConfigAtBoot = {NoSpec}
        BY <2>1, <3>1, PhaseStep DEF ConfigSteady
      <4> QED
        BY <2>1, <4>1 DEF PhaseInv, DefaultInv, ConfigStands
    <3> QED
      BY <3>1
  <2> QED
    BY <2>1
<1> USE Nothing
<1>1. Default \in Names
  BY RegistryAssumption
<1>2. phase = "up" => vips[Default].cfg
  BY <1>1 DEF PhaseInv
<1>3. pending[Default] = NoSpec /\ \A i \in Inodes : disk[i].map[Default] = NoSpec
  BY DEF DefaultInv
<1>4. SavedMap[Default] = NoSpec
  BY <1>1, <1>3 DEF SavedMap, TypeInv
<1>5. ASSUME UNCHANGED <<vips, phase, config>> PROVE ConfigStands'
  BY <1>5 DEF ConfigStands
<1>6. ASSUME NEW c \in Clients, req'[c].map[Default] = NoSpec,
             req'[c].pc \in Changed \cup {"apply"} => req'[c].name # Default,
             \A d \in Clients \ {c} : req'[d] = req[d],
             UNCHANGED <<pending, disk>>
      PROVE  DefaultInv'
  BY <1>3, <1>6 DEF DefaultInv
<1>7. ASSUME UNCHANGED <<pending, disk, req>> PROVE DefaultInv'
  BY <1>7 DEF DefaultInv
<1>8. Idle.map[Default] = NoSpec
  BY <1>1
<1>9. ASSUME NEW c \in Clients, req' = [req EXCEPT ![c] = Idle], UNCHANGED <<pending, disk>>
      PROVE  DefaultInv'
  <2>1. req'[c] = Idle /\ \A d \in Clients \ {c} : req'[d] = req[d]
    BY <1>9, Answered
  <2>2. "idle" \notin Changed \cup {"apply"}
    BY DEF Changed
  <2> QED
    BY <1>6, <1>8, <1>9, <2>1, <2>2
<1>10. ASSUME NEW c \in Clients, NEW p, req' = [req EXCEPT ![c].pc = p],
              req[c].name # Default, pending'[Default] = NoSpec, UNCHANGED disk
       PROVE  DefaultInv'
  <2>1. /\ req'[c].name = req[c].name /\ req'[c].map = req[c].map
        /\ \A d \in Clients \ {c} : req'[d] = req[d]
    BY <1>10, PcOnly
  <2> QED
    BY <1>3, <1>10, <2>1 DEF DefaultInv
<1>11. ASSUME NEW c \in Clients, req[c].pc \in Changed \cup {"apply"}
       PROVE  req[c].name # Default /\ req[c].map[Default] = NoSpec /\ req[c].name \in Names
  BY <1>11 DEF DefaultInv, RequestInv, Changed
<1>12. ASSUME NEW c \in Clients, NEW r \in Requests[c], Begin(c, r)
       PROVE  DefaultInv' /\ ConfigStands'
  <2>1. r.op \in {"put", "delete"}
    BY RegistryAssumption
  <2> DEFINE q == [Idle EXCEPT !.pc = r.op, !.op = r.op, !.name = r.name, !.spec = r.spec,
                               !.prev = want[r.name]]
  <2>2. q.pc = r.op /\ q.map = Idle.map
    BY DEF Idle
  <2>3. req' = [req EXCEPT ![c] = q]
    BY <1>12 DEF Begin
  <2> HIDE DEF q
  <2>4. req'[c] = q /\ \A d \in Clients \ {c} : req'[d] = req[d]
    BY <2>3 DEF TypeInv
  <2>5. r.op \notin Changed \cup {"apply"}
    BY <2>1 DEF Changed
  <2> QED
    BY <1>5, <1>6, <1>8, <1>12, <2>2, <2>4, <2>5 DEF Begin, mem, files, world
<1>13. ASSUME NEW c \in Clients, Refuse(c) PROVE DefaultInv' /\ ConfigStands'
  BY <1>5, <1>9, <1>13 DEF Refuse, mem, files, world
<1>14. ASSUME NEW c \in Clients, Checked(c) PROVE DefaultInv' /\ ConfigStands'
  <2>1. phase = "up"
    BY <1>14 DEF Checked, RequestInv, alive
  <2>2. req[c].name # Default
    BY <1>2, <1>14, <2>1 DEF Checked
  <2> QED
    BY <1>3, <1>5, <1>10, <1>14, <2>2 DEF Checked, mem, files, world
<1>15. ASSUME NEW c \in Clients, Put(c) PROVE DefaultInv' /\ ConfigStands'
  <2>1. req[c].name # Default
    BY <1>11, <1>15 DEF Put
  <2>2. vips'[Default] = vips[Default]
    BY <1>1, <1>15, <2>1, PutFacts
  <2>3. DefaultInv'
    BY <1>3, <1>10, <1>15, <2>1 DEF Put, files
  <2> QED
    BY <1>15, <2>2, <2>3 DEF Put, ConfigStands, world
<1>16. ASSUME NEW c \in Clients, PutHalf(c) PROVE DefaultInv' /\ ConfigStands'
  <2>1. req[c].name # Default
    BY <1>11, <1>16 DEF PutHalf
  <2>2. vips'[Default] = vips[Default]
    BY <1>1, <1>16, <2>1, PutHalfFacts
  <2>3. DefaultInv'
    BY <1>9, <1>16 DEF PutHalf, files
  <2> QED
    BY <1>16, <2>2, <2>3 DEF PutHalf, ConfigStands
<1>17. ASSUME NEW c \in Clients, Unpend(c) PROVE DefaultInv' /\ ConfigStands'
  <2>1. req[c].name # Default
    BY <1>11, <1>17 DEF Unpend, Changed
  <2>2. pending'[Default] = NoSpec
    BY <1>1, <1>3, <1>17, <2>1 DEF Unpend, TypeInv, Maps
  <2> QED
    BY <1>5, <1>10, <1>17, <2>1, <2>2 DEF Unpend, files, world
<1>18. ASSUME NEW c \in Clients, RemoveVip(c) PROVE DefaultInv' /\ ConfigStands'
  <2>1. phase = "up"
    BY <1>18 DEF RemoveVip, RequestInv, alive
  <2>2. req[c].name # Default
    BY <1>2, <1>18, <2>1 DEF RemoveVip
  <2>3. vips'[Default] = vips[Default] /\ pending'[Default] = NoSpec
    BY <1>1, <1>3, <1>18, <2>2, RemoveFacts
  <2>4. DefaultInv'
    BY <1>10, <1>18, <2>2, <2>3 DEF RemoveVip, files
  <2> QED
    BY <1>18, <2>3, <2>4 DEF RemoveVip, ConfigStands, world
<1>19. ASSUME NEW c \in Clients, SavePending(c) PROVE DefaultInv' /\ ConfigStands'
  <2>1. req' = [req EXCEPT ![c] = [req[c] EXCEPT !.pc = "overlay", !.map = pending]]
    BY <1>19 DEF SavePending
  <2>2. /\ req'[c].name = req[c].name /\ req'[c].map = pending
        /\ \A d \in Clients \ {c} : req'[d] = req[d]
    BY <2>1 DEF TypeInv, Request
  <2>3. req[c].name # Default
    BY <1>11, <1>19 DEF SavePending, Changed
  <2> QED
    BY <1>3, <1>5, <1>6, <1>19, <2>2, <2>3 DEF SavePending, mem, files, world
<1>20. ASSUME NEW c \in Clients, Overlay(c) PROVE DefaultInv' /\ ConfigStands'
  <2> DEFINE m == [n \in Names |-> IF vips[n] # NoVip /\ ~vips[n].cfg THEN vips[n].spec
                                   ELSE req[c].map[n]]
  <2>1. req' = [req EXCEPT ![c] = [req[c] EXCEPT !.pc = "open", !.map = m]]
    BY <1>20 DEF Overlay
  <2>2. phase = "up"
    BY <1>20 DEF Overlay, RequestInv, alive
  <2>3. req[c].name # Default /\ req[c].map[Default] = NoSpec
    BY <1>11, <1>20 DEF Overlay, Changed
  <2>4. m[Default] = NoSpec
    BY <1>1, <1>2, <2>2, <2>3
  <2> HIDE DEF m
  <2>5. /\ req'[c].name = req[c].name /\ req'[c].map = m
        /\ \A d \in Clients \ {c} : req'[d] = req[d]
    BY <2>1 DEF TypeInv, Request
  <2> QED
    BY <1>5, <1>6, <1>20, <2>3, <2>4, <2>5 DEF Overlay, mem, files, world
<1>21. ASSUME NEW c \in Clients, req[c].pc \in Changed, UNCHANGED pending,
              req'[c].name = req[c].name /\ req'[c].map = req[c].map,
              \A d \in Clients \ {c} : req'[d] = req[d],
              \A j \in Inodes : disk'[j].map[Default] = NoSpec
       PROVE  DefaultInv'
  <2>1. req[c].name # Default /\ req[c].map[Default] = NoSpec
    BY <1>11, <1>21
  <2> QED
    BY <1>3, <1>21, <2>1 DEF DefaultInv
<1>22. Empty.map[Default] = NoSpec
  BY <1>1 DEF Empty
<1>23. ASSUME NEW c \in Clients, Open(c) PROVE DefaultInv' /\ ConfigStands'
  <2>1. PICK ino \in IF tmpIno # 0 THEN {tmpIno} ELSE Inodes \ InUse :
            /\ req[c].pc = "open"
            /\ disk' = [disk EXCEPT ![ino] = Empty]
            /\ req' = [req EXCEPT ![c] = [req[c] EXCEPT !.pc = "write", !.ino = ino]]
            /\ UNCHANGED <<mem, fileIno, world, requests, want>>
    BY <1>23 DEF Open
  <2>2. \A j \in Inodes : disk'[j].map[Default] = NoSpec
    BY <1>3, <1>22, <2>1 DEF TypeInv
  <2>3. /\ req'[c].name = req[c].name /\ req'[c].map = req[c].map
        /\ \A d \in Clients \ {c} : req'[d] = req[d]
    BY <2>1 DEF TypeInv, Request
  <2> QED
    BY <1>5, <1>21, <2>1, <2>2, <2>3 DEF mem, world, Changed
<1>24. ASSUME NEW c \in Clients, Write(c) PROVE DefaultInv' /\ ConfigStands'
  <2>1. req[c].map[Default] = NoSpec
    BY <1>11, <1>24 DEF Write, Changed
  <2>2. Text(req[c].map).map[Default] = NoSpec
    BY <2>1 DEF Text
  <2>3. PICK t \in {Text(req[c].map), Empty} : disk' = [disk EXCEPT ![req[c].ino] = t]
    BY <1>24 DEF Write
  <2>4. \A j \in Inodes : disk'[j].map[Default] = NoSpec
    BY <1>3, <1>22, <2>2, <2>3 DEF TypeInv
  <2>5. /\ req'[c].name = req[c].name /\ req'[c].map = req[c].map
        /\ \A d \in Clients \ {c} : req'[d] = req[d]
    BY <1>24 DEF Write, TypeInv, Request
  <2> QED
    BY <1>5, <1>21, <1>24, <2>4, <2>5 DEF Write, mem, world, Changed
<1>25. ASSUME NEW c \in Clients, Rename(c) \/ RenameFails(c) \/ WriteFails(c)
       PROVE  DefaultInv' /\ ConfigStands'
  BY <1>5, <1>9, <1>25 DEF Rename, RenameFails, WriteFails, mem, files, world
<1>26. ASSUME NEW a, Closed(a) \/ TakenChange(a) \/ CaChange \/ Listening \/ UNCHANGED vars
       PROVE  DefaultInv' /\ ConfigStands'
  <2>1. UNCHANGED <<vips, pending, disk, req, config>>
    BY <1>26 DEF Closed, TakenChange, CaChange, Listening, vars, mem, files, world
  <2>2. phase' # "down" => phase # "down"
    BY <1>26 DEF Closed, TakenChange, CaChange, Listening, vars, world
  <2> QED
    BY <1>7, <2>1, <2>2 DEF ConfigStands
<1>27. CASE Exit
  <2>1. /\ \A c \in Clients : req'[c] = Idle
        /\ pending'[Default] = NoSpec /\ UNCHANGED disk /\ phase' = "down"
    BY <1>1, <1>27 DEF Exit, files
  <2>2. "idle" \notin Changed \cup {"apply"}
    BY DEF Changed
  <2> QED
    BY <1>3, <1>8, <2>1, <2>2 DEF DefaultInv, ConfigStands
<1>28. ASSUME NEW cfg \in ConfigAtBoot, Boot(cfg) PROVE DefaultInv' /\ ConfigStands'
  <2>1. UNCHANGED <<pending, disk, req>> /\ config' = cfg
    BY <1>28 DEF Boot, files
  <2> QED
    BY <1>7, <1>28, <2>1, BootFacts DEF ConfigStands
<1>29. CASE Load
  <2> DEFINE n == NameOrder[at + 1]
             s == SavedMap[n]
  <2>1. NoSpec \notin Specs
    BY RegistryAssumption
  <2>2. vips'[Default] = vips[Default] /\ pending'[Default] = NoSpec
    <3>1. CASE n = Default
      <4>1. vips' = vips /\ pending'[n] = s
        BY <1>4, <1>29, <2>1, <3>1, LoadFacts
      <4> QED
        BY <1>4, <3>1, <4>1
    <3>2. CASE n # Default
      BY <1>1, <1>3, <1>29, <3>2, LoadFacts
    <3> QED
      BY <3>1, <3>2
  <2>3. UNCHANGED <<req, disk, phase, config>>
    BY <1>29 DEF Load, files
  <2> QED
    BY <1>3, <2>2, <2>3 DEF DefaultInv, ConfigStands
<1>30. ASSUME NEW c \in Clients, Step(c) PROVE DefaultInv' /\ ConfigStands'
  BY <1>13, <1>14, <1>15, <1>16, <1>17, <1>18, <1>19, <1>20, <1>23, <1>24, <1>25, <1>30
     DEF Step, ReadOnly, PutRefused, RemoveUnknown
<1> QED
  BY <1>12, <1>26, <1>27, <1>28, <1>29, <1>30 DEF Next

\* The registry starts down, with nothing saved.
LEMMA ConfigInit == Init => ConfigInv
<1> SUFFICES ASSUME Init PROVE ConfigInv
  OBVIOUS
<1> USE Nothing
<1>1. Default \in Names
  BY RegistryAssumption
<1>2. PhaseInv /\ ConfigStands
  <2>1. \A n \in Names : vips[n] = NoVip /\ vips[n].cfg = FALSE /\ pending[n] = NoSpec
    BY DEF Init
  <2> QED
    BY <2>1 DEF Init, PhaseInv, ConfigStands
<1>3. DefaultInv
  <2>1. "idle" \notin Changed \cup {"apply"}
    BY DEF Changed
  <2> QED
    BY <1>1, <2>1 DEF Init, DefaultInv, Empty
<1> QED
  BY <1>2, <1>3, TypeInit DEF ConfigInv

\* Every step keeps what the config file's VIP needs.
LEMMA ConfigStep == ConfigSteady /\ ConfigInv /\ [Next]_vars => ConfigInv'
BY TypeStep, PhaseStep, DefaultStep DEF ConfigInv

\* "A file and an API never fight over one VIP" (docs/design.md): for any clients, and
\* even when a put fails half-way, the config file's VIP is what the file says, as
\* long as the file names one at every start or at none.  (A `default` saved by the
\* API before the file had a [vip] is put over the file's: vips.rs load_state.)
THEOREM ConfigVipStands ==
    ASSUME ConfigSteady
    PROVE  Spec => []ConfigStands
<1>1. ConfigInv /\ [Next]_vars => ConfigInv'
  BY ConfigStep
<1>2. ConfigInv => ConfigStands
  BY DEF ConfigInv
<1> QED
  BY <1>1, <1>2, ConfigInit, PTL DEF Spec

-----------------------------------------------------------------------------
(* One request at a time: each action's effect on what the names have and on what is *)
(* saved, and that it keeps SavingInv.                                               *)

\* What a name has depends on its two entries.
LEMMA LiveStays ==
    ASSUME NEW n \in Names, vips'[n] = vips[n], pending'[n] = pending[n]
    PROVE  Live(n)' = Live(n)
BY DEF Live

\* What is saved depends on the file.
LEMMA SavedStays ==
    ASSUME fileIno' = fileIno, fileIno # 0 => disk'[fileIno] = disk[fileIno]
    PROVE  SavedMap' = SavedMap /\ Saved' = Saved
BY DEF SavedMap, Saved

\* A step that leaves names and files alone and moves no request on.
LEMMA OtherSaving ==
    ASSUME SavingInv, UNCHANGED <<vips, pending, req, disk, fileIno, tmpIno, phase, at, want>>
    PROVE  SavingInv'
BY DEF SavingInv, PendingInv, LoadInv, FileInv, WantInv, Live, SavedMap, alive

\* A request begins.
LEMMA BeginSaving ==
    ASSUME OneAtATime, ConfigInv, SavingInv, NEW c \in Clients, NEW r \in Requests[c],
           Begin(c, r)
    PROVE  SavingInv' /\ req'[c].pc \in Before
<1> DEFINE q == [Idle EXCEPT !.pc = r.op, !.op = r.op, !.name = r.name, !.spec = r.spec,
                             !.prev = want[r.name]]
<1>1. r.op \in {"put", "delete"} /\ r.name \in Names
  BY RegistryAssumption
<1>2. q.pc = r.op /\ q.name = r.name /\ q.spec = r.spec /\ q.prev = want[r.name]
  BY DEF Idle
<1>3. req' = [req EXCEPT ![c] = q]
  BY DEF Begin
<1> HIDE DEF q
<1>4. req'[c] = q /\ \A d \in Clients : d = c
  BY <1>3 DEF ConfigInv, TypeInv, OneAtATime
<1>5. r.op \in Before /\ r.op \notin Changed
  BY <1>1 DEF Before, Changed
<1>6. UNCHANGED <<vips, pending, disk, fileIno, tmpIno, phase, at>>
      /\ req[c].pc = "idle" /\ phase = "up"
  BY DEF Begin, mem, files, world, alive
<1>7. want' = [want EXCEPT ![r.name] = @ \cup {r.spec}] /\ want \in [Names -> SUBSET AnySpec]
  BY DEF Begin, ConfigInv, TypeInv
<1>8. /\ \A n \in Names : want[n] \subseteq want'[n]
      /\ r.spec \in want'[r.name]
  BY <1>1, <1>7
<1>9. SavedMap' = SavedMap /\ \A n \in Names : Live(n)' = Live(n)
  BY <1>6 DEF SavedMap, Live
<1>10. PendingInv'
  BY <1>4, <1>6 DEF SavingInv, PendingInv
<1>11. LoadInv'
  BY <1>6 DEF LoadInv
<1>12. FileInv'
  BY <1>2, <1>4, <1>5, <1>6, <1>1 DEF SavingInv, FileInv
<1>13. WantInv'
  <2>1. \A n \in Names : SavedMap'[n] \in want'[n] /\ Live(n)' \in want'[n]
    BY <1>6, <1>8, <1>9 DEF SavingInv, WantInv, alive
  <2>2. Live(r.name)' \in want[r.name] /\ SavedMap'[r.name] \in want[r.name]
    BY <1>1, <1>6, <1>9 DEF SavingInv, WantInv, alive
  <2>3. q.pc # "pend"
    BY <1>1, <1>2
  <2> QED
    BY <1>2, <1>4, <1>5, <1>8, <2>1, <2>2, <2>3 DEF WantInv
<1> QED
  BY <1>2, <1>4, <1>5, <1>10, <1>11, <1>12, <1>13 DEF SavingInv

\* A request is refused, or fails half-way: each name has what it had.
LEMMA RefusedSaving ==
    ASSUME OneAtATime, ConfigInv, SavingInv, NEW c \in Clients,
           (req[c].pc \in Before /\ Refuse(c)) \/ PutHalf(c)
    PROVE  /\ SavingInv' /\ Saved' = Saved
           /\ \A n \in Names : Live(n)' = Live(n)
           /\ req[c].pc \in Before /\ req'[c].pc = "idle"
<1> USE Nothing
<1>1. req[c].pc \in Before /\ req[c].name \in Names /\ phase = "up"
  BY DEF PutHalf, Before, ConfigInv, RequestInv, alive
<1>2. /\ req' = [req EXCEPT ![c] = Idle]
      /\ want' = [want EXCEPT ![req[c].name] = req[c].prev]
      /\ UNCHANGED <<pending, disk, fileIno, tmpIno, phase, at>>
  BY DEF Refuse, PutHalf, mem, files, world
<1>3. req'[c] = Idle /\ \A d \in Clients : d = c
  BY <1>2 DEF ConfigInv, TypeInv, OneAtATime
<1>4. \A n \in Names : /\ vips'[n].spec = vips[n].spec
                       /\ vips'[n] = NoVip <=> vips[n] = NoVip
  <2>1. CASE Refuse(c)
    BY <2>1 DEF Refuse, mem
  <2>2. CASE PutHalf(c)
    BY <2>2, PutHalfFacts DEF ConfigInv
  <2> QED
    BY <2>1, <2>2
<1>5. \A n \in Names : vips'[n].cfg <=> vips[n].cfg
  <2>1. CASE Refuse(c)
    BY <2>1 DEF Refuse, mem
  <2>2. CASE PutHalf(c)
    BY <2>2, PutHalfFacts DEF ConfigInv
  <2> QED
    BY <2>1, <2>2
<1>6. \A n \in Names : Live(n)' = Live(n)
  BY <1>2, <1>4, <1>5 DEF Live
<1>7. SavedMap' = SavedMap /\ Saved' = Saved
  BY <1>2, SavedStays
<1>8. PendingInv'
  BY <1>1, <1>2, <1>3, <1>4, <1>5 DEF SavingInv, PendingInv, Before
<1>9. LoadInv'
  BY <1>1, <1>2 DEF LoadInv
<1>10. FileInv'
  BY <1>2, <1>3 DEF SavingInv, FileInv
<1>11. WantInv'
  <2> DEFINE n == req[c].name
  <2>1. Live(n) \in req[c].prev /\ SavedMap[n] \in req[c].prev
    BY <1>1 DEF SavingInv, WantInv
  <2>2. want'[n] = req[c].prev /\ \A m \in Names \ {n} : want'[m] = want[m]
    BY <1>1, <1>2 DEF ConfigInv, TypeInv
  <2>3. \A m \in Names : SavedMap'[m] \in want'[m] /\ Live(m)' \in want'[m]
    BY <1>1, <1>6, <1>7, <2>1, <2>2 DEF SavingInv, WantInv, alive
  <2>4. "idle" \notin Before /\ "idle" \notin Changed
    BY DEF Before, Changed
  <2> QED
    BY <1>3, <2>3, <2>4 DEF WantInv
<1> QED
  BY <1>1, <1>3, <1>6, <1>7, <1>8, <1>9, <1>10, <1>11 DEF SavingInv

\* apply's first look lets the request on.
LEMMA CheckedSaving ==
    ASSUME OneAtATime, ConfigInv, SavingInv, NEW c \in Clients, Checked(c)
    PROVE  SavingInv' /\ req[c].pc \in Before /\ req'[c].pc \in Before
<1>1. /\ req'[c].pc = "apply" /\ req'[c].name = req[c].name /\ req'[c].spec = req[c].spec
      /\ req'[c].prev = req[c].prev
  BY PcOnly DEF ConfigInv, Checked
<1>2. /\ UNCHANGED <<vips, pending, disk, fileIno, tmpIno, phase, at, want>>
      /\ req[c].pc = "put" /\ \A d \in Clients : d = c
  BY DEF Checked, mem, files, world, OneAtATime
<1>3. "put" \in Before /\ "apply" \in Before /\ "apply" \notin Changed
  BY DEF Before, Changed
<1>4. SavedMap' = SavedMap /\ \A n : Live(n)' = Live(n)
  BY <1>2 DEF SavedMap, Live
<1>5. PendingInv' /\ LoadInv' /\ FileInv'
  <2>1. PendingInv'
    BY <1>1, <1>2 DEF SavingInv, PendingInv
  <2>2. LoadInv'
    BY <1>2 DEF SavingInv, LoadInv, Live, SavedMap
  <2>3. FileInv'
    BY <1>1, <1>2 DEF SavingInv, FileInv
  <2> QED
    BY <2>1, <2>2, <2>3
<1>6. WantInv'
  BY <1>1, <1>2, <1>3, <1>4 DEF SavingInv, WantInv, alive
<1> QED
  BY <1>1, <1>2, <1>3, <1>5, <1>6 DEF SavingInv

\* put: the name has the spec it asked for.
LEMMA PutSaving ==
    ASSUME OneAtATime, ConfigSteady, ConfigInv, SavingInv, NEW c \in Clients, Put(c)
    PROVE  /\ SavingInv' /\ Saved' = Saved
           /\ req[c].name \in Names /\ req[c].spec \in Specs
           /\ \A n \in Names :
                  Live(n)' = IF n = req[c].name THEN req[c].spec ELSE Live(n)
           /\ req[c].pc = "apply" /\ req'[c].pc = "pend"
<1> USE Nothing
<1>0. PICK n \in Names, s \in Specs : n = req[c].name /\ s = req[c].spec
  BY DEF Put, ConfigInv, RequestInv
<1>1. /\ req'[c].pc = "pend" /\ req'[c].name = n /\ req'[c].spec = s
      /\ req[c].pc = "apply" /\ phase = "up"
  <2>1. req[c].pc = "apply" /\ req' = [req EXCEPT ![c].pc = "pend"]
    BY DEF Put
  <2> QED
    BY <1>0, <2>1, PcOnly DEF ConfigInv, RequestInv, alive
<1>2. /\ UNCHANGED <<pending, disk, fileIno, tmpIno, phase, at, want>>
      /\ \A d \in Clients : d = c
  BY DEF Put, files, world, OneAtATime
<1>3. n \in Names /\ s \in Specs /\ \A m \in Names \ {n} : vips'[m] = vips[m]
  BY <1>0, PutFacts DEF ConfigInv
<1>4. ~vips[n].cfg
  <2> SUFFICES ASSUME vips[n].cfg PROVE FALSE
    OBVIOUS
  <2>1. n = Default /\ config # NoSpec /\ config \in ConfigAtBoot
    BY <1>1, <1>3 DEF ConfigInv, PhaseInv
  <2>2. NoSpec \notin ConfigAtBoot
    BY <2>1 DEF ConfigSteady
  <2> QED
    BY <1>0, <1>1, <2>1, <2>2 DEF ConfigInv, DefaultInv
<1>5. vips'[n].spec = s /\ vips'[n] # NoVip /\ vips'[n].cfg = FALSE
  <2>1. PICK b \in BOOLEAN : /\ b = IF vips[n] = NoVip THEN FALSE ELSE vips[n].cfg
                             /\ vips'[n] = Entry(s, b)
    BY <1>0, PutFacts DEF ConfigInv
  <2>2. vips[n].cfg \in BOOLEAN
    BY <1>3 DEF ConfigInv, TypeInv, Vip, Fields
  <2>3. b = FALSE
    BY <1>4, <2>1, <2>2
  <2>4. Entry(s, b).spec = s /\ Entry(s, b).cfg = b /\ Entry(s, b) # NoVip
    BY <1>3, EntryReads
  <2> QED
    BY <2>1, <2>3, <2>4, Zenon
<1>6. Live(n)' = s /\ \A m \in Names \ {n} : Live(m)' = Live(m)
  <2>1. \A m \in Names \ {n} : Live(m)' = Live(m)
    BY <1>2, <1>3, LiveStays
  <2>2. Live(n)' = s
    BY <1>5 DEF Live
  <2> QED
    BY <2>1, <2>2
<1>7. SavedMap' = SavedMap /\ Saved' = Saved
  BY <1>2, SavedStays
<1>8. PendingInv'
  <2>1. ASSUME NEW m \in Names \ {n}, vips'[m] # NoVip, ~vips'[m].cfg, pending'[m] # NoSpec
        PROVE  FALSE
    <3>1. \E d \in Clients : req[d].pc = "pend"
      BY <1>2, <1>3, <2>1 DEF SavingInv, PendingInv
    <3> QED
      BY <1>1, <1>2, <3>1
  <2> QED
    BY <1>1, <2>1 DEF PendingInv
<1>9. LoadInv' /\ FileInv'
  BY <1>1, <1>2 DEF SavingInv, LoadInv, FileInv
<1>10. WantInv'
  <2>1. "apply" \in Before /\ "pend" \in Changed /\ "pend" \notin Before
    BY DEF Before, Changed
  <2>2. s \in want[n]
    BY <1>0, <1>1, <2>1 DEF SavingInv, WantInv
  <2>3. \A m \in Names : SavedMap'[m] \in want'[m] /\ Live(m)' \in want'[m]
    BY <1>1, <1>2, <1>6, <1>7, <2>2 DEF SavingInv, WantInv, alive
  <2>4. Live(n)' = s /\ vips'[n] # NoVip /\ ~vips'[n].cfg
    BY <1>5, <1>6
  <2> QED
    BY <1>1, <1>2, <2>1, <2>3, <2>4 DEF WantInv
<1> QED
  BY <1>1, <1>3, <1>6, <1>7, <1>8, <1>9, <1>10, <1>0 DEF SavingInv

\* The name no longer waits; it runs.
LEMMA UnpendSaving ==
    ASSUME OneAtATime, ConfigInv, SavingInv, NEW c \in Clients, Unpend(c)
    PROVE  /\ SavingInv' /\ Saved' = Saved
           /\ \A n \in Names : Live(n)' = Live(n)
           /\ req[c].pc = "pend" /\ req'[c].pc = "save"
<1>0. PICK n \in Names : n = req[c].name
  BY DEF Unpend, ConfigInv, RequestInv
<1>1. /\ req'[c].pc = "save" /\ req'[c].name = n /\ req'[c].spec = req[c].spec
      /\ req[c].pc = "pend" /\ phase = "up" /\ n \in Names
  <2>1. req[c].pc = "pend" /\ req' = [req EXCEPT ![c].pc = "save"]
    BY DEF Unpend
  <2> QED
    BY <1>0, <2>1, PcOnly DEF ConfigInv, RequestInv, alive
<1>2. /\ UNCHANGED <<vips, disk, fileIno, tmpIno, phase, at, want>>
      /\ \A d \in Clients : d = c
  BY DEF Unpend, files, world, OneAtATime
<1>3. pending'[n] = NoSpec /\ \A m \in Names \ {n} : pending'[m] = pending[m]
  BY <1>0, <1>1 DEF Unpend, ConfigInv, TypeInv, Maps
<1>4. vips[n] # NoVip /\ ~vips[n].cfg
  BY <1>0, <1>1 DEF SavingInv, WantInv
<1>5. \A m \in Names : Live(m)' = Live(m)
  BY <1>2, <1>3, <1>4 DEF Live
<1>6. SavedMap' = SavedMap /\ Saved' = Saved
  BY <1>2, SavedStays
<1>7. PendingInv'
  <2>1. ASSUME NEW m \in Names \ {n}, vips'[m] # NoVip, ~vips'[m].cfg, pending'[m] # NoSpec
        PROVE  FALSE
    <3>1. \E d \in Clients : req[d].pc = "pend" /\ req[d].name = m
      BY <1>2, <1>3, <2>1 DEF SavingInv, PendingInv
    <3> QED
      BY <1>0, <1>1, <1>2, <2>1, <3>1
  <2> QED
    BY <1>3, <2>1 DEF PendingInv
<1>8. LoadInv' /\ FileInv'
  BY <1>1, <1>2 DEF SavingInv, LoadInv, FileInv
<1>9. WantInv'
  <2>1. "pend" \in Changed /\ "save" \in Changed /\ "save" \notin Before
    BY DEF Before, Changed
  <2>2. \A m \in Names : SavedMap'[m] \in want'[m] /\ Live(m)' \in want'[m]
    BY <1>1, <1>2, <1>5, <1>6 DEF SavingInv, WantInv, alive
  <2>3. Live(n)' = req[c].spec
    BY <1>0, <1>1, <1>5, <2>1 DEF SavingInv, WantInv
  <2> QED
    BY <1>1, <1>2, <2>1, <2>2, <2>3 DEF WantInv
<1> QED
  BY <1>1, <1>5, <1>6, <1>7, <1>8, <1>9 DEF SavingInv

\* remove: the name has nothing.
LEMMA RemoveSaving ==
    ASSUME OneAtATime, ConfigInv, SavingInv, NEW c \in Clients, RemoveVip(c)
    PROVE  /\ SavingInv' /\ Saved' = Saved
           /\ req[c].name \in Names
           /\ \A n \in Names : Live(n)' = IF n = req[c].name THEN NoSpec ELSE Live(n)
           /\ req[c].pc = "delete" /\ req'[c].pc = "save"
<1>0. PICK n \in Names : n = req[c].name
  BY DEF RemoveVip, ConfigInv, RequestInv
<1>1. /\ req'[c].pc = "save" /\ req'[c].name = n /\ req'[c].spec = NoSpec
      /\ req[c].spec = NoSpec /\ req[c].pc = "delete" /\ phase = "up" /\ n \in Names
  <2>1. req[c].pc = "delete" /\ req' = [req EXCEPT ![c].pc = "save"]
    BY DEF RemoveVip
  <2> QED
    BY <1>0, <2>1, PcOnly DEF ConfigInv, RequestInv, alive
<1>2. /\ UNCHANGED <<disk, fileIno, tmpIno, phase, at, want>> /\ \A d \in Clients : d = c
  BY DEF RemoveVip, files, world, OneAtATime
<1>3. /\ vips'[n] = NoVip
      /\ \A m \in Names \ {n} : vips'[m] = vips[m] /\ pending'[m] = pending[m]
      /\ pending'[n] = IF vips[n] = NoVip THEN NoSpec ELSE pending[n]
      /\ vips[n].cfg = FALSE
  BY <1>0, RemoveFacts DEF ConfigInv
<1>4. pending'[n] = NoSpec
  <2>1. CASE vips[n] # NoVip /\ pending[n] # NoSpec
    <3>1. \E d \in Clients : req[d].pc = "pend"
      BY <1>1, <1>3, <2>1 DEF SavingInv, PendingInv
    <3> QED
      BY <1>1, <1>2, <3>1
  <2> QED
    BY <1>3, <2>1
<1>5. Live(n)' = NoSpec /\ \A m \in Names \ {n} : Live(m)' = Live(m)
  <2>1. \A m \in Names \ {n} : Live(m)' = Live(m)
    BY <1>3, LiveStays
  <2>2. Live(n)' = NoSpec
    BY <1>3, <1>4 DEF Live
  <2> QED
    BY <2>1, <2>2
<1>6. SavedMap' = SavedMap /\ Saved' = Saved
  BY <1>2, SavedStays
<1>7. PendingInv'
  <2>1. ASSUME NEW m \in Names \ {n}, vips'[m] # NoVip, ~vips'[m].cfg, pending'[m] # NoSpec
        PROVE  FALSE
    <3>1. \E d \in Clients : req[d].pc = "pend"
      BY <1>3, <2>1 DEF SavingInv, PendingInv
    <3> QED
      BY <1>1, <1>2, <3>1
  <2> QED
    BY <1>4, <2>1 DEF PendingInv
<1>8. LoadInv' /\ FileInv'
  BY <1>1, <1>2 DEF SavingInv, LoadInv, FileInv
<1>9. WantInv'
  <2>1. "delete" \in Before /\ "save" \in Changed /\ "save" \notin Before
    BY DEF Before, Changed
  <2>2. NoSpec \in want[n]
    BY <1>0, <1>1, <2>1 DEF SavingInv, WantInv
  <2>3. \A m \in Names : SavedMap'[m] \in want'[m] /\ Live(m)' \in want'[m]
    BY <1>1, <1>2, <1>5, <1>6, <2>2 DEF SavingInv, WantInv, alive
  <2> QED
    BY <1>1, <1>2, <1>5, <2>1, <2>3 DEF WantInv
<1> QED
  BY <1>1, <1>5, <1>6, <1>7, <1>8, <1>9, <1>0 DEF SavingInv

\* save: what waits, then over it what runs, is what the names have.
LEMMA CopySaving ==
    ASSUME OneAtATime, ConfigInv, SavingInv, NEW c \in Clients, SavePending(c) \/ Overlay(c)
    PROVE  SavingInv' /\ req[c].pc \in Changed /\ req'[c].pc \in Changed
<1>1. /\ UNCHANGED <<vips, pending, disk, fileIno, tmpIno, phase, at, want>>
      /\ \A d \in Clients : d = c
  BY DEF SavePending, Overlay, mem, files, world, OneAtATime
<1>2. SavedMap' = SavedMap /\ \A n : Live(n)' = Live(n)
  BY <1>1 DEF SavedMap, Live
<1>3. /\ req[c].pc \in {"save", "overlay"} /\ req'[c].pc \in {"overlay", "open"}
      /\ req'[c].name = req[c].name /\ req'[c].spec = req[c].spec
      /\ req'[c].pc = "overlay" => req'[c].map = pending
  <2>1. CASE SavePending(c)
    BY <2>1 DEF SavePending, ConfigInv, TypeInv, Request
  <2>2. CASE Overlay(c)
    <3>1. PICK m : /\ req[c].pc = "overlay"
                   /\ req' = [req EXCEPT ![c] = [req[c] EXCEPT !.pc = "open", !.map = m]]
      BY <2>2 DEF Overlay
    <3> QED
      BY <3>1 DEF ConfigInv, TypeInv, Request
  <2> QED
    BY <2>1, <2>2
<1>4. req'[c].pc = "open" => \A n \in Names : req'[c].map[n] = Live(n)
  <2>1. CASE Overlay(c)
    <3> DEFINE m == [n \in Names |-> IF vips[n] # NoVip /\ ~vips[n].cfg THEN vips[n].spec
                                     ELSE req[c].map[n]]
    <3>1. req' = [req EXCEPT ![c] = [req[c] EXCEPT !.pc = "open", !.map = m]]
      BY <2>1 DEF Overlay
    <3>2. req[c].map = pending
      BY <2>1 DEF Overlay, SavingInv, FileInv
    <3>3. \A n \in Names : m[n] = Live(n)
      BY <3>2 DEF Live
    <3> HIDE DEF m
    <3>4. req'[c].map = m
      BY <3>1 DEF ConfigInv, TypeInv, Request
    <3> QED
      BY <3>3, <3>4
  <2>2. CASE SavePending(c)
    BY <2>2 DEF SavePending, ConfigInv, TypeInv, Request
  <2> QED
    BY <2>1, <2>2
<1>5. /\ req[c].pc \in Changed /\ req[c].pc # "pend"
      /\ req'[c].pc \in Changed /\ req'[c].pc \notin Before /\ req'[c].pc # "pend"
      /\ req'[c].pc \notin {"write", "rename"}
  BY <1>3 DEF Before, Changed
<1>6. PendingInv'
  BY <1>1, <1>5 DEF SavingInv, PendingInv
<1>7. LoadInv'
  BY <1>1 DEF SavingInv, LoadInv, Live, SavedMap
<1>8. FileInv'
  BY <1>1, <1>2, <1>3, <1>4, <1>5 DEF SavingInv, FileInv
<1>9. WantInv'
  BY <1>1, <1>2, <1>3, <1>5 DEF SavingInv, WantInv, alive
<1> QED
  BY <1>5, <1>6, <1>7, <1>8, <1>9 DEF SavingInv

\* write_atomic touches .tmp only: it is opened empty, then has the text.
LEMMA TmpSaving ==
    ASSUME OneAtATime, ConfigInv, SavingInv, NEW c \in Clients, Open(c) \/ Write(c)
    PROVE  SavingInv' /\ Saved' = Saved /\ req[c].pc \in Changed /\ req'[c].pc \in Changed
<1>1. PICK i \in Inodes :
          /\ disk' = [disk EXCEPT ![i] = IF Open(c) THEN Empty ELSE Text(req[c].map)]
          /\ tmpIno' = i
          /\ fileIno # 0 => i # fileIno
          /\ req[c].pc = "open" => Open(c)
          /\ req'[c].pc = "write" => Open(c) /\ req'[c].ino = i
          /\ req'[c].pc = "rename" => ~Open(c)
  <2>1. CASE Open(c)
    <3>1. PICK ino \in IF tmpIno # 0 THEN {tmpIno} ELSE Inodes \ InUse :
              /\ tmpIno' = ino
              /\ disk' = [disk EXCEPT ![ino] = Empty]
              /\ req' = [req EXCEPT ![c] = [req[c] EXCEPT !.pc = "write", !.ino = ino]]
      BY <2>1 DEF Open
    <3>2. ino \in Inodes /\ (fileIno # 0 => ino # fileIno)
      BY <3>1 DEF ConfigInv, TypeInv, SavingInv, FileInv, InUse
    <3>3. req'[c].pc = "write" /\ req'[c].ino = ino
      BY <3>1 DEF ConfigInv, TypeInv, Request
    <3> QED
      BY <2>1, <3>1, <3>2, <3>3
  <2>2. CASE Write(c)
    <3>1. req[c].pc = "write" /\ tmpIno # 0 /\ req[c].ino = tmpIno /\ disk[tmpIno] = Empty
      BY <2>2 DEF Write, SavingInv, FileInv
    <3>2. tmpIno \in Inodes /\ (fileIno # 0 => tmpIno # fileIno)
      BY <3>1 DEF ConfigInv, TypeInv, SavingInv, FileInv
    <3>3. disk' = [disk EXCEPT ![tmpIno] = Text(req[c].map)] /\ tmpIno' = tmpIno
      BY <2>2, <3>1 DEF Write
    <3>4. req'[c].pc = "rename"
      BY <2>2 DEF Write, ConfigInv, TypeInv, Request
    <3>5. ~Open(c)
      BY <3>1 DEF Open
    <3> QED
      BY <3>1, <3>2, <3>3, <3>4, <3>5
  <2> QED
    BY <2>1, <2>2
<1>2. /\ UNCHANGED <<vips, pending, fileIno, phase, at, want>>
      /\ \A d \in Clients : d = c
  BY DEF Open, Write, mem, world, OneAtATime
<1>3. /\ req[c].pc \in {"open", "write"} /\ req'[c].pc \in {"write", "rename"}
      /\ req'[c].name = req[c].name /\ req'[c].spec = req[c].spec
      /\ req'[c].map = req[c].map
  <2>1. CASE Open(c)
    <3>1. PICK ino : /\ req[c].pc = "open"
                     /\ req' = [req EXCEPT ![c] = [req[c] EXCEPT !.pc = "write", !.ino = ino]]
      BY <2>1 DEF Open
    <3> QED
      BY <3>1 DEF ConfigInv, TypeInv, Request
  <2>2. CASE Write(c)
    <3>1. /\ req[c].pc = "write"
          /\ req' = [req EXCEPT ![c] = [req[c] EXCEPT !.pc = "rename", !.ino = 0]]
      BY <2>2 DEF Write
    <3> QED
      BY <3>1 DEF ConfigInv, TypeInv, Request
  <2> QED
    BY <2>1, <2>2
<1>4. \A n : Live(n)' = Live(n)
  BY <1>2 DEF Live
<1>5. SavedMap' = SavedMap /\ Saved' = Saved
  <2>1. fileIno # 0 => disk'[fileIno] = disk[fileIno]
    BY <1>1 DEF ConfigInv, TypeInv
  <2> QED
    BY <1>2, <2>1, SavedStays
<1>6. /\ req[c].pc \in Changed /\ req[c].pc # "pend"
      /\ req'[c].pc \in Changed /\ req'[c].pc \notin Before /\ req'[c].pc # "pend"
  BY <1>3 DEF Before, Changed
<1>7. PendingInv'
  BY <1>2, <1>6 DEF SavingInv, PendingInv
<1>8. LoadInv'
  BY <1>2, <1>4, <1>5 DEF SavingInv, LoadInv
<1>9. FileInv'
  <2>1. tmpIno' # 0 /\ disk'[tmpIno'] = IF Open(c) THEN Empty ELSE Text(req[c].map)
    BY <1>1, RegistryAssumption DEF ConfigInv, TypeInv
  <2>2. fileIno' # 0 => disk'[fileIno'] = disk[fileIno] /\ fileIno' # tmpIno'
    BY <1>1, <1>2 DEF ConfigInv, TypeInv
  <2>3. \A n \in Names : req'[c].map[n] = Live(n)'
    BY <1>3, <1>4 DEF SavingInv, FileInv
  <2> QED
    BY <1>1, <1>2, <1>3, <2>1, <2>2, <2>3 DEF SavingInv, FileInv
<1>10. WantInv'
  BY <1>2, <1>3, <1>4, <1>5, <1>6 DEF SavingInv, WantInv, alive
<1> QED
  BY <1>5, <1>6, <1>7, <1>8, <1>9, <1>10 DEF SavingInv

\* The rename makes the names' contents the saved ones.
LEMMA RenameSaving ==
    ASSUME OneAtATime, ConfigInv, SavingInv, NEW c \in Clients, Rename(c)
    PROVE  /\ SavingInv' /\ Saved' = [n \in Names |-> Live(n)]
           /\ \A n \in Names : Live(n)' = Live(n)
           /\ req[c].pc \in Changed /\ req'[c].pc = "idle"
<1> USE Nothing
<1>1. /\ req[c].pc = "rename" /\ tmpIno # 0 /\ fileIno' = tmpIno /\ tmpIno' = 0
      /\ req' = [req EXCEPT ![c] = Idle]
      /\ want' = [want EXCEPT ![req[c].name] = {req[c].spec}]
      /\ UNCHANGED <<vips, pending, disk, phase, at>> /\ \A d \in Clients : d = c
  BY DEF Rename, mem, world, OneAtATime
<1>2. req'[c] = Idle
  BY <1>1 DEF ConfigInv, TypeInv
<1>3. disk[tmpIno].kind = "map" /\ disk[tmpIno].map = req[c].map
  <2>1. disk[tmpIno] = Text(req[c].map)
    BY <1>1 DEF SavingInv, FileInv
  <2> QED
    BY <2>1 DEF Text
<1>4. req[c].map \in [Names -> AnySpec] /\ \A n \in Names : req[c].map[n] = Live(n)
  BY <1>1 DEF SavingInv, FileInv, ConfigInv, TypeInv, Request, Maps
<1>5. SavedMap' = req[c].map /\ Saved' = req[c].map
  BY <1>1, <1>3 DEF SavedMap, Saved
<1>6. req[c].map = [n \in Names |-> Live(n)]
  BY <1>4
<1>7. \A n \in Names : Live(n)' = Live(n)
  BY <1>1, LiveStays
<1>8. phase = "up" /\ req[c].name \in Names
  BY <1>1 DEF ConfigInv, RequestInv, alive
<1>9. "idle" \notin Before /\ "idle" \notin Changed /\ "rename" \in Changed
  BY DEF Before, Changed
<1>10. PendingInv'
  BY <1>1 DEF SavingInv, PendingInv
<1>11. LoadInv'
  BY <1>1, <1>8 DEF LoadInv
<1>12. FileInv'
  BY <1>1, <1>2, <1>3 DEF FileInv
<1>13. WantInv'
  <2>1. Live(req[c].name) = req[c].spec
    BY <1>1, <1>9 DEF SavingInv, WantInv
  <2>2. /\ want'[req[c].name] = {req[c].spec}
        /\ \A m \in Names \ {req[c].name} : want'[m] = want[m]
    BY <1>1, <1>8 DEF ConfigInv, TypeInv
  <2>3. \A m \in Names : SavedMap'[m] \in want'[m] /\ Live(m)' \in want'[m]
    BY <1>4, <1>5, <1>7, <1>8, <2>1, <2>2 DEF SavingInv, WantInv, alive
  <2> QED
    BY <1>1, <1>2, <1>9, <2>3 DEF WantInv
<1> QED
  BY <1>1, <1>2, <1>5, <1>6, <1>7, <1>9, <1>10, <1>11, <1>12, <1>13 DEF SavingInv

\* The save fails: applied, not saved.
LEMMA FailedSaving ==
    ASSUME OneAtATime, ConfigInv, SavingInv, NEW c \in Clients, RenameFails(c) \/ WriteFails(c)
    PROVE  /\ SavingInv' /\ Saved' = Saved
           /\ req[c].pc \in Changed /\ req'[c].pc = "idle"
<1> USE Nothing
<1>1. /\ req[c].pc \in {"write", "rename"} /\ req' = [req EXCEPT ![c] = Idle]
      /\ UNCHANGED <<vips, pending, disk, fileIno, tmpIno, phase, at, want>>
      /\ \A d \in Clients : d = c
  BY DEF RenameFails, WriteFails, mem, files, world, OneAtATime
<1>2. req'[c] = Idle
  BY <1>1 DEF ConfigInv, TypeInv
<1>3. "idle" \notin Before /\ "idle" \notin Changed /\ req[c].pc \in Changed
  BY <1>1 DEF Before, Changed
<1>4. /\ SavedMap' = SavedMap /\ Saved' = Saved /\ \A n : Live(n)' = Live(n)
  BY <1>1 DEF SavedMap, Saved, Live
<1>5. PendingInv'
  BY <1>1 DEF SavingInv, PendingInv
<1>6. LoadInv'
  BY <1>1, <1>4 DEF SavingInv, LoadInv
<1>7. FileInv'
  BY <1>1, <1>2 DEF SavingInv, FileInv
<1>8. WantInv'
  BY <1>1, <1>2, <1>3, <1>4 DEF SavingInv, WantInv, alive
<1> QED
  BY <1>2, <1>3, <1>4, <1>5, <1>6, <1>7, <1>8 DEF SavingInv

\* Before the API listens no request is in progress.
LEMMA NoRequest ==
    ASSUME RequestInv, phase # "up", NEW c \in Clients
    PROVE  req[c].pc = "idle" /\ req[c].pc \notin Before /\ req[c].pc \notin Changed
BY DEF RequestInv, alive, Before, Changed

\* An exit keeps the files.
LEMMA ExitSaving ==
    ASSUME ConfigInv, SavingInv, Exit
    PROVE  SavingInv' /\ Saved' = Saved /\ \A c \in Clients : req'[c].pc = "idle"
<1> USE Nothing
<1>1. /\ phase' = "down" /\ UNCHANGED <<disk, fileIno, tmpIno, want>>
      /\ \A c \in Clients : req'[c] = Idle
      /\ \A n \in Names : vips'[n] = NoVip
  BY DEF Exit, files
<1>2. SavedMap' = SavedMap /\ Saved' = Saved
  BY <1>1, SavedStays
<1>3. "idle" \notin Before /\ "idle" \notin Changed
  BY DEF Before, Changed
<1>4. PendingInv' /\ LoadInv'
  BY <1>1 DEF PendingInv, LoadInv
<1>5. FileInv'
  BY <1>1 DEF SavingInv, FileInv
<1>6. WantInv'
  BY <1>1, <1>2, <1>3 DEF SavingInv, WantInv, alive
<1> QED
  BY <1>1, <1>2, <1>4, <1>5, <1>6 DEF SavingInv

\* A start has the config file's VIP and has loaded nothing.
LEMMA BootSaving ==
    ASSUME ConfigInv, SavingInv, NEW cfg \in ConfigAtBoot, Boot(cfg)
    PROVE  SavingInv' /\ Saved' = Saved /\ UNCHANGED req
<1> USE Nothing
<1>1. /\ phase = "down" /\ phase' = "loading" /\ at' = at
      /\ UNCHANGED <<pending, req, disk, fileIno, tmpIno, want>>
  BY DEF Boot, files
<1>2. at = 0 /\ \A n \in Names : pending[n] = NoSpec
  BY <1>1 DEF ConfigInv, PhaseInv
<1>3. \A n \in Names : vips'[n] = NoVip \/ vips'[n].cfg
  <2>1. CASE cfg = NoSpec
    BY <2>1, BootFacts
  <2>2. CASE cfg # NoSpec
    <3>1. cfg \in Specs /\ vips'[Default] = Entry(cfg, TRUE) /\ TRUE \in BOOLEAN
      BY <2>2, BootFacts
    <3>2. Entry(cfg, TRUE).cfg = TRUE
      BY <3>1, EntryReads
    <3>3. vips'[Default].cfg
      BY <3>1, <3>2, Zenon
    <3> QED
      BY <3>3, BootFacts
  <2> QED
    BY <2>1, <2>2
<1>4. SavedMap' = SavedMap /\ Saved' = Saved
  BY <1>1, SavedStays
<1>5. \A c \in Clients : req[c].pc = "idle" /\ req[c].pc \notin Before
                         /\ req[c].pc \notin Changed
  BY <1>1, NoRequest DEF ConfigInv
<1>6. PendingInv'
  BY <1>1, <1>2 DEF PendingInv
<1>7. LoadInv'
  <2>1. ASSUME NEW i \in DOMAIN NameOrder PROVE ~(i <= at') /\ NameOrder[i] \in Names
    BY <1>1, <1>2, RegistryAssumption DEF Names
  <2> QED
    BY <1>1, <1>2, <1>3, <2>1 DEF LoadInv
<1>8. FileInv'
  BY <1>1, <1>5 DEF SavingInv, FileInv
<1>9. WantInv'
  BY <1>1, <1>4, <1>5 DEF SavingInv, WantInv, alive
<1> QED
  BY <1>1, <1>4, <1>6, <1>7, <1>8, <1>9 DEF SavingInv

\* A step of load_state brings one more name back, running or waiting.
LEMMA LoadSaving ==
    ASSUME ConfigSteady, ConfigInv, SavingInv, Load
    PROVE  SavingInv' /\ Saved' = Saved /\ UNCHANGED req
<1> USE Nothing
<1>1. /\ phase = "loading" /\ phase' = "loading" /\ at' = at + 1 /\ at \in Nat
      /\ UNCHANGED <<req, disk, fileIno, tmpIno, want>>
  BY DEF Load, files, ConfigInv, TypeInv
<1>2. PICK n \in Names, s \in AnySpec : n = NameOrder[at + 1] /\ s = SavedMap[n]
  BY LoadFacts DEF ConfigInv
<1>3. /\ at + 1 \in DOMAIN NameOrder
      /\ \A m \in Names \ {n} : vips'[m] = vips[m] /\ pending'[m] = pending[m]
      /\ \/ /\ s \in Specs
            /\ pending' = pending
            /\ \E b \in BOOLEAN :
                   /\ b = IF vips[n] = NoVip THEN FALSE ELSE vips[n].cfg
                   /\ vips'[n] = Entry(s, b)
         \/ vips' = vips /\ pending'[n] = s
  BY <1>2, LoadFacts DEF ConfigInv
<1>4. (vips[n] = NoVip \/ vips[n].cfg) /\ pending[n] = NoSpec
  <2>1. ~(at + 1 <= at)
    BY <1>1
  <2> QED
    BY <1>1, <1>2, <1>3, <2>1 DEF SavingInv, LoadInv
<1>5. \/ vips'[n] # NoVip /\ ~vips'[n].cfg /\ vips'[n].spec = s /\ pending'[n] = NoSpec
      \/ (vips'[n] = NoVip \/ vips'[n].cfg) /\ pending'[n] = s
  <2>1. CASE vips' = vips /\ pending'[n] = s
    BY <1>4, <2>1
  <2>2. ASSUME s \in Specs, pending' = pending, NEW b \in BOOLEAN,
               b = IF vips[n] = NoVip THEN FALSE ELSE vips[n].cfg, vips'[n] = Entry(s, b)
        PROVE  vips'[n] # NoVip /\ ~vips'[n].cfg /\ vips'[n].spec = s /\ pending'[n] = NoSpec
    <3>1. ~vips[n].cfg
      <4> SUFFICES ASSUME vips[n].cfg PROVE FALSE
        OBVIOUS
      <4>1. n = Default /\ config # NoSpec /\ config \in ConfigAtBoot
        BY <1>1 DEF ConfigInv, PhaseInv
      <4>2. NoSpec \notin ConfigAtBoot
        BY <4>1 DEF ConfigSteady
      <4>3. \A i \in Inodes : disk[i].map[Default] = NoSpec
        BY <4>2 DEF ConfigInv, DefaultInv
      <4>4. SavedMap[Default] = NoSpec
        BY <4>1, <4>3 DEF SavedMap, ConfigInv, TypeInv
      <4> QED
        BY <1>2, <2>2, <4>1, <4>4, RegistryAssumption
    <3>2. vips[n].cfg \in BOOLEAN
      BY DEF ConfigInv, TypeInv, Vip, Fields
    <3>3. b = FALSE
      BY <2>2, <3>1, <3>2
    <3>4. Entry(s, b).spec = s /\ Entry(s, b).cfg = b /\ Entry(s, b) # NoVip
      BY <2>2, EntryReads
    <3>5. vips'[n] # NoVip /\ ~vips'[n].cfg /\ vips'[n].spec = s
      BY <2>2, <3>3, <3>4, Zenon
    <3> QED
      BY <1>4, <2>2, <3>5
  <2> QED
    BY <1>3, <2>1, <2>2
<1>6. Live(n)' = s /\ \A m \in Names \ {n} : Live(m)' = Live(m)
  <2>1. Live(n)' = s
    BY <1>5 DEF Live
  <2>2. \A m \in Names \ {n} : Live(m)' = Live(m)
    BY <1>3, LiveStays
  <2> QED
    BY <2>1, <2>2
<1>7. SavedMap' = SavedMap /\ Saved' = Saved
  BY <1>1, SavedStays
<1>8. \A c \in Clients : req[c].pc = "idle" /\ req[c].pc \notin Before
                         /\ req[c].pc \notin Changed
  BY <1>1, NoRequest DEF ConfigInv
<1>9. PendingInv'
  <2>1. ASSUME NEW m \in Names, m # n, vips'[m] # NoVip, ~vips'[m].cfg, pending'[m] # NoSpec
        PROVE  FALSE
    <3>1. \E c \in Clients : req[c].pc = "pend"
      BY <1>3, <2>1 DEF SavingInv, PendingInv
    <3> QED
      BY <1>8, <3>1
  <2> QED
    BY <1>5, <2>1 DEF PendingInv
<1>10. LoadInv'
  <2>1. ASSUME NEW i \in DOMAIN NameOrder
        PROVE  IF i <= at' THEN Live(NameOrder[i])' = SavedMap'[NameOrder[i]]
               ELSE /\ vips'[NameOrder[i]] = NoVip \/ vips'[NameOrder[i]].cfg
                    /\ pending'[NameOrder[i]] = NoSpec
    <3>1. NameOrder[i] \in Names /\ i \in Nat
      BY RegistryAssumption DEF Names
    <3>2. CASE i = at + 1
      BY <1>1, <1>2, <1>6, <1>7, <3>2
    <3>3. CASE i # at + 1
      <4>1. NameOrder[i] # n
        BY <1>2, <1>3, <3>3, RegistryAssumption
      <4>2. i <= at' <=> i <= at
        BY <1>1, <3>1, <3>3
      <4>3. IF i <= at THEN Live(NameOrder[i]) = SavedMap[NameOrder[i]]
            ELSE /\ vips[NameOrder[i]] = NoVip \/ vips[NameOrder[i]].cfg
                 /\ pending[NameOrder[i]] = NoSpec
        BY <1>1 DEF SavingInv, LoadInv
      <4> QED
        BY <1>3, <1>6, <1>7, <3>1, <4>1, <4>2, <4>3
    <3> QED
      BY <3>2, <3>3
  <2> QED
    BY <2>1 DEF LoadInv
<1>11. FileInv'
  BY <1>1, <1>8 DEF SavingInv, FileInv
<1>12. WantInv'
  BY <1>1, <1>7, <1>8 DEF SavingInv, WantInv, alive
<1> QED
  BY <1>1, <1>7, <1>9, <1>10, <1>11, <1>12 DEF SavingInv

\* When the API listens, the names have what was saved.
LEMMA ListeningSaving ==
    ASSUME ConfigInv, SavingInv, Listening
    PROVE  /\ SavingInv' /\ Saved' = Saved /\ UNCHANGED req
           /\ \A n \in Names : Live(n)' = SavedMap[n]
<1>1. /\ phase = "loading" /\ phase' = "up" /\ at = Len(NameOrder)
      /\ UNCHANGED <<vips, pending, req, disk, fileIno, tmpIno, want>>
  BY DEF Listening, mem, files
<1>2. SavedMap' = SavedMap /\ Saved' = Saved /\ \A n : Live(n)' = Live(n)
  BY <1>1 DEF SavedMap, Saved, Live
<1>3. ASSUME NEW n \in Names PROVE Live(n) = SavedMap[n]
  <2>1. PICK i \in DOMAIN NameOrder : n = NameOrder[i]
    BY DEF Names
  <2>2. i <= at
    BY <1>1, RegistryAssumption
  <2> QED
    BY <1>1, <2>1, <2>2 DEF SavingInv, LoadInv
<1>4. \A c \in Clients : req[c].pc = "idle" /\ req[c].pc \notin Before
                         /\ req[c].pc \notin Changed
  BY <1>1, NoRequest DEF ConfigInv
<1>5. PendingInv' /\ LoadInv'
  BY <1>1 DEF SavingInv, PendingInv, LoadInv
<1>6. FileInv'
  BY <1>1, <1>4 DEF SavingInv, FileInv
<1>7. WantInv'
  BY <1>1, <1>2, <1>3, <1>4 DEF SavingInv, WantInv
<1> QED
  BY <1>1, <1>2, <1>3, <1>5, <1>6, <1>7 DEF SavingInv

-----------------------------------------------------------------------------
(* What is acknowledged survives, and RegistrySpec. *)

\* Nothing is saved and nothing runs at first.
LEMMA SavingInit == Init => SavingInv
<1> SUFFICES ASSUME Init PROVE SavingInv
  OBVIOUS
<1> USE Nothing
<1>1. "idle" \notin Before /\ "idle" \notin Changed
  BY DEF Before, Changed
<1>2. PendingInv /\ LoadInv /\ FileInv
  BY DEF Init, PendingInv, LoadInv, FileInv
<1>3. WantInv
  BY <1>1 DEF Init, WantInv, SavedMap, alive
<1> QED
  BY <1>2, <1>3 DEF SavingInv

\* With one request at a time every step keeps it.
LEMMA SavingStep ==
    ASSUME OneAtATime, ConfigSteady
    PROVE  ConfigInv /\ SavingInv /\ [Next]_vars => SavingInv'
<1> SUFFICES ASSUME ConfigInv, SavingInv, [Next]_vars PROVE SavingInv'
  OBVIOUS
<1>1. ASSUME NEW c \in Clients, Step(c) PROVE SavingInv'
  <2>1. CASE ReadOnly(c) \/ PutRefused(c) \/ RemoveUnknown(c) \/ PutHalf(c)
    BY <2>1, RefusedSaving DEF ReadOnly, PutRefused, RemoveUnknown, Before
  <2>2. CASE Checked(c)
    BY <2>2, CheckedSaving
  <2>3. CASE Put(c)
    BY <2>3, PutSaving
  <2>4. CASE Unpend(c)
    BY <2>4, UnpendSaving
  <2>5. CASE RemoveVip(c)
    BY <2>5, RemoveSaving
  <2>6. CASE SavePending(c) \/ Overlay(c)
    BY <2>6, CopySaving
  <2>7. CASE Open(c) \/ Write(c)
    BY <2>7, TmpSaving
  <2>8. CASE Rename(c)
    BY <2>8, RenameSaving
  <2>9. CASE RenameFails(c) \/ WriteFails(c)
    BY <2>9, FailedSaving
  <2> QED
    BY <1>1, <2>1, <2>2, <2>3, <2>4, <2>5, <2>6, <2>7, <2>8, <2>9 DEF Step
<1>2. ASSUME NEW c \in Clients, NEW r \in Requests[c], Begin(c, r) PROVE SavingInv'
  BY <1>2, BeginSaving
<1>3. ASSUME NEW a, Closed(a) \/ TakenChange(a) \/ CaChange \/ UNCHANGED vars
      PROVE  SavingInv'
  <2>1. UNCHANGED <<vips, pending, req, disk, fileIno, tmpIno, phase, at, want>>
    BY <1>3 DEF Closed, TakenChange, CaChange, vars, mem, files, world
  <2> QED
    BY <2>1, OtherSaving
<1>4. CASE Exit
  BY <1>4, ExitSaving
<1>5. ASSUME NEW cfg \in ConfigAtBoot, Boot(cfg) PROVE SavingInv'
  BY <1>5, BootSaving
<1>6. CASE Load
  BY <1>6, LoadSaving
<1>7. CASE Listening
  BY <1>7, ListeningSaving
<1> QED
  BY <1>1, <1>2, <1>3, <1>4, <1>5, <1>6, <1>7 DEF Next

\* README: "With state_file, every change is saved".  For one request at a time, through
\* refusals, half-made and failed changes, failed writes and exits at any point of a
\* request or a start, each name has what its last acknowledged change gave it, or what
\* a change under way or answered 500 may have.
THEOREM AcknowledgedSurvives ==
    ASSUME OneAtATime, ConfigSteady
    PROVE  Spec => []AckedSurvives
<1>1. Init => ConfigInv /\ SavingInv
  BY ConfigInit, SavingInit
<1>2. ConfigInv /\ SavingInv /\ [Next]_vars => ConfigInv' /\ SavingInv'
  BY ConfigStep, SavingStep
<1>3. SavingInv => AckedSurvives
  BY DEF SavingInv, WantInv, AckedSurvives
<1> QED
  BY <1>1, <1>2, <1>3, PTL DEF Spec

\* A step that leaves alone whether the process runs, what the names have, the file and
\* whether a change is open is no step of RegistrySpec.
LEMMA Unseen ==
    ASSUME alive' <=> alive, alive => \A n \in Names : Live(n)' = Live(n), Saved' = Saved,
           (\E c \in Clients : req[c].pc \in Changed)' <=> \E c \in Clients : req[c].pc \in Changed
    PROVE  UNCHANGED Durable!vars
BY DEF Durable!vars, Changed

\* Each step of the registry is one of RegistrySpec, or none.
LEMMA DurableStep ==
    ASSUME OneAtATime, ConfigSteady
    PROVE  ConfigInv /\ SavingInv /\ [Next]_vars => [Durable!Next]_(Durable!vars)
<1> SUFFICES ASSUME ConfigInv, SavingInv, [Next]_vars PROVE [Durable!Next]_(Durable!vars)
  OBVIOUS
<1> DEFINE cur == [n \in Names |-> IF alive THEN Live(n) ELSE NoSpec]
           opened == \E c \in Clients : req[c].pc \in Changed
<1>1. Saved = SavedMap
  BY DEF Saved, SavedMap, SavingInv, FileInv
<1>2. "idle" \notin Changed /\ \A p \in Before : p \notin Changed
  BY DEF Before, Changed
<1>3. ASSUME NEW c \in Clients, phase' = phase, \A n \in Names : Live(n)' = Live(n),
             Saved' = Saved, req'[c].pc \in Changed <=> req[c].pc \in Changed
      PROVE  UNCHANGED Durable!vars
  <2>1. opened' <=> opened
    BY <1>3 DEF OneAtATime
  <2> QED
    BY <1>3, <2>1, Unseen DEF alive
<1>4. ASSUME NEW c \in Clients, req[c].pc # "idle" PROVE alive
  BY <1>4 DEF ConfigInv, RequestInv
<1>5. ASSUME NEW c \in Clients, NEW n \in Names, NEW s \in AnySpec,
             req[c].pc \in {"apply", "delete"}, req'[c].pc \in Changed, phase' = phase,
             \A m \in Names : Live(m)' = IF m = n THEN s ELSE Live(m), Saved' = Saved
      PROVE  Durable!Change(n, s)
  <2>1. alive /\ alive' /\ ~opened /\ opened'
    BY <1>2, <1>4, <1>5 DEF OneAtATime, alive, Before
  <2>2. cur' = [cur EXCEPT ![n] = s]
    BY <1>5, <2>1
  <2> QED
    BY <1>5, <2>1, <2>2 DEF Durable!Change, Changed
<1>6. ASSUME NEW c \in Clients, Step(c) PROVE [Durable!Next]_(Durable!vars)
  <2>1. CASE ReadOnly(c) \/ PutRefused(c) \/ RemoveUnknown(c) \/ PutHalf(c)
    <3>1. (req[c].pc \in Before /\ Refuse(c)) \/ PutHalf(c)
      BY <2>1 DEF ReadOnly, PutRefused, RemoveUnknown, Before
    <3>2. phase' = phase
      BY <3>1 DEF Refuse, PutHalf, world
    <3> QED
      BY <1>2, <1>3, <3>1, <3>2, RefusedSaving
  <2>2. CASE Checked(c)
    BY <1>2, <1>3, <2>2, CheckedSaving DEF Checked, mem, files, world, Live, Saved
  <2>3. CASE Put(c)
    <3>1. PICK n \in Names, s \in Specs : n = req[c].name /\ s = req[c].spec
      BY <2>3, PutSaving
    <3>2. Durable!Change(n, s)
      BY <1>5, <2>3, <3>1, PutSaving DEF AnySpec, Changed, Put, world
    <3> QED
      BY <3>2 DEF Durable!Next
  <2>4. CASE Unpend(c)
    BY <1>3, <2>4, UnpendSaving DEF Unpend, world, Changed
  <2>5. CASE RemoveVip(c)
    <3>1. PICK n \in Names : n = req[c].name
      BY <2>5, RemoveSaving
    <3>2. Durable!Change(n, NoSpec)
      BY <1>5, <2>5, <3>1, RemoveSaving, Nothing DEF Changed, RemoveVip, world
    <3> QED
      BY <3>2 DEF Durable!Next
  <2>6. CASE SavePending(c) \/ Overlay(c)
    BY <1>3, <2>6, CopySaving DEF SavePending, Overlay, mem, files, world, Live, Saved
  <2>7. CASE Open(c) \/ Write(c)
    BY <1>3, <2>7, TmpSaving DEF Open, Write, mem, world, Live
  <2>8. CASE Rename(c)
    <3>1. phase' = phase /\ alive
      BY <1>4, <2>8 DEF Rename, world
    <3>2. opened /\ ~opened'
      BY <1>2, <2>8, RenameSaving DEF OneAtATime
    <3>3. Saved' = cur /\ cur' = cur
      BY <2>8, <3>1, RenameSaving DEF alive
    <3>4. Durable!Acknowledge
      BY <3>1, <3>2, <3>3 DEF Durable!Acknowledge, alive, Changed
    <3> QED
      BY <3>4 DEF Durable!Next
  <2>9. CASE RenameFails(c) \/ WriteFails(c)
    <3>1. UNCHANGED <<vips, pending, phase>>
      BY <2>9 DEF RenameFails, WriteFails, mem, world
    <3>2. opened /\ ~opened' /\ Saved' = Saved
      BY <1>2, <2>9, FailedSaving DEF OneAtATime
    <3>3. cur' = cur /\ (alive' <=> alive)
      BY <3>1 DEF alive, Live
    <3>4. Durable!NotSaved
      BY <3>2, <3>3 DEF Durable!NotSaved, alive, Changed
    <3> QED
      BY <3>4 DEF Durable!Next
  <2> QED
    BY <1>6, <2>1, <2>2, <2>3, <2>4, <2>5, <2>6, <2>7, <2>8, <2>9 DEF Step
<1>7. ASSUME NEW c \in Clients, NEW r \in Requests[c], Begin(c, r)
      PROVE  [Durable!Next]_(Durable!vars)
  BY <1>2, <1>3, <1>7, BeginSaving DEF Begin, mem, files, world, Live, Saved
<1>8. ASSUME NEW a, Closed(a) \/ TakenChange(a) \/ CaChange \/ UNCHANGED vars
      PROVE  [Durable!Next]_(Durable!vars)
  <2>1. UNCHANGED <<vips, pending, req, disk, fileIno, phase>>
    BY <1>8 DEF Closed, TakenChange, CaChange, vars, mem, files, world
  <2> QED
    BY <2>1, Unseen DEF alive, Live, Saved
<1>9. CASE Exit
  <2>1. /\ phase' = "down" /\ Saved' = Saved /\ ~opened'
    BY <1>2, <1>9, ExitSaving DEF Exit
  <2>2. CASE alive
    <3>1. cur' = [n \in Names |-> NoSpec] /\ ~alive'
      BY <2>1 DEF alive
    <3>2. Durable!Stop
      BY <2>1, <2>2, <3>1 DEF Durable!Stop, Durable!Nothing, alive, Changed
    <3> QED
      BY <3>2 DEF Durable!Next
  <2>3. CASE ~alive
    <3>1. ~alive' /\ ~opened
      BY <2>1, <2>3, NoRequest DEF alive, ConfigInv
    <3> QED
      BY <2>1, <2>3, <3>1, Unseen
  <2> QED
    BY <2>2, <2>3
<1>10. ASSUME NEW cfg \in ConfigAtBoot, Boot(cfg) PROVE [Durable!Next]_(Durable!vars)
  <2>1. ~alive /\ ~alive' /\ UNCHANGED req /\ Saved' = Saved
    BY <1>10, BootSaving DEF Boot, alive
  <2> QED
    BY <2>1, Unseen
<1>11. CASE Load
  <2>1. ~alive /\ ~alive' /\ UNCHANGED req /\ Saved' = Saved
    BY <1>11, LoadSaving DEF Load, alive
  <2> QED
    BY <2>1, Unseen
<1>12. CASE Listening
  <2>1. ~alive /\ alive'
    BY <1>12 DEF Listening, alive
  <2>2. /\ UNCHANGED req /\ Saved' = Saved /\ \A n \in Names : Live(n)' = Saved[n]
    BY <1>1, <1>12, ListeningSaving
  <2>3. Saved \in [Names -> AnySpec]
    BY <1>1, SavedType DEF ConfigInv, Maps
  <2>4. cur' = Saved /\ opened' = opened
    BY <2>1, <2>2, <2>3
  <2>5. Durable!Start
    BY <2>1, <2>2, <2>4 DEF Durable!Start, Changed
  <2> QED
    BY <2>5 DEF Durable!Next
<1> QED
  BY <1>6, <1>7, <1>8, <1>9, <1>10, <1>11, <1>12 DEF Next

\* README: "saved (JSON, written atomically on every change) and read back at start".
\* For one request at a time the registry and its two files implement RegistrySpec, for
\* any names, specs, listeners and any number of requests, failures and exits.
THEOREM RegistryImplementsSpec ==
    ASSUME OneAtATime, ConfigSteady
    PROVE  Spec => ImplementsSpec
<1>1. Init => ConfigInv /\ SavingInv
  BY ConfigInit, SavingInit
<1>2. ConfigInv /\ SavingInv /\ [Next]_vars => ConfigInv' /\ SavingInv'
  BY ConfigStep, SavingStep
<1>3. Init => Durable!Init
  <2> SUFFICES ASSUME Init PROVE Durable!Init
    OBVIOUS
  <2>1. "idle" \notin {"pend", "save", "overlay", "open", "write", "rename"}
        /\ \A c \in Clients : req[c].pc = "idle"
    BY Nothing DEF Init
  <2>2. Saved = [n \in Names |-> NoSpec] /\ ~alive
    BY DEF Init, Saved, alive
  <2> QED
    BY <2>1, <2>2 DEF Durable!Init, Durable!Nothing
<1>4. ConfigInv /\ SavingInv /\ [Next]_vars => [Durable!Next]_(Durable!vars)
  BY DurableStep
<1> QED
  BY <1>1, <1>2, <1>3, <1>4, PTL DEF Spec, ImplementsSpec, Durable!Spec

=============================================================================
