---------------------------- MODULE RouterProofs ----------------------------
(* Theorems about the router's certificates, its route table and its backend  *)
(* CA, for every number of pairs and every list of routes.                    *)
EXTENDS Router, OrderLemmas, FiniteSetTheorems

USE CertsAssumption, RouterAssumption DEF CertsAssumption, RouterAssumption

-----------------------------------------------------------------------------
(* The certificates: the inductive invariant. *)

File == [ver : Nat, at : Nat]

\* Type correctness of the certificate side.
CertsTypeInv ==
    /\ events \in Nat
    /\ files \in [Pairs -> [cert : File, key : File]]
    /\ loaded \in [Pairs -> [cert : Nat, key : Nat, stamp : Nat \X Nat]]
    /\ at \in {"sleep", "cert", "key", "load_cert", "load_key"}
    /\ pair \in Nat \ {0} /\ (at # "sleep" => pair \in Pairs) /\ (NPairs > 0 => pair \in Pairs)
    /\ seen \in Nat \X Nat /\ leaf \in Nat

\* A version read after the stamp s of a file f was taken: no write to come leaves
\* that stamp again, and a file that still has it is the one that was read.
Kept(s, ver, f) ==
    /\ s <= events + 1
    /\ f # NoFile /\ f.at = s => f.ver = ver

FilesInv == \A p \in Pairs : files[p].cert.at <= events + 1 /\ files[p].key.at <= events + 1

LoadedInv ==
    \A p \in Pairs :
        IsLoaded(p) => /\ Kept(loaded[p].stamp[1], loaded[p].cert, files[p].cert)
                       /\ Kept(loaded[p].stamp[2], loaded[p].key, files[p].key)

\* What reload holds in its hands.
ReadInv ==
    /\ seen[1] <= events + 1 /\ seen[2] <= events + 1
    /\ at = "load_key" => Kept(seen[1], leaf, files[pair].cert)

CertsInv == CertsTypeInv /\ FilesInv /\ LoadedInv /\ ReadInv /\ PairsMatch

\* The invariant says what is served.
LEMMA CertsInvServes == CertsInv => LoadedRight
<1> SUFFICES ASSUME CertsInv, NEW p \in Pairs, IsLoaded(p),
                    files[p].cert # NoFile, files[p].key # NoFile,
                    loaded[p].stamp = <<files[p].cert.at, files[p].key.at>>
             PROVE  loaded[p].cert = files[p].cert.ver /\ loaded[p].key = files[p].key.ver
    BY DEF CertsInv, LoadedRight, SkippedIsCurrent
<1> QED BY DEF CertsInv, LoadedInv, Kept

LEMMA CertsStart == CertsInit /\ events = 0 => CertsInv
<1> SUFFICES ASSUME CertsInit, events = 0 PROVE CertsInv
    OBVIOUS
<1>1. CertsTypeInv
    BY DEF CertsInit, CertsTypeInv, File, Pairs, NotLoaded, NoStamps
<1>2. FilesInv /\ PairsMatch /\ ReadInv
    BY DEF CertsInit, FilesInv, PairsMatch, ReadInv, NotLoaded, NoStamps
<1>3. LoadedInv
    BY DEF CertsInit, LoadedInv, IsLoaded, Kept
<1> QED BY <1>1, <1>2, <1>3 DEF CertsInv

\* An event elsewhere changes nothing but the count of events.
LEMMA EventElsewhere ==
    ASSUME CertsInv, UNCHANGED certVars, Event \/ UNCHANGED events
    PROVE  CertsInv'
<1>1. events' \in Nat /\ events <= events'
    BY DEF CertsInv, CertsTypeInv, Event
<1>2. UNCHANGED <<files, loaded, at, pair, seen, leaf>>
    BY DEF certVars, reloadVars
<1>3. CertsTypeInv' /\ FilesInv' /\ PairsMatch'
    BY <1>1, <1>2 DEF CertsInv, CertsTypeInv, FilesInv, PairsMatch, File
<1>4. ASSUME NEW s \in Nat, NEW v, NEW f, Kept(s, v, f)
      PROVE  s <= events' + 1 /\ (f # NoFile /\ f.at = s => f.ver = v)
    BY <1>1, <1>4 DEF CertsInv, CertsTypeInv, Kept
<1>5. LoadedInv'
    BY <1>2, <1>4 DEF CertsInv, CertsTypeInv, LoadedInv, IsLoaded, Kept
<1>6. ReadInv'
    BY <1>1, <1>2, <1>4 DEF CertsInv, CertsTypeInv, ReadInv, Kept
<1> QED BY <1>3, <1>5, <1>6 DEF CertsInv

\* A write or a removal leaves every file as it was, missing, or with a stamp no one
\* has read yet.
LEMMA FilesAfter ==
    ASSUME CertsInv, FileChange
    PROVE  /\ files' \in [Pairs -> [cert : File, key : File]]
           /\ \A p \in Pairs, f \in {"cert", "key"} :
                  \/ files'[p][f] = files[p][f] \/ files'[p][f] = NoFile
                  \/ files'[p][f].at = events + 2
<1>1. PICK q \in Pairs, g \in {"cert", "key"}, new \in File :
          /\ files' = [files EXCEPT ![q][g] = new]
          /\ new = NoFile \/ new.at = events + 2
    <2>1. events \in Nat
        BY DEF CertsInv, CertsTypeInv
    <2>2. NoFile \in File /\ \A v \in 0..2 : [ver |-> v, at |-> events + 2] \in File
        BY <2>1 DEF File, NoFile
    <2>3. ASSUME NEW q \in Pairs, NEW g \in {"cert", "key"}, RemoveFile(q, g)
          PROVE  files' = [files EXCEPT ![q][g] = NoFile]
        BY <2>3 DEF RemoveFile
    <2>4. ASSUME NEW q \in Pairs, NEW g \in {"cert", "key"}, NEW v \in 0..2, WriteFile(q, g, v)
          PROVE  files' = [files EXCEPT ![q][g] = [ver |-> v, at |-> events + 2]]
        BY <2>4 DEF WriteFile
    <2> QED BY <2>2, <2>3, <2>4 DEF FileChange
<1>2. files \in [Pairs -> [cert : File, key : File]]
    BY DEF CertsInv, CertsTypeInv
<1>3. CASE g = "cert"
    BY <1>1, <1>2, <1>3
<1>4. CASE g = "key"
    BY <1>1, <1>2, <1>4
<1> QED BY <1>1, <1>3, <1>4

LEMMA FileStep ==
    ASSUME CertsInv, FileChange
    PROVE  CertsInv'
<1>1. UNCHANGED <<loaded, at, pair, seen, leaf>> /\ events' = events + 1 /\ events \in Nat
    BY DEF FileChange, WriteFile, RemoveFile, Event, reloadVars, CertsInv, CertsTypeInv
<1>2. /\ files' \in [Pairs -> [cert : File, key : File]]
      /\ files \in [Pairs -> [cert : File, key : File]]
    BY FilesAfter DEF CertsInv, CertsTypeInv
<1> DEFINE New(f, g) == g = f \/ g = NoFile \/ g.at = events + 2
<1>3. \A p \in Pairs : New(files[p].cert, files'[p].cert) /\ New(files[p].key, files'[p].key)
    BY FilesAfter
<1>4. CertsTypeInv' /\ PairsMatch'
    BY <1>1, <1>2 DEF CertsInv, CertsTypeInv, PairsMatch
<1>5. FilesInv'
    <2>1. ASSUME NEW f \in File, NEW g \in File, New(f, g), f.at <= events + 1
          PROVE  g.at <= events' + 1
        BY <1>1, <2>1 DEF File, NoFile
    <2> QED BY <1>2, <1>3, <2>1 DEF CertsInv, FilesInv
<1>6. ASSUME NEW s \in Nat, NEW v, NEW f \in File, NEW g \in File, New(f, g), Kept(s, v, f)
      PROVE  s <= events' + 1 /\ (g # NoFile /\ g.at = s => g.ver = v)
    BY <1>1, <1>6 DEF File, Kept
<1>7. LoadedInv'
    <2> SUFFICES ASSUME NEW p \in Pairs, IsLoaded(p)
                 PROVE  /\ Kept(loaded[p].stamp[1], loaded[p].cert, files[p].cert)'
                        /\ Kept(loaded[p].stamp[2], loaded[p].key, files[p].key)'
        BY <1>1 DEF LoadedInv, IsLoaded
    <2>1. loaded[p].stamp[1] \in Nat /\ loaded[p].stamp[2] \in Nat
        BY DEF CertsInv, CertsTypeInv
    <2>2. /\ Kept(loaded[p].stamp[1], loaded[p].cert, files[p].cert)
          /\ Kept(loaded[p].stamp[2], loaded[p].key, files[p].key)
        BY DEF CertsInv, LoadedInv
    <2>3. /\ files[p].cert \in File /\ files'[p].cert \in File
          /\ files[p].key \in File /\ files'[p].key \in File
        BY <1>2
    <2>4. Kept(loaded[p].stamp[1], loaded[p].cert, files[p].cert)'
        BY <1>1, <1>3, <1>6, <2>1, <2>2, <2>3 DEF Kept
    <2>5. Kept(loaded[p].stamp[2], loaded[p].key, files[p].key)'
        BY <1>1, <1>3, <1>6, <2>1, <2>2, <2>3 DEF Kept
    <2> QED BY <2>4, <2>5
<1>8. ReadInv'
    <2>1. seen[1] \in Nat /\ seen[2] \in Nat
        BY DEF CertsInv, CertsTypeInv
    <2>2. CASE at = "load_key"
        <3>1. pair \in Pairs /\ Kept(seen[1], leaf, files[pair].cert)
            BY <2>2 DEF CertsInv, CertsTypeInv, ReadInv
        <3>2. files[pair].cert \in File /\ files'[pair].cert \in File
            BY <1>2, <3>1
        <3>3. Kept(seen[1], leaf, files[pair].cert)'
            BY <1>1, <1>3, <1>6, <2>1, <3>1, <3>2 DEF Kept
        <3> QED BY <1>1, <2>1, <3>3 DEF CertsInv, ReadInv
    <2> QED BY <1>1, <2>1, <2>2 DEF CertsInv, ReadInv
<1> QED BY <1>4, <1>5, <1>7, <1>8 DEF CertsInv

\* Reload works on one pair at a time.
LEMMA OnwardKeeps ==
    ASSUME CertsTypeInv, at # "sleep", Onward, UNCHANGED <<files, events>>,
           loaded' \in [Pairs -> [cert : Nat, key : Nat, stamp : Nat \X Nat]]
    PROVE  CertsTypeInv' /\ ReadInv'
<1>1. CertsTypeInv'
    <2>1. pair \in 1..NPairs
        BY DEF CertsTypeInv, Pairs
    <2>2. pair' \in 1..NPairs /\ pair' \in Nat \ {0}
        BY <2>1 DEF Onward
    <2>3. at' \in {"sleep", "cert"}
        BY DEF Onward
    <2>4. seen' \in Nat \X Nat /\ leaf' \in Nat
        BY DEF Onward, NoStamps
    <2> QED BY <2>2, <2>3, <2>4 DEF CertsTypeInv, Pairs
<1>2. ReadInv'
    BY DEF Onward, CertsTypeInv, NoStamps, ReadInv
<1> QED BY <1>1, <1>2

LEMMA ReloadKeeps ==
    ASSUME CertsInv, ReloadStep
    PROVE  CertsInv'
<1>0. CertsTypeInv /\ FilesInv /\ LoadedInv /\ ReadInv /\ PairsMatch
    BY DEF CertsInv
<1> DEFINE Rest == UNCHANGED <<files, loaded, events>>
<1>1. ASSUME Rest, CertsTypeInv', ReadInv' PROVE CertsInv'
    <2>1. FilesInv' /\ PairsMatch'
        BY <1>0, <1>1 DEF FilesInv, PairsMatch
    <2>2. LoadedInv'
        BY <1>0, <1>1 DEF LoadedInv, IsLoaded, Kept
    <2> QED BY <1>1, <2>1, <2>2 DEF CertsInv
<1>2. CASE Reload
    <2>1. CertsTypeInv' /\ ReadInv'
        BY <1>0, <1>2 DEF Reload, CertsTypeInv, ReadInv
    <2> QED BY <1>1, <1>2, <2>1 DEF Reload
<1>3. CASE StatCert
    <2>1. pair \in Pairs /\ files[pair].cert.at \in Nat /\ files[pair].cert.at <= events + 1
        BY <1>0, <1>3 DEF StatCert, CertsTypeInv, FilesInv, File
    <2>2. CertsTypeInv' /\ ReadInv'
        BY <1>0, <1>3, <2>1 DEF StatCert, CertsTypeInv, ReadInv
    <2> QED BY <1>1, <1>3, <2>2 DEF StatCert
<1>4. CASE StatKey
    <2>1. pair \in Pairs /\ files[pair].key.at \in Nat /\ files[pair].key.at <= events + 1
        BY <1>0, <1>4 DEF StatKey, CertsTypeInv, FilesInv, File
    <2>2. CASE IsLoaded(pair) /\ loaded[pair].stamp = <<seen[1], files[pair].key.at>>
        BY <1>0, <1>1, <1>4, <2>2, OnwardKeeps DEF StatKey, CertsTypeInv
    <2>3. CASE ~(IsLoaded(pair) /\ loaded[pair].stamp = <<seen[1], files[pair].key.at>>)
        <3>1. /\ seen' = <<seen[1], files[pair].key.at>> /\ at' = "load_cert"
              /\ UNCHANGED <<pair, leaf, files, loaded, events>>
            BY <1>4, <2>3 DEF StatKey
        <3>2. CertsTypeInv' /\ ReadInv'
            BY <1>0, <2>1, <3>1 DEF CertsTypeInv, ReadInv
        <3> QED BY <1>1, <3>1, <3>2
    <2> QED BY <2>2, <2>3
<1>5. CASE LoadCert
    <2>1. pair \in Pairs /\ files[pair].cert.ver \in Nat
        BY <1>0, <1>5 DEF LoadCert, CertsTypeInv, File
    <2>2. CertsTypeInv' /\ ReadInv'
        BY <1>0, <1>5, <2>1 DEF LoadCert, CertsTypeInv, ReadInv, Kept
    <2> QED BY <1>1, <1>5, <2>2 DEF LoadCert
<1>6. CASE LoadFails
    <2>1. at # "sleep"
        BY <1>6 DEF LoadFails, LoadError
    <2> QED BY <1>0, <1>1, <1>6, <2>1, OnwardKeeps DEF LoadFails, CertsTypeInv
<1>7. CASE LoadKey
    <2> DEFINE new == [cert |-> leaf, key |-> files[pair].key.ver, stamp |-> seen]
    <2>1. /\ pair \in Pairs /\ leaf = files[pair].key.ver /\ leaf # 0
          /\ loaded' = [loaded EXCEPT ![pair] = new] /\ Onward /\ UNCHANGED <<files, events>>
        BY <1>0, <1>7 DEF LoadKey, CertsTypeInv, KeysMatch, Stamp
    <2>2. new \in [cert : Nat, key : Nat, stamp : Nat \X Nat]
        BY <1>0, <2>1 DEF CertsTypeInv, File
    <2>3. CertsTypeInv' /\ ReadInv'
        BY <1>0, <1>7, <2>1, <2>2, OnwardKeeps DEF CertsTypeInv, LoadKey
    <2>4. FilesInv'
        BY <1>0, <2>1 DEF FilesInv
    <2>5. PairsMatch'
        BY <1>0, <2>1 DEF PairsMatch, CertsTypeInv
    <2>6. Kept(seen[1], leaf, files[pair].cert) /\ Kept(seen[2], leaf, files[pair].key)
        BY <1>0, <1>7, <2>1 DEF ReadInv, LoadKey, Kept
    <2>7. LoadedInv'
        <3> SUFFICES ASSUME NEW p \in Pairs, IsLoaded(p)'
                     PROVE  /\ Kept(loaded[p].stamp[1], loaded[p].cert, files[p].cert)'
                            /\ Kept(loaded[p].stamp[2], loaded[p].key, files[p].key)'
            BY DEF LoadedInv
        <3>1. CASE p = pair
            BY <1>0, <2>1, <2>6, <3>1 DEF Kept, CertsTypeInv
        <3>2. CASE p # pair
            BY <1>0, <2>1, <3>2 DEF Kept, CertsTypeInv, LoadedInv, IsLoaded
        <3> QED BY <3>1, <3>2
    <2> QED BY <2>3, <2>4, <2>5, <2>7 DEF CertsInv
<1> QED BY <1>2, <1>3, <1>4, <1>5, <1>6, <1>7 DEF ReloadStep

LEMMA CertsInductive == Spec => []CertsInv
<1>1. Init => CertsInv
    BY CertsStart DEF Init
<1>2. CertsInv /\ [Next]_vars => CertsInv'
    <2> SUFFICES ASSUME CertsInv, [Next]_vars PROVE CertsInv'
        OBVIOUS
    <2>1. CASE UNCHANGED vars
        BY <2>1, EventElsewhere DEF vars
    <2>2. CASE Next
        BY <2>2, ReloadKeeps, FileStep, EventElsewhere DEF Next
    <2> QED BY <2>1, <2>2
<1> QED BY <1>1, <1>2, PTL DEF Spec

\* What is served is a certificate with its own key, and the files a reload will skip
\* are those it read, whatever is written between the steps of a reload (Certs::reload).
THEOREM ServesLoadedPairs == Spec => []LoadedRight
BY CertsInductive, CertsInvServes, PTL

-----------------------------------------------------------------------------
(* The refinement of Front. *)

\* A pair once loaded stays so.
LEMMA CountGrows == CertsInv /\ [Next]_vars /\ Count > 0 => (Count > 0)'
<1> SUFFICES ASSUME CertsInv, [Next]_vars, Count > 0 PROVE (Count > 0)'
    OBVIOUS
<1> DEFINE L == {p \in Pairs : IsLoaded(p)}
<1>1. IsFiniteSet(Pairs)
    BY FS_Interval DEF Pairs
<1>2. IsFiniteSet(L) /\ IsFiniteSet(L')
    <2>1. L \subseteq Pairs /\ L' \subseteq Pairs
        OBVIOUS
    <2> HIDE DEF L
    <2> QED BY <1>1, <2>1, FS_Subset
<1>3. L # {}
    BY FS_EmptySet DEF Count
<1>4. L \subseteq L'
    <2>1. loaded \in [Pairs -> [cert : Nat, key : Nat, stamp : Nat \X Nat]]
        BY DEF CertsInv, CertsTypeInv
    <2>2. CASE UNCHANGED loaded
        BY <2>2 DEF IsLoaded
    <2>3. CASE LoadKey
        <3>1. leaf # 0 /\ loaded' = [loaded EXCEPT ![pair] = [cert |-> leaf,
                                      key |-> files[pair].key.ver, stamp |-> Stamp]]
            BY <2>3 DEF LoadKey, KeysMatch
        <3>2. \A p \in Pairs : loaded'[p] = loaded[p] \/ loaded'[p].cert # 0
            BY <2>1, <3>1
        <3>3. NotLoaded.cert = 0
            BY DEF NotLoaded
        <3> QED BY <3>2, <3>3 DEF IsLoaded
    <2> QED BY <2>2, <2>3
        DEF Next, vars, certVars, reloadVars, ReloadStep, Reload, StatCert, StatKey, LoadCert,
            LoadFails, FileChange, WriteFile, RemoveFile
<1>5. L' # {}
    BY <1>3, <1>4
<1>6. Cardinality(L') \in Nat /\ Cardinality(L') # 0
    <2> HIDE DEF L
    <2> QED BY <1>2, <1>5, FS_CardinalityType, FS_EmptySet
<1>7. Count' = Cardinality(L')
    BY DEF Count
<1> QED BY <1>6, <1>7

\* So does the connector to https backends.
LEMMA CaStays == [Next]_vars /\ ca.ver # 0 => ca'.ver # 0
BY DEF Next, vars, poller, Poll, CaStat, CaLoad, Listed, Resolved, Unresolved, Swap, ListFails,
       LookupFails

LEMMA KindIsOne == \A b : Kind(b) \in Cells!Kinds
BY DEF Kind, Cells!Kinds

\* The poller and the reload task make the Front that the tasks of connections rely
\* on (ConnectionsProofs): the table is replaced whole and alone, the connector and
\* the certificates are never taken away.
THEOREM RouterMakesFront == Spec => ImplementsFront
<1> DEFINE T == [h \in Hosts |-> Kind(table[h])]
           C == ca.ver # 0
           D == Count > 0
<1>1. Init => Cells!Init
    <2> SUFFICES ASSUME Init PROVE Cells!Init
        OBVIOUS
    <2>1. T = [h \in Hosts |-> "none"]
        BY DEF Init, NoTable, Kind
    <2>2. C = FALSE
        BY DEF Init, NoCa
    <2> QED BY <2>1, <2>2 DEF Cells!Init
<1>2. CertsInv /\ [Next]_vars => [Cells!Next]_<<T, C, D>>
    <2> SUFFICES ASSUME CertsInv, [Next]_vars PROVE [Cells!Next]_<<T, C, D>>
        OBVIOUS
    <2>1. CASE Swap /\ UNCHANGED certVars
        <3>1. T' \in [Hosts -> Cells!Kinds]
            BY KindIsOne
        <3>2. C' = C /\ D' = D
            BY <2>1 DEF Swap, certVars, reloadVars, Count, IsLoaded
        <3> QED BY <3>1, <3>2 DEF Cells!Next, Cells!Swap
    <2>2. CASE CaLoad /\ UNCHANGED certVars
        <3>1. T' = T /\ D' = D
            BY <2>2 DEF CaLoad, certVars, reloadVars, Count, IsLoaded
        <3>2. C' = TRUE \/ C' = C
            BY CaStays
        <3> QED BY <3>1, <3>2 DEF Cells!Next, Cells!Trust
    <2>3. CASE ReloadStep /\ UNCHANGED poller
        <3>1. T' = T /\ C' = C
            BY <2>3 DEF poller
        <3>2. D' = TRUE \/ D' = D
            BY CountGrows
        <3> QED BY <3>1, <3>2 DEF Cells!Next, Cells!Certify
    <2>4. CASE UNCHANGED <<table, ca, loaded>>
        <3>1. T' = T /\ C' = C /\ D' = D
            BY <2>4 DEF Count, IsLoaded
        <3> QED BY <3>1
    <2> QED BY <2>1, <2>2, <2>3, <2>4
        DEF Next, vars, certVars, reloadVars, poller, Poll, CaStat, Listed, Resolved, Unresolved,
            ListFails, LookupFails, FileChange, WriteFile, RemoveFile
<1> QED BY <1>1, <1>2, CertsInductive, PTL DEF Spec, ImplementsFront, Cells!Spec

-----------------------------------------------------------------------------
(* A working route stays. *)

\* One route has the steady hostname, and the lookup of its Service does not fail.
SteadyUp ==
    \E r \in RouteIds :
        /\ \A q \in RouteIds : SteadyHost \in Routes[q].hosts <=> q = r
        /\ Routes[r].svc \notin Flaky

SteadyBackend ==
    LET s == Routes[SteadyRoute].svc
    IN  Backend(SteadyRoute, <<s, IF s = "none" THEN SteadyRoute ELSE 1>>)

\* Once listed, the steady route is still to be resolved or has its backend, so the
\* table a poll ends with has it.
SteadyInv ==
    /\ listed \subseteq RouteIds /\ todo \subseteq RouteIds /\ SteadyRoute \in listed
    /\ ip \in [Services -> 0..1]
    /\ Routes[SteadyRoute].svc \in Services => ip[Routes[SteadyRoute].svc] = 1
    /\ table[SteadyHost] \in {NoBackend, SteadyBackend}
    /\ ppc = "resolve" => SteadyRoute \in todo \/ out[SteadyHost] = SteadyBackend

LEMMA SteadyIsOne ==
    ASSUME SteadyUp
    PROVE  /\ SteadyRoute \in RouteIds /\ SteadyHost \in Hosts
           /\ \A q \in RouteIds : SteadyHost \in Routes[q].hosts <=> q = SteadyRoute
           /\ Routes[SteadyRoute].svc \notin Flaky
           /\ Routes[SteadyRoute].svc # "none" => Routes[SteadyRoute].svc \in Services
<1>1. PICK r \in RouteIds : /\ \A q \in RouteIds : SteadyHost \in Routes[q].hosts <=> q = r
                            /\ Routes[r].svc \notin Flaky
    BY DEF SteadyUp
<1>2. SteadyRoute = r
    BY <1>1 DEF SteadyRoute
<1>3. SteadyHost \in Hosts
    BY <1>1 DEF Hosts
<1> QED BY <1>1, <1>2, <1>3 DEF RouteIds

LEMMA FirstIsListed ==
    ASSUME todo \subseteq RouteIds, todo # {}
    PROVE  First \in todo
<1>1. todo \in SUBSET Nat
    BY DEF RouteIds
<1>2. \E r \in todo : \A q \in todo : r <= q
    BY <1>1, LeastOf
<1> QED BY <1>2 DEF First

LEMMA SteadyStep ==
    ASSUME SteadyUp, SteadyInv, [Next]_vars
    PROVE  /\ SteadyInv'
           /\ table[SteadyHost] # NoBackend => table'[SteadyHost] = table[SteadyHost]
<1> DEFINE Goal == SteadyInv' /\ (table[SteadyHost] # NoBackend
                                  => table'[SteadyHost] = table[SteadyHost])
           S == Routes[SteadyRoute].svc
<1>1. CASE UNCHANGED <<api, poller>>
    BY <1>1 DEF SteadyInv, api, poller
<1>2. ASSUME UNCHANGED <<api, table, todo, out>>, ppc' \in {"sleep", "ca", "list"} PROVE Goal
    BY <1>2 DEF SteadyInv, api
<1>3. CASE CaStat /\ UNCHANGED api
    BY <1>2, <1>3 DEF CaStat
<1>4. CASE CaLoad /\ UNCHANGED api
    BY <1>2, <1>4 DEF CaLoad
<1>5. CASE ListFails /\ UNCHANGED api
    BY <1>2, <1>5 DEF ListFails
<1>6. CASE Listed /\ UNCHANGED api
    BY <1>6 DEF Listed, SteadyInv, api
<1>7. CASE Resolved /\ UNCHANGED api
    <2>1. First \in todo /\ First \in RouteIds
        BY <1>7, FirstIsListed DEF Resolved, SteadyInv
    <2>2. /\ UNCHANGED <<listed, ip, table, ppc>> /\ ppc = "resolve" /\ todo' = todo \ {First}
          /\ out' = Inserted(out, First, AddrOf(First))
        BY <1>7 DEF Resolved, api
    <2>3. CASE First = SteadyRoute
        <3>1. AddrOf(SteadyRoute) = <<S, IF S = "none" THEN SteadyRoute ELSE 1>>
            BY SteadyIsOne DEF AddrOf, SteadyInv
        <3>2. out'[SteadyHost] = SteadyBackend
            BY <2>2, <2>3, <3>1, SteadyIsOne DEF Inserted, SteadyBackend
        <3> QED BY <2>2, <3>2 DEF SteadyInv
    <2>4. CASE First # SteadyRoute
        <3>1. out'[SteadyHost] = out[SteadyHost]
            BY <2>1, <2>2, <2>4, SteadyIsOne DEF Inserted
        <3> QED BY <2>2, <2>4, <3>1 DEF SteadyInv
    <2> QED BY <2>3, <2>4
<1>8. CASE (Unresolved \/ LookupFails) /\ UNCHANGED api
    <2>1. First \in todo
        BY <1>8, FirstIsListed DEF Unresolved, LookupFails, SteadyInv
    <2>2. First # SteadyRoute
        BY <1>8, SteadyIsOne DEF Unresolved, LookupFails, SteadyInv
    <2> QED BY <1>8, <2>1, <2>2 DEF Unresolved, LookupFails, SteadyInv, api
<1>9. CASE Swap /\ UNCHANGED api
    BY <1>9 DEF Swap, NewTable, SteadyInv, api
<1>10. CASE ApiChange /\ UNCHANGED poller
    <2>1. ASSUME NEW r \in RouteIds, RouteChange(r) PROVE Goal
        BY <1>10, <2>1 DEF RouteChange, SteadyInv, poller
    <2>2. ASSUME NEW s \in Services, NEW v \in 0..1, ServiceChange(s, v) PROVE Goal
        BY <1>10, <2>2 DEF ServiceChange, SteadyInv, poller
    <2>3. ASSUME AuthChange \/ \E v \in 0..1 : CaWrite(v) PROVE Goal
        BY <1>10, <2>3 DEF AuthChange, CaWrite, SteadyInv, poller
    <2> QED BY <1>10, <2>1, <2>2, <2>3 DEF ApiChange
<1> QED BY <1>1, <1>3, <1>4, <1>5, <1>6, <1>7, <1>8, <1>9, <1>10 DEF Next, vars, Poll

\* A host whose route and Service never change keeps its backend once it has one,
\* whatever else the apiserver, the other routes and the files do, as long as the
\* lookup of its own Service does not fail (fetch_table; run router_flap shows that
\* it is then lost).
THEOREM SteadyRouteStays ==
    ASSUME SteadyUp
    PROVE  Spec => WorkingRouteStays
<1>1. Init => SteadyInv
    BY SteadyIsOne DEF Init, SteadyInv, NoTable
<1>2. SteadyInv /\ [Next]_vars =>
          /\ SteadyInv'
          /\ [table[SteadyHost] # NoBackend => table'[SteadyHost] = table[SteadyHost]]_vars
    BY SteadyStep
<1> QED BY <1>1, <1>2, PTL DEF Spec, WorkingRouteStays
=============================================================================
