------------------------------- MODULE Certs -------------------------------
(***************************************************************************)
(* The router's certificate pairs (tls.rs `Certs`): the reload task, step  *)
(* by system call, beside whoever renews the files.                        *)
(*                                                                         *)
(* A file is the version in it (0: missing, unreadable or no PEM) and its  *)
(* modification time.  A certificate and a key belong together if they are *)
(* of one version.  Two writes of a file never leave the same time.        *)
(***************************************************************************)
EXTENDS Naturals, Sequences, FiniteSets

CONSTANTS
    NPairs,     \* [[router.tls.certs]], in order
    MaxEvents   \* changes and failures of the environment

ASSUME CertsAssumption == NPairs \in Nat /\ MaxEvents \in Nat

VARIABLES
    files,      \* per pair: cert and key, each [ver, at]
    loaded,     \* Certs.loaded: what is served, with its stamps
    at,         \* where `reload` is: "sleep", "cert", "key", "load_cert", "load_key"
    pair,       \* the pair it is at
    seen,       \* the stamps it read
    leaf,       \* the certificate it read
    events      \* environment events so far

reloadVars == <<loaded, at, pair, seen, leaf>>
certVars   == <<files, reloadVars>>

NoFile   == [ver |-> 0, at |-> 0]
NoStamps == <<0, 0>>
NotLoaded == [cert |-> 0, key |-> 0, stamp |-> NoStamps]

Pairs == 1..NPairs
IsLoaded(p) == loaded[p] # NotLoaded

\* Certs::count, as far as it is asked: is any pair loaded?
Count == Cardinality({p \in Pairs : IsLoaded(p)})

-----------------------------------------------------------------------------
(* reload *)

\* The next pair, or the sleep of reload_every after the last.
Onward ==
    /\ pair' = IF pair = NPairs THEN 1 ELSE pair + 1
    /\ at' = IF pair = NPairs THEN "sleep" ELSE "cert"
    /\ seen' = NoStamps /\ leaf' = 0

\* reload_every wakes up.
Reload ==
    /\ at = "sleep" /\ NPairs > 0
    /\ at' = "cert"
    /\ UNCHANGED <<files, loaded, pair, seen, leaf, events>>

\* mtime of the certificate file ...
StatCert ==
    /\ at = "cert"
    /\ seen' = <<files[pair].cert.at, 0>>
    /\ at' = "key"
    /\ UNCHANGED <<files, loaded, pair, leaf, events>>

\* ... and of the key file; files with the stamps of the loaded pair are skipped.
StatKey ==
    LET stamp == <<seen[1], files[pair].key.at>>
    IN  /\ at = "key"
        /\ IF IsLoaded(pair) /\ loaded[pair].stamp = stamp THEN Onward
           ELSE /\ seen' = stamp /\ at' = "load_cert"
                /\ UNCHANGED <<pair, leaf>>
        /\ UNCHANGED <<files, loaded, events>>

\* load reads the certificate ...
LoadCert ==
    /\ at = "load_cert" /\ files[pair].cert.ver # 0
    /\ leaf' = files[pair].cert.ver /\ at' = "load_key"
    /\ UNCHANGED <<files, loaded, pair, seen, events>>

\* Mutant: any key will do.
KeysMatchAny(cert, key) == key # 0

\* ... and the key, which has to be the certificate's (keys_match).
KeysMatch(cert, key) == key # 0 /\ key = cert

\* Mutant: the stamps kept are those after the read.
StampAfter == <<files[pair].cert.at, files[pair].key.at>>

\* The stamps kept with the pair are those read before its files.
Stamp == seen

LoadKey ==
    /\ at = "load_key" /\ KeysMatch(leaf, files[pair].key.ver)
    /\ loaded' = [loaded EXCEPT ![pair] = [cert |-> leaf, key |-> files[pair].key.ver,
                                           stamp |-> Stamp]]
    /\ Onward
    /\ UNCHANGED <<files, events>>

LoadError ==
    \/ at = "load_cert" /\ files[pair].cert.ver = 0
    \/ at = "load_key" /\ ~KeysMatch(leaf, files[pair].key.ver)

\* Mutant: a pair that does not load is dropped.
LoadFailsDrops ==
    /\ LoadError
    /\ loaded' = [loaded EXCEPT ![pair] = NotLoaded]
    /\ Onward
    /\ UNCHANGED <<files, events>>

\* Mutant: an error ends reload_every.
LoadFailsEnds ==
    /\ LoadError
    /\ at' = "ended"
    /\ UNCHANGED <<files, loaded, pair, seen, leaf, events>>

\* It does not load: the last good version stays, and the pair is tried again.
LoadFails ==
    /\ LoadError
    /\ Onward
    /\ UNCHANGED <<files, loaded, events>>

ReloadStep ==
    Reload \/ StatCert \/ StatKey \/ LoadCert \/ LoadKey \/ LoadFails

-----------------------------------------------------------------------------

Event == events < MaxEvents /\ events' = events + 1

\* Somebody (stormcert, an operator) writes, breaks or removes one of the files.
WriteFile(p, f, v) ==
    /\ Event
    /\ files' = [files EXCEPT ![p][f] = [ver |-> v, at |-> events + 2]]
    /\ UNCHANGED reloadVars

RemoveFile(p, f) ==
    /\ Event
    /\ files[p][f] # NoFile
    /\ files' = [files EXCEPT ![p][f] = NoFile]
    /\ UNCHANGED reloadVars

FileChange ==
    \E p \in Pairs, f \in {"cert", "key"} :
        RemoveFile(p, f) \/ \E v \in 0..2 : WriteFile(p, f, v)

\* A pair of version 1, or no files yet; Certs::new loads before anything listens.
CertsInit ==
    /\ \E v \in {0, 1} :
           LET file == [ver |-> v, at |-> v]
           IN  /\ files = [p \in Pairs |-> [cert |-> file, key |-> file]]
               /\ loaded = [p \in Pairs |-> IF v = 0 THEN NotLoaded
                                           ELSE [cert |-> v, key |-> v, stamp |-> <<v, v>>]]
    /\ at = "sleep" /\ pair = 1 /\ seen = NoStamps /\ leaf = 0

-----------------------------------------------------------------------------
(* Properties. *)

\* tls.rs: "a pair that can't be read or parsed keeps its last good version":
\* a reload between the two writes of a renewal never serves a certificate with
\* a key that is not its own.
PairsMatch == \A p \in Pairs : loaded[p].cert = loaded[p].key

\* What the stamps promise: existing files with the stamps of the loaded pair, which
\* reload will not read again, are the files it read.
SkippedIsCurrent ==
    \A p \in Pairs :
        /\ IsLoaded(p) /\ files[p].cert # NoFile /\ files[p].key # NoFile
        /\ loaded[p].stamp = <<files[p].cert.at, files[p].key.at>>
        => loaded[p].cert = files[p].cert.ver /\ loaded[p].key = files[p].key.ver

\* What is served is a pair, and the one its stamps say.
LoadedRight == PairsMatch /\ SkippedIsCurrent

\* README: "a renewal is served without a restart": once the files rest as a
\* pair, that pair is served.
RenewalServed ==
    <>[](\A p \in Pairs : files[p].cert.ver = files[p].key.ver /\ files[p].cert.ver # 0
                          => loaded[p].cert = files[p].cert.ver)
=============================================================================
