-------------------------- MODULE ExtensionRegistry --------------------------
(***************************************************************************)
(* A static registry of signed packages and a directory of installed ones, *)
(* shared by processes of superspace-extension: publish_package and        *)
(* install_registry_package of extensions/registry.rs, install_package of  *)
(* extensions/developer.rs.                                                *)
(*                                                                         *)
(* There are no locks.  A file is written under a temporary name that      *)
(* holds the process id and renamed, so a crash may leave the temporary    *)
(* file, and a later process of the same id then finds it; and two         *)
(* processes that found no file may both rename one to its name.  The      *)
(* packages are those of one extension; a package is its canonical bytes,  *)
(* and the signed record of a package is that package, since its key is    *)
(* one publisher's, its hash is checked and its signature deterministic.   *)
(***************************************************************************)
EXTENDS Naturals

CONSTANTS
    Packages, Versions,
    VersionOf,           \* VersionOf[k]: the version in the manifest of package k
    Pids,                \* process ids
    Absent,              \* no file
    MaxRuns,             \* bound on runs of the command
    MaxFaults            \* bound on crashes and input/output errors

ASSUME RegistryAssumption ==
    /\ VersionOf \in [Packages -> Versions]
    /\ Absent \notin Packages \cup Versions
    /\ {MaxRuns, MaxFaults} \subseteq Nat

VARIABLES
    published,     \* published[v]: the registry's package file
    index,         \* index[v]: the package the registry's record names
    installed,     \* installed[v]: the installed package
    current,       \* the installed version that counts
    leftovers,     \* <<directory, v, pid>>: temporary files
    process,       \* process[i]: what the process i is doing
    runs, faults,  \* what has been used of the bounds
    clashed        \* history: <<directory, v>> where writers of two contents met

registryVars == <<published, index, installed, current, leftovers, process, runs, faults,
                  clashed>>
directories == <<published, index, installed, current, leftovers>>

Directories == {"published", "index", "installed"}
Idle == [phase |-> "idle", package |-> Absent, signed |-> FALSE]
Phases == {"idle", "published", "published-rename", "index", "index-rename",
           "verified", "installed", "installed-rename", "current"}

RegistryInit ==
    /\ published = [v \in Versions |-> Absent]
    /\ index = [v \in Versions |-> Absent]
    /\ installed = [v \in Versions |-> Absent]
    /\ current = Absent
    /\ leftovers = {}
    /\ process = [i \in Pids |-> Idle]
    /\ runs = 0
    /\ faults = 0
    /\ clashed = {}

VersionIn(i) == VersionOf[process[i].package]
Goto(i, phase) == process' = [process EXCEPT ![i].phase = phase]
Stop(i) == process' = [process EXCEPT ![i] = Idle]

Start(i, phase, k, signed) ==
    /\ process[i] = Idle
    /\ runs < MaxRuns
    /\ process' = [process EXCEPT ![i] = [phase |-> phase, package |-> k, signed |-> signed]]
    /\ runs' = runs + 1
    /\ UNCHANGED <<directories, faults, clashed>>

Publish(i, k) == Start(i, "published", k, FALSE)

\* A record can be read if the whole catalogue can: no other file is in the
\* index, and every record matches its package.
Loadable ==
    /\ \A file \in leftovers : file[1] # "index"
    /\ \A v \in Versions : index[v] # Absent => published[v] = index[v]

InstallFromRegistry(i, v) ==
    /\ Loadable
    /\ index[v] # Absent
    /\ Start(i, "verified", index[v], TRUE)

InstallFromFile(i, k) == Start(i, "installed", k, FALSE)

\* The package that was verified is read from its path again.
ReadAgain(i) ==
    /\ process[i].phase = "verified"
    /\ process' = [process EXCEPT ![i].phase = "installed",
                                  ![i].package = published[VersionIn(i)]]
    /\ UNCHANGED <<directories, runs, faults, clashed>>

(***************************************************************************)
(* Writing a file that is not to change.                                   *)
(***************************************************************************)
Holds(directory, v) ==
    CASE directory = "published" -> published[v]
      [] directory = "index" -> index[v]
      [] directory = "installed" -> installed[v]

After(directory) ==
    CASE directory = "published" -> "index"
      [] directory = "index" -> "idle"
      [] directory = "installed" -> "current"
Proceed(i, directory) ==
    IF After(directory) = "idle" THEN Stop(i) ELSE Goto(i, After(directory))
RenameOf(directory) ==
    CASE directory = "published" -> "published-rename"
      [] directory = "index" -> "index-rename"
      [] directory = "installed" -> "installed-rename"

\* Faulty: a package with other content is taken for the same.
AnyIsSame(directory, k) == Holds(directory, VersionOf[k]) # Absent
Same(directory, k) == Holds(directory, VersionOf[k]) = k

\* Faulty: a file that is there is not noticed.
NeverExists(directory, k) == FALSE
Conflicts(directory, k) == Holds(directory, VersionOf[k]) \notin {Absent, k}

AlreadyThere(i, directory) ==
    /\ process[i].phase = directory
    /\ Same(directory, process[i].package)
    /\ Proceed(i, directory)
    /\ UNCHANGED <<directories, runs, faults, clashed>>

\* The version exists with other content.
VersionConflict(i, directory) ==
    /\ process[i].phase = directory
    /\ ~Same(directory, process[i].package)
    /\ Conflicts(directory, process[i].package)
    /\ Stop(i)
    /\ UNCHANGED <<directories, runs, faults, clashed>>

\* Another process has found no other content either, and is about to rename.
Meets(i, directory) ==
    \E j \in Pids \ {i} :
        /\ process[j].phase = RenameOf(directory)
        /\ VersionIn(j) = VersionIn(i)
        /\ process[j].package # process[i].package

WriteTemporary(i, directory) ==
    LET file == <<directory, VersionIn(i), i>>
    IN  /\ process[i].phase = directory
        /\ ~Same(directory, process[i].package)
        /\ ~Conflicts(directory, process[i].package)
        /\ IF file \in leftovers THEN Stop(i) /\ UNCHANGED <<leftovers, clashed>>
           ELSE /\ Goto(i, RenameOf(directory))
                /\ leftovers' = leftovers \cup {file}
                /\ clashed' = IF Meets(i, directory)
                              THEN clashed \cup {<<directory, VersionIn(i)>>} ELSE clashed
        /\ UNCHANGED <<published, index, installed, current, runs, faults>>

With(table, i) == [table EXCEPT ![VersionIn(i)] = process[i].package]

RenameTemporary(i, directory) ==
    /\ process[i].phase = RenameOf(directory)
    /\ leftovers' = leftovers \ {<<directory, VersionIn(i), i>>}
    /\ published' = IF directory = "published" THEN With(published, i) ELSE published
    /\ index' = IF directory = "index" THEN With(index, i) ELSE index
    /\ installed' = IF directory = "installed" THEN With(installed, i) ELSE installed
    /\ Proceed(i, directory)
    /\ UNCHANGED <<current, runs, faults, clashed>>

\* The marker is replaced last; a temporary marker is no obstacle.
MarkCurrent(i) ==
    /\ process[i].phase = "current"
    /\ current' = VersionIn(i)
    /\ Stop(i)
    /\ UNCHANGED <<published, index, installed, leftovers, runs, faults, clashed>>

\* An error removes the temporary file, a crash does not.
Fault(i) ==
    /\ process[i] # Idle
    /\ faults < MaxFaults
    /\ faults' = faults + 1
    /\ leftovers' \in {leftovers, leftovers \ {<<d, VersionIn(i), i>> : d \in
                           {d \in Directories : process[i].phase = RenameOf(d)}}}
    /\ Stop(i)
    /\ UNCHANGED <<published, index, installed, current, runs, clashed>>

RegistryNext ==
    \E i \in Pids :
       \/ \E k \in Packages : Publish(i, k) \/ InstallFromFile(i, k)
       \/ \E v \in Versions : InstallFromRegistry(i, v)
       \/ ReadAgain(i)
       \/ \E d \in Directories :
             \/ AlreadyThere(i, d) \/ VersionConflict(i, d)
             \/ WriteTemporary(i, d) \/ RenameTemporary(i, d)
       \/ MarkCurrent(i)
       \/ Fault(i)

RegistrySpec == RegistryInit /\ [][RegistryNext]_registryVars

(***************************************************************************)
(* Properties.                                                             *)
(***************************************************************************)
RegistryTypeOK ==
    /\ {published, index, installed} \subseteq [Versions -> Packages \cup {Absent}]
    /\ current \in Versions \cup {Absent}
    /\ leftovers \subseteq Directories \X Versions \X Pids
    /\ process \in [Pids -> [phase : Phases, package : Packages \cup {Absent},
                             signed : BOOLEAN]]
    /\ runs \in 0..MaxRuns /\ faults \in 0..MaxFaults
    /\ clashed \subseteq Directories \X Versions

\* A published version can be fetched: its record was written after its package
\* and names that package, even when an earlier attempt crashed between the two
\* and the next one brings another content, and whatever readers and publishers
\* come between (publish_package, write_immutable).  What breaks it is one thing:
\* two publishers that found no package and rename different ones to its name.
PublishedIsServable ==
    \A v \in Versions :
        index[v] # Absent /\ <<"published", v>> \notin clashed => published[v] = index[v]

\* The version that counts is installed, and what a process has installed from
\* the registry is the package of the signed record, although it was read again
\* after it was verified, while others published and installed other contents
\* (install_registry_package, install_package).  Two writers of different contents
\* that both found no file are again the one way to another outcome.
InstalledIsVerified ==
    /\ current # Absent => installed[current] # Absent
    /\ \A i \in Pids :
          /\ process[i].phase = "current" /\ process[i].signed
          /\ {<<"published", VersionIn(i)>>, <<"installed", VersionIn(i)>>} \cap clashed = {}
          => installed[VersionIn(i)] = index[VersionIn(i)]
=============================================================================
