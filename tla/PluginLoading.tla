----------------------------- MODULE PluginLoading -----------------------------
(***************************************************************************)
(* Discovery of plugin directories and the loading of a candidate:         *)
(* manifest, validation of manifest and source, import, class, instance,   *)
(* registration.  A module is named after its directory, a registry entry  *)
(* by the id of its manifest: directories may share an id, and directories *)
(* of one name under two roots share a module name.                        *)
(***************************************************************************)
EXTENDS Integers, Sequences, FiniteSets, Functions

CONSTANTS
  Trees,    \* sets of directories, each [root, name, manifest, id, source, runs, class, made, hooks]
  Ids,      \* plugin ids of manifests and directory names
  MaxLoads  \* bound on candidates loaded

\* Two roots are scanned; a root has one directory of a name.  Ids has the names and the manifests' ids.
TreesOK ==
  \A t \in Trees : \A d, e \in t :
    /\ d.root \in {1, 2} /\ d.name \in Int /\ d.name \in Ids /\ d.id \in Ids
    /\ d.root = e.root /\ d.name = e.name => d = e

VARIABLES
  tree,       \* the directories on disk
  found,      \* what discovery returned
  loads,      \* candidates loaded so far, with their results
  modules,    \* sys.modules: module names and the directory each is of
  registered  \* the registry: ids, each with its directory and status

vars == <<tree, found, loads, modules, registered>>

Init ==
  /\ tree \in Trees /\ found = <<>> /\ loads = <<>>
  /\ modules = [n \in {} |-> {}] /\ registered = [i \in {} |-> {}]

Results == {"loaded", "refused", "failed", "raised"}

TypeOK ==
  /\ Range(found) \subseteq tree /\ \A l \in Range(loads) : l.dir \in tree /\ l.result \in Results
  /\ DOMAIN registered \subseteq Ids

\* A directory is a candidate when it has a manifest or a plugin.py.
IsCandidate(d) == d.manifest # "none" \/ d.source # "none"

\* _scan_directory skips a name that it found under an earlier root.
Seen(d) == \E e \in tree : IsCandidate(e) /\ e.root < d.root /\ e.name = d.name
Discovered == {d \in tree : IsCandidate(d) /\ ~Seen(d)}

\* Root by root, and of a root in order of the names.
Precedes(d, e) == d.root < e.root \/ (d.root = e.root /\ d.name < e.name)

\* discover.
Discover ==
  /\ found = <<>> /\ loads = <<>> /\ Discovered # {}
  /\ found' \in {q \in [1 .. Cardinality(Discovered) -> Discovered] :
                 Range(q) = Discovered /\ \A j, k \in DOMAIN q : j < k => Precedes(q[j], q[k])}
  /\ UNCHANGED <<tree, loads, modules, registered>>

\* parse_manifest_json: a file that is no JSON raises; without a manifest, the directory's
\* name is the id.
Metadata(d) == IF d.manifest = "none" THEN d.name ELSE d.id
ManifestFine(d) == d.manifest \in {"none", "full"}
\* validate_source: an absent file is not scanned.
SourceFine(d) == d.source \in {"none", "fine"}

\* get_plugin_class and validate_class.
ClassFine(d) == d.class = "plugin"
\* create_plugin_instance.
InstanceMade(d) == d.made

\* Steps 1 to 4: what passes both validations and has a source is imported.
\* load_module_from_path: the module is in sys.modules before it is executed and stays there
\* however the execution ends.
Validated(d) == ManifestFine(d) /\ SourceFine(d)
Executed(d) == Validated(d) /\ d.source # "none"
\* Steps 5 to 7: what has a class and an instance is registered, before its hooks run.
Entered(d) == Executed(d) /\ d.runs = "ok" /\ ClassFine(d) /\ InstanceMade(d)
\* Nothing catches what a manifest that is no JSON and most faults of an import raise.
Raises(d) == d.manifest = "broken" \/ (Executed(d) /\ d.runs = "raises")

Result(d) ==
  IF Entered(d) THEN (IF d.hooks THEN "loaded" ELSE "failed")
  ELSE IF Raises(d) THEN "raised" ELSE "refused"

\* An assignment to a dictionary.
Put(f, k, v) == [x \in DOMAIN f \cup {k} |-> IF x = k THEN v ELSE f[x]]

\* load_plugin_from_candidate; what a failing hook leaves is a FAILED entry.
Load(d) ==
  /\ Len(loads) < MaxLoads /\ d \in Range(found)
  /\ loads' = Append(loads, [dir |-> d, result |-> Result(d)])
  /\ modules' = (IF Executed(d) THEN Put(modules, d.name, d) ELSE modules)
  /\ registered' = (IF Entered(d)
                 THEN Put(registered, Metadata(d), [dir |-> d, status |-> IF d.hooks THEN "LOADED" ELSE "FAILED"])
                 ELSE registered)
  /\ UNCHANGED <<tree, found>>

Next == Discover \/ \E d \in tree : Load(d)

Spec == Init /\ [][Next]_vars

(***************************************************************************)
(* Properties.                                                             *)
(***************************************************************************)

\* Discovery returns one directory per name, the one under the first root that has a
\* candidate of that name, and no name with a candidate is lost.
FirstRootWins ==
  found # <<>> =>
    /\ \A j, k \in DOMAIN found : found[j].name = found[k].name => j = k
    /\ \A d \in tree : IsCandidate(d) =>
         \E e \in Range(found) : e.name = d.name /\ (e = d \/ e.root < d.root)

\* Nothing is imported that the manifest's or the source's validation refuses, so a module
\* in sys.modules and a registered plugin come from a directory that passed both.
ValidatedBeforeImport ==
  /\ \A n \in DOMAIN modules : ManifestFine(modules[n]) /\ SourceFine(modules[n]) /\ modules[n].name = n
  /\ \A i \in DOMAIN registered : SourceFine(registered[i].dir) /\ ClassFine(registered[i].dir)

\* The entry of an id is that of the last directory with the id that got as far as its
\* registration; every directory reported as loaded was imported and its id is registered.
EntryIsLastLoaded ==
  /\ \A i \in DOMAIN registered : \E k \in DOMAIN loads :
       /\ loads[k].dir = registered[i].dir /\ Metadata(registered[i].dir) = i
       /\ (loads[k].result = "loaded") = (registered[i].status = "LOADED")
       /\ \A j \in k + 1 .. Len(loads) :
            Metadata(loads[j].dir) = i => loads[j].result \in {"refused", "raised"}
  /\ \A l \in Range(loads) : l.result = "loaded" => l.dir.name \in DOMAIN modules /\ Metadata(l.dir) \in DOMAIN registered
=============================================================================
