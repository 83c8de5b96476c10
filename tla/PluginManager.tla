--------------------------- MODULE PluginManager ---------------------------
(***************************************************************************)
(* The installed plugins on disk and the commands that change them         *)
(* (plugins/src/lib.rs, PluginManager; the CLI's /plugins and `claw        *)
(* plugins`).  Several processes share one plugin home: a tree of          *)
(* immutable version slots, a registry file and the enabledPlugins of      *)
(* settings.json.  Every command builds a manager of its own, which reads  *)
(* the settings BEFORE it takes the file locks, and runs as a hot-reload   *)
(* transaction: the tree is copied aside, the mutation runs, the running   *)
(* registry may refuse the result, and any failure puts tree, registry and *)
(* settings back, one after the other.  A process may crash between any    *)
(* two of these steps; the locks are the operating system's and go with    *)
(* it.                                                                     *)
(*                                                                         *)
(* The registry lock and the install-tree lock are always taken together   *)
(* and in one order; they are one lock here.  Bundled plugins, discovery   *)
(* outside the install root and the content of a slot are left out: a slot *)
(* that is there is intact.  A mutation that fails first undoes its own    *)
(* last steps and the transaction then puts everything back; only the      *)
(* latter is modelled, it overwrites what the former restores.             *)
(***************************************************************************)
EXTENDS Integers, Sequences, FiniteSets, SequencesExt

CONSTANTS
    Process,    \* the processes that share the plugin home
    Plugin,     \* plugin ids
    Releases,   \* [Plugin -> sets of versions]: what can be installed
    Needs,      \* triples <<p, q, vs>>: p needs q in one of the versions vs; acyclic
    Keep,       \* versionPolicy.keepVersions
    None

Versions == UNION {Releases[x] : x \in Plugin}

ASSUME ManagerAssumption ==
    /\ None \notin Process \cup Versions
    /\ Keep \in Nat
    /\ \A need \in Needs : need[1] \in Plugin /\ need[2] \in Plugin

VARIABLES
    slots,      \* the version directories: pairs <<plugin, version>>
    registry,   \* the registry file: the active version of each plugin and
                \* its version records, the one archived first at the head
    settings,   \* enabledPlugins of settings.json: the enabled ones
    read,       \* by process: the settings as its command has read them
    pc,         \* by process: idle, waiting for the locks, or holding them
    txn,        \* the transaction of the process that holds the locks
    mishaps,    \* history: what went wrong outside any error handling
    left        \* history: the directories a pruning could not remove

disk == <<slots, registry, settings>>
past == <<mishaps, left>>
vars == <<slots, registry, settings, read, pc, txn, mishaps, left>>

NoTxn == [stage |-> "none"]
Free == txn = NoTxn
Forward == {"begun", "archived", "copied", "enrolled", "accepted", "stored", "done"}
Backward == {"failed", "wiped", "tree back", "registry back"}
Mishaps == {"stale", "crash", "torn"}

TypeOK ==
    /\ slots \subseteq Plugin \X Versions
    /\ registry \in [active : [Plugin -> Versions \cup {None}],
                     kept : [Plugin -> Seq(Versions)]]
    /\ settings \subseteq Plugin
    /\ read \in [Process -> SUBSET Plugin]
    /\ pc \in [Process -> {"idle", "waiting", "holding"}]
    /\ txn.stage \in {"none"} \cup Forward \cup Backward
    /\ mishaps \subseteq Mishaps
    /\ left \subseteq Plugin \X Versions

(***************************************************************************)
(* What the registry records.                                              *)
(***************************************************************************)
Installed(reg) == {x \in Plugin : reg.active[x] # None}
Recorded(reg) == {s \in Plugin \X Versions : s[2] \in Range(reg.kept[s[1]])}

\* validate_installed_version_records, the part about the file itself
Coherent(reg) ==
    \A x \in Plugin :
        /\ x \in Installed(reg) => reg.active[x] \in Range(reg.kept[x])
        /\ x \notin Installed(reg) => reg.kept[x] = <<>>

\* and about the tree: every mutation is refused unless this holds
Valid == Coherent(registry) /\ Recorded(registry) \subseteq slots

\* validate_runtime_snapshot: enabled plugins have what they need
Satisfied(reg, enabled) ==
    \A need \in Needs :
        need[1] \in enabled \cap Installed(reg) =>
            need[2] \in enabled /\ reg.active[need[2]] \in need[3]

\* enabled_dependents_for_candidate: who is enabled and needs x, directly
\* (there are others only if there is one of these)
Dependents(x, enabled) ==
    {need[1] : need \in {n \in Needs : /\ n[2] = x
                                       /\ n[1] # x
                                       /\ n[1] \in enabled \cap Installed(registry)}}

(***************************************************************************)
(* Version records: archived last at the end, and of those that are not    *)
(* protected at most Keep, the latest ones.                                *)
(***************************************************************************)
\* the records at the given places, in their order
Only(kept, places) ==
    LET order == CHOOSE f \in [1..Cardinality(places) -> places] :
                     \A i, j \in DOMAIN f : i < j => f[i] < f[j]
    IN  [i \in DOMAIN order |-> kept[order[i]]]

Archived(kept, v) == Append(Only(kept, {i \in DOMAIN kept : kept[i] # v}), v)

Spare(kept, protected) == {i \in DOMAIN kept : kept[i] \notin protected}
PrunedNewest(kept, protected) ==
    Only(kept, {i \in DOMAIN kept :
                   \/ kept[i] \in protected
                   \/ Cardinality({j \in Spare(kept, protected) : j <= i}) <= Keep})
Pruned(kept, protected) ==
    Only(kept, {i \in DOMAIN kept :
                   \/ kept[i] \in protected
                   \/ Cardinality({j \in Spare(kept, protected) : i <= j}) <= Keep})

\* archive_installed_version: before v takes its place, the active version
WithArchived(reg, x, v) ==
    LET old == reg.active[x]
    IN  IF old = None THEN reg
        ELSE [reg EXCEPT !.kept[x] = Pruned(Archived(@, old), {old, v})]

\* upsert_installed_version_record, and the version becomes the active one
Enrolled(reg, x, v) ==
    [active |-> [reg.active EXCEPT ![x] = v],
     kept |-> [reg.kept EXCEPT ![x] = Pruned(Archived(reg.kept[x], v), {v})]]

RolledBack(reg, x, v) == [WithArchived(reg, x, v) EXCEPT !.active[x] = v]

DroppedActiveOnly(reg, xs) ==
    [reg EXCEPT !.active = [x \in Plugin |-> IF x \in xs THEN None ELSE reg.active[x]]]
Dropped(reg, xs) ==
    [active |-> [x \in Plugin |-> IF x \in xs THEN None ELSE reg.active[x]],
     kept |-> [x \in Plugin |-> IF x \in xs THEN <<>> ELSE reg.kept[x]]]

\* stale_installed_registry_ids: the active slot is gone
Stale == {x \in Installed(registry) : <<x, registry.active[x]>> \notin slots}

Init ==
    /\ slots = {}
    /\ registry = [active |-> [x \in Plugin |-> None], kept |-> [x \in Plugin |-> <<>>]]
    /\ settings = {}
    /\ read = [p \in Process |-> {}]
    /\ pc = [p \in Process |-> "idle"]
    /\ txn = NoTxn
    /\ mishaps = {}
    /\ left = {}

(***************************************************************************)
(* A command begins: configuration first, then the locks, then the copy of *)
(* the tree.                                                               *)
(***************************************************************************)
Begin(p) ==
    /\ pc[p] = "idle"
    /\ pc' = [pc EXCEPT ![p] = "waiting"]
    /\ read' = [read EXCEPT ![p] = settings]
    /\ UNCHANGED <<disk, txn, past>>

\* "stale" is history: the settings changed since p read them
Lock(p) ==
    /\ pc[p] = "waiting" /\ Free
    /\ pc' = [pc EXCEPT ![p] = "holding"]
    /\ txn' = [stage |-> "begun", tree |-> slots, saved |-> registry]
    /\ mishaps' = mishaps \cup (IF read[p] = settings THEN {} ELSE {"stale"})
    /\ UNCHANGED <<disk, read, left>>

\* the locks time out, or the registry or the tree cannot be read
GiveUp(p) ==
    /\ pc[p] = "waiting"
    /\ pc' = [pc EXCEPT ![p] = "idle"]
    /\ read' = [read EXCEPT ![p] = {}]
    /\ UNCHANGED <<disk, txn, past>>

At(p, stage) == pc[p] = "holding" /\ txn.stage = stage

\* the plugin's slots are in the trash and the registry still names it
Uninstalling == txn.stage = "accepted" /\ txn.op = "uninstall"

\* bound: one process dies or fails to restore
MayBreak == mishaps \subseteq {"stale"}

\* the transaction is over: the copy of the tree and the locks go
Release(p) ==
    /\ pc' = [pc EXCEPT ![p] = "idle"]
    /\ read' = [read EXCEPT ![p] = {}]
    /\ txn' = NoTxn

\* what the mutation works on, and the registry it is about to store
Works(op, x, v, reg, stage) ==
    txn' = [stage |-> stage, tree |-> txn.tree, saved |-> txn.saved,
            op |-> op, plugin |-> x, version |-> v, registry |-> reg]
Goes(stage) == Works(txn.op, txn.plugin, txn.version, txn.registry, stage)
Turns(stage) == txn' = [stage |-> stage, tree |-> txn.tree, saved |-> txn.saved]

(***************************************************************************)
(* The mutations.  What refuses one is a guard here; the command then goes *)
(* on with Fails.                                                          *)
(***************************************************************************)
\* the error of a removal is dropped: what cannot be removed stays (a
\* directory half removed is taken to be there)
PrunesRecords(x, reg) == UNCHANGED <<slots, left>>
Prunes(x, reg) ==
    LET old == {s \in slots \ left : s[1] = x /\ s \in Recorded(registry) \ Recorded(reg)}
    IN  \E stays \in SUBSET old :
            /\ slots' = slots \ (old \ stays)
            /\ left' = left \cup stays

\* an immutable slot is never written twice
IsNew(x, v) == v \in Releases[x] /\ <<x, v>> \notin slots

Install(p, x, v) ==
    /\ At(p, "begun") /\ Valid
    /\ IsNew(x, v)
    /\ slots' = slots \cup {<<x, v>>}
    /\ Works("install", x, v, WithArchived(registry, x, v), "copied")
    /\ UNCHANGED <<registry, settings, read, pc, past>>

\* an update archives, and so prunes, before it copies; an install after
Update(p, x, v) ==
    /\ At(p, "begun") /\ Valid
    /\ x \in Installed(registry) /\ IsNew(x, v)
    /\ LET reg == WithArchived(registry, x, v)
       IN  Prunes(x, reg) /\ Works("update", x, v, reg, "archived")
    /\ UNCHANGED <<registry, settings, read, pc, mishaps>>

CopyIn(p) ==
    /\ At(p, "archived")
    /\ slots' = slots \cup {<<txn.plugin, txn.version>>}
    /\ Goes("copied")
    /\ UNCHANGED <<registry, settings, read, pc, past>>

Enrol(p) ==
    /\ At(p, "copied")
    /\ LET reg == Enrolled(txn.registry, txn.plugin, txn.version)
       IN  /\ Prunes(txn.plugin, reg)
           /\ Works(txn.op, txn.plugin, txn.version, reg, "enrolled")
    /\ UNCHANGED <<registry, settings, read, pc, mishaps>>

Rollback(p, x, v) ==
    /\ At(p, "begun") /\ Valid
    /\ x \in Installed(registry) /\ v \in Range(registry.kept[x])
    /\ LET reg == RolledBack(registry, x, v)
       IN  /\ Prunes(x, reg)
           /\ Works("rollback", x, v, reg, "enrolled")
    /\ UNCHANGED <<registry, settings, read, pc, mishaps>>

\* validate_installed_registry_candidate: the plugin being installed counts
\* as enabled, the others as this command has read them
Accept(p) ==
    /\ At(p, "enrolled")
    /\ Coherent(txn.registry) /\ Recorded(txn.registry) \subseteq slots
    /\ Satisfied(txn.registry,
                 read[p] \cup (IF txn.op = "install" THEN {txn.plugin} ELSE {}))
    /\ Goes("accepted")
    /\ UNCHANGED <<disk, read, pc, past>>

Uninstall(p, x) ==
    /\ At(p, "begun") /\ Valid
    /\ x \in Installed(registry) /\ Dependents(x, read[p]) = {}
    /\ slots' = slots \ {s \in Recorded(registry) : s[1] = x}
    /\ Works("uninstall", x, None, Dropped(registry, {x}), "accepted")
    /\ UNCHANGED <<registry, settings, read, pc, past>>

Store(p) ==
    /\ At(p, "accepted")
    /\ registry' = txn.registry
    /\ IF txn.op \in {"install", "uninstall"} THEN Goes("stored") ELSE Turns("done")
    /\ UNCHANGED <<slots, settings, read, pc, past>>

Enable(p, x) ==
    /\ At(p, "begun") /\ Valid
    /\ x \in Installed(registry) /\ Satisfied(registry, read[p] \cup {x})
    /\ Works("enable", x, None, registry, "stored")
    /\ UNCHANGED <<disk, read, pc, past>>

Disable(p, x) ==
    /\ At(p, "begun") /\ Valid
    /\ x \in Installed(registry) /\ Dependents(x, read[p]) = {}
    /\ Works("disable", x, None, registry, "stored")
    /\ UNCHANGED <<disk, read, pc, past>>

\* write_enabled_state changes the one entry of the file as it is now
WriteSettings(p) ==
    /\ At(p, "stored")
    /\ settings' = IF txn.op \in {"install", "enable"} THEN settings \cup {txn.plugin}
                   ELSE settings \ {txn.plugin}
    /\ Turns("done")
    /\ UNCHANGED <<slots, registry, read, pc, past>>

\* the running registry takes the new plugins over, or there is none to ask
Finish(p) ==
    /\ At(p, "done")
    /\ Release(p)
    /\ UNCHANGED <<disk, past>>

(***************************************************************************)
(* Failure: a refusal, a file that cannot be written, a candidate the      *)
(* running registry does not take.                                         *)
(***************************************************************************)
Fails(p) ==
    /\ pc[p] = "holding" /\ txn.stage \in Forward
    /\ Turns("failed")
    /\ UNCHANGED <<disk, read, pc, past>>

Wipe(p) ==
    /\ At(p, "failed")
    /\ slots' = {}
    /\ Turns("wiped")
    /\ UNCHANGED <<registry, settings, read, pc, past>>

CopyBack(p) ==
    /\ At(p, "wiped")
    /\ slots' = txn.tree
    /\ left' = left \ Recorded(txn.saved)
    /\ Turns("tree back")
    /\ UNCHANGED <<registry, settings, read, pc, mishaps>>

StoreBack(p) ==
    /\ At(p, "tree back")
    /\ registry' = txn.saved
    /\ Turns("registry back")
    /\ UNCHANGED <<slots, settings, read, pc, past>>

SettingsAsTheyAre(p) ==
    /\ At(p, "registry back")
    /\ Release(p)
    /\ UNCHANGED <<disk, past>>
\* write_enabled_plugins: all entries, as this command had read them
SettingsBack(p) ==
    /\ At(p, "registry back")
    /\ settings' = read[p]
    /\ Release(p)
    /\ UNCHANGED <<slots, registry, past>>

RestoreFails(p) ==
    /\ pc[p] = "holding" /\ txn.stage \in Backward
    /\ MayBreak
    /\ Release(p)
    /\ mishaps' = mishaps \cup {"torn"}
    /\ UNCHANGED <<disk, left>>

\* the process ends; the operating system takes its locks back
CrashWaiting(p) ==
    /\ pc[p] = "waiting"
    /\ pc' = [pc EXCEPT ![p] = "idle"]
    /\ read' = [read EXCEPT ![p] = {}]
    /\ UNCHANGED <<disk, txn, past>>

Crash(p) ==
    /\ pc[p] = "holding"
    /\ MayBreak
    /\ Release(p)
    /\ mishaps' = mishaps \cup {IF txn.stage \in Forward /\ ~Uninstalling THEN "crash" ELSE "torn"}
    /\ UNCHANGED <<disk, left>>

\* a listing or a start of the client drops plugins whose active slot is gone
CleanUp(p) ==
    /\ pc[p] = "idle" /\ Free
    /\ Stale # {}
    /\ registry' = Dropped(registry, Stale)
    /\ UNCHANGED <<slots, settings, read, pc, txn, past>>

Mutates(p) ==
    \/ \E x \in Plugin, v \in Versions :
          Install(p, x, v) \/ Update(p, x, v) \/ Rollback(p, x, v)
    \/ \E x \in Plugin : Enable(p, x) \/ Disable(p, x) \/ Uninstall(p, x)
    \/ CopyIn(p) \/ Enrol(p) \/ Accept(p) \/ Store(p) \/ WriteSettings(p) \/ Finish(p)
Restores(p) ==
    Fails(p) \/ Wipe(p) \/ CopyBack(p) \/ StoreBack(p) \/ SettingsBack(p) \/ RestoreFails(p)
Proceeds(p) == Lock(p) \/ GiveUp(p) \/ Mutates(p) \/ Restores(p)

Next == \E p \in Process : Begin(p) \/ Proceeds(p) \/ CrashWaiting(p) \/ Crash(p) \/ CleanUp(p)

Spec == Init /\ [][Next]_vars

(***************************************************************************)
(* Properties.                                                             *)
(***************************************************************************)
\* However commands fail, crash and are restored, the registry file always
\* names an active version that is among the records of its plugin, and
\* records of installed plugins only: anything else makes
\* validate_installed_version_records refuse every later command.
RegistryIsCoherent == Coherent(registry)

\* At rest, unless a process crashed or a restoration failed, no recorded
\* version is missing from the tree (which would refuse every later command),
\* and none is left over (which would refuse to install that version for good)
\* but those a pruning of a command that went through could not remove.
\* Copying, pruning, the uninstall trash, the candidate's rejection and the
\* restoration all have to agree on it.  And however updates and rollbacks
\* alternate, no plugin has more than Keep versions beside one.
TreeIsTheRegistry ==
    Free /\ mishaps \subseteq {"stale"} =>
        /\ Recorded(registry) \subseteq slots
        /\ slots \ Recorded(registry) = left
        /\ \A x \in Plugin : Len(registry.kept[x]) <= Keep + 1

\* The active version of a plugin is in place at any moment, except while its
\* uninstallation or a restoration is under way or was cut short: a crash in
\* the middle of an update, install or rollback never makes the next listing
\* take the plugin for gone.
\* (keepVersions 0 prunes the active version before the registry names its
\* successor.)
ActiveIsInPlace ==
    Keep > 0 /\ "torn" \notin mishaps /\ txn.stage \notin Backward /\ ~Uninstalling =>
        Stale = {}

\* At rest, as long as no process died and none acted on settings that had
\* changed since it read them, every enabled plugin is installed and has
\* the plugins it needs enabled, in versions it accepts: also after a rollback
\* or an update of what it needs, and after any failure.
EnabledAreServed ==
    Free /\ mishaps = {} =>
        /\ settings \subseteq Installed(registry)
        /\ Satisfied(registry, settings)

=============================================================================
