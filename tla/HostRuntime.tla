---------------------------- MODULE HostRuntime ----------------------------
(***************************************************************************)
(* The managed runtimes of a host and the capabilities drawn from them.    *)
(* Installer processes (`browser-init`, `plugin install|repair`) change    *)
(* one runtime directory with no lock between them and may die anywhere;   *)
(* the daemon inspects the directory, one await at a time, on every        *)
(* request and decides which capabilities it has.                          *)
(*                                                                         *)
(* The directory is what the checks tell apart: the node and python        *)
(* binaries, npm and the playwright CLI (both inside node's tree).  A      *)
(* "torn" file exists and does not run, an "old" binary runs below the     *)
(* minimum version.  Unix layout; archives and npm are external.           *)
(***************************************************************************)
EXTENDS Naturals, Sequences

CONSTANTS Installers,    \* installer processes, one command each
          InstallAsks,   \* per installer, [plugin, force]; "all" is browser-init
          HostConfigs,   \* [browser, file, chrome, shell : BOOLEAN]
          StartTrees     \* directories found at the start

VARIABLES rtDisk,     \* [Pieces -> {"none", "torn", "old", "new"}]
          ist,        \* per installer: pc, steps left, force, entries left
          disturbed,  \* history: another installer wrote during this one's run
          hostCfg,    \* the host's configuration and environment
          look,       \* the daemon's inspection: pc and what it has read
          rtAlive,    \* history: pieces that worked since the inspection began
          caps        \* capabilities the last finished inspection activated

hostVars == <<rtDisk, ist, disturbed, hostCfg, look, rtAlive, caps>>

Pieces == {"node", "npm", "cli", "python"}
Tree(step) == IF step = "node" THEN {"node", "npm", "cli"} ELSE {"python"}
Archive(step) == IF step = "node" THEN {"node", "npm"} ELSE {"python"}

(* builtin.rs: the manifests, by dependency.                               *)
Dependencies ==
    [p \in {"shell", "node", "python", "file", "browser"} |->
        IF p = "browser" THEN <<"shell", "node">> ELSE <<>>]

(* BTreeMap order of the ids ("browser-playwright-cli" first).             *)
PluginIds == <<"browser", "file", "node", "python", "shell">>

RECURSIVE VisitAll(_, _)
(* visit: depth first, a plugin after what it depends on; the built-in     *)
(* graph has no cycle and no unregistered dependency.                      *)
VisitAll(ids, order) ==
    IF ids = <<>> THEN order
    ELSE LET id == Head(ids)
             done == \E k \in DOMAIN order : order[k] = id
         IN  VisitAll(Tail(ids),
                      IF done THEN order
                      ELSE Append(VisitAll(Dependencies[id], order), id))

ActivationOrder == VisitAll(PluginIds, <<>>)

RECURSIVE Required(_)
Required(p) ==
    {p} \cup UNION {Required(Dependencies[p][k]) : k \in DOMAIN Dependencies[p]}

(* install_steps_for; run_all installs node and the CLI.                   *)
InstallSteps(p) ==
    IF p = "all" THEN <<"node", "browser">>
    ELSE SelectSeq(ActivationOrder,
                   LAMBDA s : s \in Required(p) /\ s \in {"node", "python", "browser"})

Runs(x) == rtDisk[x] \in {"old", "new"}
MeetsMinimum(x) == rtDisk[x] = "new"
Exists(x) == rtDisk[x] # "none"

Idle == [pc |-> "idle", steps |-> <<>>, plan |-> <<>>, force |-> FALSE,
         all |-> FALSE, left |-> {}]
NoLook == [pc |-> "idle", node |-> "missing", dep |-> "missing",
           browser |-> "missing", nodePlugin |-> "missing", python |-> "missing"]

HostRuntimeInit ==
    /\ rtDisk \in StartTrees
    /\ ist = [i \in Installers |-> Idle]
    /\ disturbed = [i \in Installers |-> FALSE]
    /\ hostCfg \in HostConfigs
    /\ look = NoLook
    /\ rtAlive = {}
    /\ caps = {}

----------------------------------------------------------------------------
(* Installers.                                                             *)

Ended == {"idle", "ok", "failed", "dead"}

(* The process is gone, and its locals with it.                            *)
Gone(i, pc) == ist' = [ist EXCEPT ![i] = [Idle EXCEPT !.pc = pc]]

Goto(i, pc) ==
    IF pc = "failed" THEN Gone(i, pc) ELSE ist' = [ist EXCEPT ![i].pc = pc]

NextStep(i) ==
    ist' = [ist EXCEPT ![i].pc = IF Len(ist[i].steps) = 1 THEN "ok" ELSE "start",
                       ![i].steps = Tail(@)]

(* What a change of the directory does to the history.                     *)
Writes(i, d) ==
    /\ rtDisk' = d
    /\ disturbed' = [j \in Installers |->
           disturbed[j] \/ (d # rtDisk /\ j # i /\ ist[j].pc \notin Ended)]
    /\ rtAlive' = IF look.pc = "idle" THEN {}
                  ELSE rtAlive \cup {x \in Pieces : d[x] \in {"old", "new"}}

HoldsDisk == UNCHANGED <<rtDisk, disturbed, rtAlive>>
HostRest == UNCHANGED <<hostCfg, look, caps>>

RunInstall(i, a) ==
    /\ ist[i].pc = "idle"
    /\ LET steps == InstallSteps(a.plugin)
       IN  ist' = [ist EXCEPT ![i] =
               [pc |-> IF steps = <<>> THEN "failed" ELSE "start",
                steps |-> steps, plan |-> steps, force |-> a.force,
                all |-> a.plugin = "all", left |-> {}]]
    /\ HoldsDisk /\ HostRest

(* Mutant: a forced install also keeps what runs.                          *)
MutEnsurePresent(i) ==
    /\ ist[i].pc = "start"
    /\ Head(ist[i].steps) # "browser"
    /\ IF MeetsMinimum(Head(ist[i].steps)) THEN NextStep(i) ELSE Goto(i, "remove")
    /\ HoldsDisk /\ HostRest

(* Unless forced, a binary that runs at the minimum version stays.         *)
AlreadyInstalled(i) == ~ist[i].force /\ MeetsMinimum(Head(ist[i].steps))

(* The start of node's and python's ensure.                                *)
EnsurePresent(i) ==
    /\ ist[i].pc = "start"
    /\ Head(ist[i].steps) # "browser"
    /\ IF AlreadyInstalled(i) THEN NextStep(i) ELSE Goto(i, "remove")
    /\ HoldsDisk /\ HostRest

(* run_step asks node::inspect before the CLI's ensure; run_all does not.  *)
StartCli(i) ==
    /\ ist[i].pc = "start"
    /\ Head(ist[i].steps) = "browser"
    /\ Goto(i, IF ist[i].all \/ MeetsMinimum("node") THEN "npm" ELSE "failed")
    /\ HoldsDisk /\ HostRest

(* remove_dir_all, its error ignored: all of the tree or part of it goes.  *)
RemoveTree(i) ==
    /\ ist[i].pc = "remove"
    /\ \E gone \in SUBSET Tree(Head(ist[i].steps)) :
          Writes(i, [x \in Pieces |-> IF x \in gone THEN "none" ELSE rtDisk[x]])
    /\ Goto(i, "download")
    /\ HostRest

Download(i) ==
    /\ ist[i].pc = "download"
    /\ \/ ist' = [ist EXCEPT ![i].pc = "unpack", ![i].left = Archive(Head(ist[i].steps))]
       \/ Goto(i, "failed")
    /\ HoldsDisk /\ HostRest

(* One archive entry lands, in the archive's order whatever that is.       *)
UnpackEntry(i, x) ==
    /\ ist[i].pc = "unpack"
    /\ x \in ist[i].left
    /\ Writes(i, [rtDisk EXCEPT ![x] = "new"])
    /\ ist' = [ist EXCEPT ![i].left = @ \ {x},
                          ![i].pc = IF ist[i].left = {x} THEN "verify" ELSE "unpack"]
    /\ HostRest

(* A corrupt entry, a full disk, or the process dying in the middle of it. *)
UnpackBreaks(i, x) ==
    /\ ist[i].pc = "unpack"
    /\ x \in ist[i].left
    /\ \E left \in {rtDisk[x], "torn"} : Writes(i, [rtDisk EXCEPT ![x] = left])
    /\ Goto(i, "failed")
    /\ HostRest

(* node: the binary exists; python: it exists and runs at the minimum.     *)
Unpacked(step) == IF step = "node" THEN Exists("node") ELSE MeetsMinimum("python")

Verify(i) ==
    /\ ist[i].pc = "verify"
    /\ IF Unpacked(Head(ist[i].steps)) THEN NextStep(i) ELSE Goto(i, "failed")
    /\ HoldsDisk /\ HostRest

(* playwright::ensure: npm must exist; what is installed decides the way.  *)
NpmFound(i) ==
    /\ ist[i].pc = "npm"
    /\ Goto(i, IF ~Exists("npm") THEN "failed"
               ELSE IF ~Exists("cli") THEN "npmInstall"
               ELSE IF ist[i].force THEN "uninstall" ELSE "cliCheck")
    /\ HoldsDisk /\ HostRest

(* npm uninstall, best effort.                                             *)
NpmUninstall(i) ==
    /\ ist[i].pc = "uninstall"
    /\ \E left \in {rtDisk["cli"], "none"} :
          /\ left # rtDisk["cli"] => Runs("npm") /\ Runs("node")
          /\ Writes(i, [rtDisk EXCEPT !["cli"] = left])
    /\ Goto(i, "npmInstall")
    /\ HostRest

(* --version of the CLI that is there.                                     *)
CliCheck(i) ==
    /\ ist[i].pc = "cliCheck"
    /\ IF Runs("cli") THEN NextStep(i) ELSE Goto(i, "npmInstall")
    /\ HoldsDisk /\ HostRest

NpmInstall(i) ==
    /\ ist[i].pc = "npmInstall"
    /\ \/ /\ Runs("npm") /\ Runs("node")
          /\ Writes(i, [rtDisk EXCEPT !["cli"] = "new"])
          /\ Goto(i, "cliVerify")
       \/ /\ \E left \in {rtDisk["cli"]} \cup (IF Runs("npm") THEN {"torn"} ELSE {}) :
                Writes(i, [rtDisk EXCEPT !["cli"] = left])
          /\ Goto(i, "failed")
    /\ HostRest

(* Only that the binary resolves: the output of --version is not judged.   *)
CliVerify(i) ==
    /\ ist[i].pc = "cliVerify"
    /\ IF Exists("cli") THEN NextStep(i) ELSE Goto(i, "failed")
    /\ HoldsDisk /\ HostRest

(* The installer is killed between two steps.                              *)
InstallerDies(i) ==
    /\ ist[i].pc \notin Ended
    /\ Gone(i, "dead")
    /\ HoldsDisk /\ HostRest

----------------------------------------------------------------------------
(* get_host_resource, from await to await.                                 *)

LookRest == UNCHANGED <<rtDisk, ist, disturbed, hostCfg>>

NodeReport ==
    IF MeetsMinimum("node") THEN "ok"
    ELSE IF rtDisk["node"] = "old" THEN "outdated" ELSE "missing"

(* node_resource: npm's file decides once node's report is good.           *)
NodeStatus(report) ==
    IF report # "ok" THEN report
    ELSE IF Exists("npm") THEN "installed" ELSE "failed"

DependenciesInstalled == hostCfg.shell /\ look.dep = "installed"

(* browser_playwright_resource: the CLI is run only behind its             *)
(* dependencies.                                                           *)
CliStatus ==
    IF ~DependenciesInstalled THEN "blocked"
    ELSE IF Runs("cli") THEN "installed" ELSE "missing"

(* python_resource: python answers --version, whatever the version.        *)
PythonStatus ==
    IF ~Exists("python") THEN "missing"
    ELSE IF Runs("python") THEN "installed" ELSE "failed"

(* node::inspect ran the binary; then, without an await, npm is looked for *)
(* and the dependency statuses are fixed.                                  *)
InspectNode ==
    /\ look.pc = "idle"
    /\ look' = [NoLook EXCEPT !.pc = "browser", !.node = NodeReport,
                              !.dep = NodeStatus(NodeReport)]
    /\ rtAlive' = {x \in Pieces : Runs(x)}
    /\ UNCHANGED caps
    /\ LookRest

(* The browser plugin comes first; node's status as a plugin is computed   *)
(* again after it, from the old report.                                    *)
InspectCli ==
    /\ look.pc = "browser"
    /\ look' = [look EXCEPT
           !.pc = "python",
           !.browser = CliStatus,
           !.nodePlugin = NodeStatus(look.node)]
    /\ UNCHANGED <<rtAlive, caps>>
    /\ LookRest

(* The capability entries, from the finished snapshot l.                   *)
exec_entry == hostCfg.shell
file_entry == hostCfg.file
runtime_entry(status) == status = "installed"

(* Enabled, no dependency missing, the CLI installed, a system browser.    *)
browser_entry(l) ==
    /\ hostCfg.browser /\ hostCfg.chrome
    /\ hostCfg.shell /\ l.nodePlugin = "installed"
    /\ l.browser = "installed"

router_from_plugins(l) ==
    {c \in {"exec", "file", "browser", "node", "python"} :
        CASE c = "exec" -> exec_entry
          [] c = "file" -> file_entry
          [] c = "node" -> runtime_entry(l.nodePlugin)
          [] c = "python" -> runtime_entry(l.python)
          [] c = "browser" -> browser_entry(l)}

(* The last await; then the router is built.                               *)
InspectPython ==
    /\ look.pc = "python"
    /\ LET seen == [look EXCEPT !.pc = "done", !.python = PythonStatus]
       IN  look' = seen /\ caps' = router_from_plugins(seen)
    /\ UNCHANGED rtAlive
    /\ LookRest

(* The next request inspects again: nothing is kept from this one.         *)
NextRequest ==
    /\ look.pc = "done"
    /\ look' = NoLook
    /\ rtAlive' = {}
    /\ caps' = {}
    /\ LookRest

----------------------------------------------------------------------------
HostRuntimeNext ==
    \/ \E i \in Installers :
          \/ \E a \in InstallAsks[i] : RunInstall(i, a)
          \/ EnsurePresent(i) \/ StartCli(i) \/ RemoveTree(i) \/ Download(i)
          \/ \E x \in Pieces : UnpackEntry(i, x) \/ UnpackBreaks(i, x)
          \/ Verify(i) \/ NpmFound(i) \/ NpmUninstall(i) \/ CliCheck(i)
          \/ NpmInstall(i) \/ CliVerify(i) \/ InstallerDies(i)
    \/ InspectNode \/ InspectCli \/ InspectPython \/ NextRequest

HostRuntimeSpec == HostRuntimeInit /\ [][HostRuntimeNext]_hostVars

----------------------------------------------------------------------------
(* A capability is active only for what worked at some moment of the       *)
(* inspection that activated it, however the awaits interleave with an     *)
(* installer; the browser needs all it depends on.                         *)
ActiveWasAlive ==
    look.pc = "done" =>
        /\ "node" \in caps => "node" \in rtAlive
        /\ "python" \in caps => "python" \in rtAlive
        /\ "browser" \in caps => {"node", "cli"} \subseteq rtAlive /\ "exec" \in caps

(* A command that ended well, and whose run no other installer disturbed,  *)
(* leaves what its steps promise: a node at the minimum version, a         *)
(* resolvable CLI, and when forced a node that has npm as well, whatever   *)
(* half-removed or half-unpacked tree it started from.                     *)
SuccessDelivers(i) ==
    LET did == {ist[i].plan[k] : k \in DOMAIN ist[i].plan}
    IN  /\ "node" \in did => MeetsMinimum("node") /\ (ist[i].force => Exists("npm"))
        /\ "python" \in did => MeetsMinimum("python")
        /\ "browser" \in did => Exists("cli") /\ Exists("npm")

(* An undisturbed command that is not forced never takes away a runtime    *)
(* that works.                                                             *)
SparesWorking(i) ==
    (ist[i].pc # ist'[i].pc /\ ~ist[i].force /\ ~disturbed[i]) =>
        \A x \in {"node", "python"} : rtDisk[x] = "new" => rtDisk'[x] = "new"

(* The promises of the runtime installers (browser_setup, plugin install)  *)
(* and of the capability router built from their directory.                *)
RuntimeHonest ==
    [][ /\ ActiveWasAlive'
        /\ \A i \in Installers :
              /\ SparesWorking(i)
              /\ (ist[i].pc # "ok" /\ ist'[i].pc = "ok" /\ ~disturbed[i]) =>
                    SuccessDelivers(i)' ]_hostVars
=============================================================================
