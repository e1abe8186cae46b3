------------------------------ MODULE Desired ------------------------------
(***************************************************************************)
(* How a managed node gets its configuration: the agent's follower of the  *)
(* generations (agent/internal/desired), the tree it swaps on the disk,    *)
(* the nginx master that re-reads it, and the entrypoint of the container. *)
(*                                                                         *)
(* A generation is its number.  On the disk it is three parts: the store   *)
(* (certificates and keys), the pages and nginx.conf, which names files of *)
(* the other two; every part has a place for the version before it.  Each  *)
(* step below is what Apply does up to the next place where it can fail or *)
(* where the order of the renames shows.                                   *)
(***************************************************************************)
EXTENDS Integers, Sequences

CONSTANTS
    MaxGen,         \* bound: generations the controller publishes
    MaxCrash,       \* bound: how often the container is stopped
    MaxDelay,       \* retryPace.max in units of retryPace.first, 30 in the build
    CrashAt,        \* the steps at which the container may be stopped
    Faults,         \* the steps that may fail
    Prompt          \* does the master re-read before the agent's next step

PCs == {"idle", "fetch", "build", "test", "store", "store2", "pages", "pages2",
        "conf", "conf2", "rewrite", "reload", "clean"}

ASSUME DesiredAssumption ==
    /\ MaxGen \in Nat /\ MaxCrash \in Nat /\ MaxDelay \in Nat \ {0}
    /\ CrashAt \subseteq PCs /\ Faults \subseteq PCs \cup {"load"}
    /\ Prompt \in BOOLEAN

VARIABLES
    published,  \* the generation in the KV bucket, 0 before the first
    updates,    \* the generations the watcher has still to hand over
    pc,         \* where the follower is: idle in its select, in Apply, or down
    gen,        \* the generation being applied
    pending,    \* the generation whose retry is due, 0 when none
    delay,      \* the next pause
    applied,    \* what the heartbeat reports: [rev, apply]
    store, pages, conf,         \* the live tree
    pstore, ppages, pconf,      \* .prev, .prev-pages, nginx.conf.prev
    hup,        \* a reload the master has not acted on
    nginx,      \* the generation nginx runs, by parts, and the last it refused
    crashes

tree == <<store, pages, conf, pstore, ppages, pconf>>
follower == <<pc, gen, pending, delay, applied>>
vars == <<published, updates, pc, gen, pending, delay, applied, store, pages, conf,
          pstore, ppages, pconf, hup, nginx, crashes>>

None == -1
NoConf == [gen |-> None, paths |-> "none"]
Torn == [gen |-> None, paths |-> "torn"]
Stub == [gen |-> 0, paths |-> "live"]

Init ==
    /\ published = 0 /\ updates = <<>>
    /\ pc = "idle" /\ gen = 0 /\ pending = 0 /\ delay = 1
    /\ applied = [rev |-> 0, apply |-> "none"]
    /\ store = None /\ pages = None /\ conf = Stub
    /\ pstore = None /\ ppages = None /\ pconf = NoConf
    /\ hup = FALSE
    /\ nginx = [up |-> TRUE, gen |-> 0, store |-> None, pages |-> None, refused |-> None]
    /\ crashes = 0

-----------------------------------------------------------------------------
(* The controller. *)
Publish ==
    /\ published < MaxGen
    /\ published' = published + 1
    /\ updates' = IF pc = "down" THEN updates ELSE Append(updates, published')
    /\ UNCHANGED <<follower, tree, hup, nginx, crashes>>

-----------------------------------------------------------------------------
(* follow and handle. *)

(* The agent's next step; with Prompt the master is done before it. *)
Step(from) == pc = from /\ (Prompt => ~hup)

handle(g) ==
    IF applied.apply = "ok" /\ applied.rev = g
    THEN pc' = "idle" /\ pending' = 0 /\ UNCHANGED gen
    ELSE pc' = "fetch" /\ gen' = g /\ UNCHANGED pending

TakePack ==
    /\ Step("idle") /\ updates # <<>>
    /\ updates' = Tail(updates)
    /\ delay' = 1
    /\ handle(Head(updates))
    /\ UNCHANGED <<published, applied, tree, hup, nginx, crashes>>

Retry ==
    /\ Step("idle") /\ pending # 0
    /\ handle(pending)
    /\ UNCHANGED <<published, updates, delay, applied, tree, hup, nginx, crashes>>

(* Mutant: a failed generation is not kept for a retry. *)
Failed_forgets ==
    /\ applied' = [applied EXCEPT !.apply = "apply_failed"]
    /\ pc' = "idle"
    /\ pending' = 0
    /\ delay' = IF 2 * delay <= MaxDelay THEN 2 * delay ELSE MaxDelay
    /\ UNCHANGED <<gen, published, updates, hup, nginx, crashes>>

(* handle records the failure under the generation before, and follow      *)
(* keeps this one for a retry.  containsDecryptError takes no error of     *)
(* Apply for one of decryption: all of them begin with "apply:".           *)
Failed ==
    /\ applied' = [applied EXCEPT !.apply = "apply_failed"]
    /\ pc' = "idle"
    /\ pending' = gen
    /\ delay' = IF 2 * delay <= MaxDelay THEN 2 * delay ELSE MaxDelay
    /\ UNCHANGED <<gen, published, updates, hup, nginx, crashes>>

Goto(next) ==
    /\ pc' = next
    /\ UNCHANGED <<gen, pending, delay, applied, published, updates, hup, nginx, crashes>>

-----------------------------------------------------------------------------
(* Apply. *)

(* FetchBlobs, the checks of the manifest with the decryption and the      *)
(* staging, and nginx -t: nothing of the live tree is touched yet.         *)
Prepare(from, next) ==
    /\ Step(from)
    /\ \/ Goto(next)
       \/ from \in Faults /\ Failed
    /\ UNCHANGED tree

FetchBlobs == Prepare("fetch", "build")
Build == Prepare("build", "test")
Test == Prepare("test", "store")

StoreAside ==
    /\ Step("store")
    /\ pstore' = store /\ store' = None
    /\ Goto("store2")
    /\ UNCHANGED <<pages, conf, ppages, pconf>>

StoreSwap ==
    /\ Step("store2")
    /\ \/ store' = gen /\ Goto("pages") /\ UNCHANGED pstore
       \/ "store2" \in Faults /\ store' = pstore /\ pstore' = None /\ Failed
    /\ UNCHANGED <<pages, conf, ppages, pconf>>

PagesAside ==
    /\ Step("pages")
    /\ ppages' = pages /\ pages' = None
    /\ Goto("pages2")
    /\ UNCHANGED <<store, conf, pstore, pconf>>

(* Mutant: the store is not put back with the pages. *)
PagesSwap_keeps_store ==
    /\ Step("pages2")
    /\ \/ pages' = gen /\ Goto("conf") /\ UNCHANGED <<store, pstore, ppages>>
       \/ /\ "pages2" \in Faults
          /\ pages' = ppages /\ ppages' = None
          /\ Failed /\ UNCHANGED <<store, pstore>>
    /\ UNCHANGED <<conf, pconf>>

PagesSwap ==
    /\ Step("pages2")
    /\ \/ pages' = gen /\ Goto("conf") /\ UNCHANGED <<store, pstore, ppages>>
       \/ /\ "pages2" \in Faults
          /\ pages' = ppages /\ ppages' = None
          /\ store' = pstore /\ pstore' = None
          /\ Failed
    /\ UNCHANGED <<conf, pconf>>

ConfAside ==
    /\ Step("conf")
    /\ pconf' = conf /\ conf' = NoConf
    /\ Goto("conf2")
    /\ UNCHANGED <<store, pages, pstore, ppages>>

(* The staged nginx.conf names files in the staging directories. *)
ConfSwap ==
    /\ Step("conf2")
    /\ \/ /\ conf' = [gen |-> gen, paths |-> "staging"]
          /\ Goto("rewrite")
          /\ UNCHANGED <<store, pages, pstore, ppages, pconf>>
       \/ /\ "conf2" \in Faults
          /\ conf' = pconf /\ pconf' = NoConf
          /\ store' = pstore /\ pstore' = None
          /\ pages' = ppages /\ ppages' = None
          /\ Failed

Rewrite ==
    /\ Step("rewrite")
    /\ \/ conf' = [gen |-> gen, paths |-> "live"] /\ Goto("reload")
       \/ "rewrite" \in Faults /\ conf' \in {conf, Torn} /\ Failed
    /\ UNCHANGED <<store, pages, pstore, ppages, pconf>>

(* Mutant: a failed reload counts as done. *)
Reload_ignores_error ==
    /\ Step("reload")
    /\ hup' \in {TRUE, "reload" \notin Faults} /\ pc' = "clean"
    /\ UNCHANGED <<gen, pending, delay, applied, published, updates, nginx, crashes>>
    /\ UNCHANGED tree

(* nginx -s reload: the signal is out. *)
Reload ==
    /\ Step("reload")
    /\ \/ /\ hup' = TRUE /\ pc' = "clean"
          /\ UNCHANGED <<gen, pending, delay, applied, published, updates, nginx, crashes>>
       \/ "reload" \in Faults /\ Failed
    /\ UNCHANGED tree

Clean ==
    /\ Step("clean")
    /\ pstore' = None /\ ppages' = None /\ pconf' = NoConf
    /\ applied' = [rev |-> gen, apply |-> "ok"]
    /\ pc' = "idle" /\ pending' = 0
    /\ UNCHANGED <<gen, delay, published, updates, store, pages, conf, hup, nginx, crashes>>

-----------------------------------------------------------------------------
(* nginx and the container. *)

(* A configuration nginx can load: it is there, it is whole and the files  *)
(* it names are there.                                                     *)
Loadable(c) ==
    c = Stub \/ (c.paths = "live" /\ store # None /\ pages # None)

Loaded(c) ==
    [up |-> TRUE, gen |-> c.gen,
     store |-> IF c = Stub THEN None ELSE store,
     pages |-> IF c = Stub THEN None ELSE pages, refused |-> nginx.refused]

(* The master acts on the signal; a configuration it cannot load leaves it *)
(* with the one it runs.                                                   *)
NginxReloads ==
    /\ hup
    /\ hup' = FALSE
    /\ \/ Loadable(conf) /\ nginx' = Loaded(conf)
       \/ /\ Loadable(conf) => "load" \in Faults
          /\ nginx' = [nginx EXCEPT !.refused = conf.gen]
    /\ UNCHANGED <<published, updates, follower, tree, crashes>>

(* The agent is the main process of the container: with it, nginx and all  *)
(* the agent remembers are gone.                                           *)
Crash ==
    /\ crashes < MaxCrash /\ pc \in CrashAt
    /\ crashes' = crashes + 1
    /\ pc' = "down" /\ gen' = 0 /\ pending' = 0 /\ delay' = 1
    /\ applied' = [rev |-> 0, apply |-> "none"]
    /\ updates' = <<>> /\ hup' = FALSE
    /\ nginx' = [up |-> FALSE, gen |-> 0, store |-> None, pages |-> None, refused |-> None]
    /\ UNCHANGED <<published, tree>>

(* The configuration the entrypoint leaves: the stub, unless nginx.conf.prev *)
(* is there.                                                               *)
BootConf == IF pconf = NoConf THEN Stub ELSE conf

(* The entrypoint starts nginx and then the agent, whose watcher begins    *)
(* with the generation in the bucket.  An nginx that cannot start stops    *)
(* the container again.                                                    *)
Entrypoint ==
    /\ pc = "down"
    /\ Loadable(BootConf)
    /\ conf' = BootConf
    /\ nginx' = Loaded(BootConf)
    /\ pc' = "idle"
    /\ updates' = IF published = 0 THEN <<>> ELSE <<published>>
    /\ UNCHANGED <<published, gen, pending, delay, applied, store, pages, pstore,
                   ppages, pconf, hup, crashes>>

-----------------------------------------------------------------------------
AgentStep ==
    \/ TakePack \/ Retry
    \/ FetchBlobs \/ Build \/ Test
    \/ StoreAside \/ StoreSwap \/ PagesAside \/ PagesSwap \/ ConfAside \/ ConfSwap
    \/ Rewrite \/ Reload \/ Clean

Next == Publish \/ AgentStep \/ NginxReloads \/ Crash \/ Entrypoint

Spec == Init /\ [][Next]_vars

(* The agent, the master and the restart policy keep going; and the cause  *)
(* of a failure goes away in the end, so that no step fails for ever.      *)
Fairness ==
    /\ WF_vars(AgentStep) /\ WF_vars(NginxReloads) /\ WF_vars(Entrypoint)
    /\ \A p \in {"fetch", "build", "test", "store2", "pages2", "conf2", "rewrite", "reload"} :
         SF_vars(pc = p /\ AgentStep /\ pc' # "idle")

FairSpec == Spec /\ Fairness

-----------------------------------------------------------------------------
Part == Nat \cup {None}
Conf == [gen : Part, paths : {"none", "torn", "staging", "live"}]

(* nginx never runs a mixture: the nginx.conf, the certificates and the    *)
(* pages it loaded are of one generation, whichever attempts failed before *)
(* and wherever they did.  And an attempt that fails puts the tree back:   *)
(* between attempts the three live parts are of one generation, whole or   *)
(* (after a failed rewrite of nginx.conf) not readable.                    *)
TreeWhole ==
    /\ nginx.gen # 0 => nginx.store = nginx.gen /\ nginx.pages = nginx.gen
    /\ pc = "idle" => store = pages /\ (conf.gen \in {0, None} \/ conf.gen = store)

(* Between attempts a report of ok names what nginx runs, or what nginx    *)
(* refused although nginx -t had passed.                                   *)
ReportTrue ==
    pc = "idle" /\ ~hup /\ applied.apply = "ok" =>
        applied.rev \in {nginx.gen, nginx.refused}

(* The container can always start again: nginx finds a configuration it    *)
(* can load whenever the agent, and with it the container, is stopped.     *)
Bootable == Loadable(BootConf)

(* The last generation published is applied in the end, by retries if need *)
(* be, and stays, as long as the container can be started.                 *)
LatestApplied ==
    <>[](pc # "down" /\ published > 0 => applied = [rev |-> published, apply |-> "ok"])
=============================================================================
